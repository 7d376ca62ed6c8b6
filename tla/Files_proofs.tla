---------------------------- MODULE Files_proofs ----------------------------
(***************************************************************************)
(* What is kept in files: WorkspaceRollback, for any editors and any       *)
(* number of contents of the file, GuardedEdits, for any number of         *)
(* contents and of backups, SharedFiles, for any processes and additions,  *)
(* and Conversation, for any ids, any lengths of a history and any number  *)
(* of messages that a compaction keeps.                                    *)
(***************************************************************************)
EXTENDS WorkspaceRollback, GuardedEdits, SharedFiles, Conversation,
        SequenceTheorems, FiniteSetTheorems, WellFoundedInduction, TLAPS

-----------------------------------------------------------------------------
(* Roll-back *)

\* What an action assigns, with the file's content and its number as numbers.
LEMMA PutFact ==
    ASSUME RollTypeOK, NEW c \in Fresh, Put(c)
    PROVE  /\ file' = c /\ contents \in Nat /\ contents' \in 0..MaxContents
           /\ contents <= contents' /\ c \in 0..contents'
           /\ c = Absent \/ c = contents + 1
BY ContentsAssumption DEF RollTypeOK, Fresh, Put, Absent

\* The marks of the journal are no contents.
LEMMA Marks ==
    ASSUME RollTypeOK
    PROVE  /\ Pending \notin 0..contents /\ Untouched \notin 0..contents
           /\ Pending # Untouched /\ file \in 0..contents
           /\ Absent \in 0..contents /\ contents \in 0..MaxContents
BY ContentsAssumption DEF RollTypeOK, Pending, Untouched, Absent

\* What the comparison before a write has found out.
LEMMA Compared ==
    ASSUME AsExpected
    PROVE  /\ touched # Untouched => touched = file
           /\ touched = Untouched /\ listed = "files" => file = image
           /\ touched = Untouched /\ listed = "missing" => file = Absent
BY DEF AsExpected

\* The invariant holds before any task.
LEMMA RollStart == RollInit => RollInv
<1>. SUFFICES ASSUME RollInit PROVE RollInv
  OBVIOUS
<1>1. RollTypeOK
  <2>1. contents \in 0..MaxContents /\ {file, image, mine} \subseteq 0..contents
    BY ContentsAssumption DEF RollInit, Absent
  <2>2. active \in BOOLEAN /\ restoring \in BOOLEAN
    BY DEF RollInit
  <2>. QED
    BY <2>1, <2>2 DEF RollInit, RollTypeOK
<1>2. ManifestAgrees
  BY DEF RollInit, ManifestAgrees
<1>3. OneAtWork
  BY DEF RollInit, OneAtWork
<1>4. PreimageHasWork
  BY Marks, <1>1 DEF RollInit, PreimageHasWork, Safe
<1>. QED
  BY <1>1, <1>2, <1>3, <1>4 DEF RollInv

-----------------------------------------------------------------------------
\* One step of the task, of an editor, of the user or of a restore.
Step ==
    \/ OpenJournal \/ TaskEnd \/ Crash \/ StartRestore \/ FinishRestore
    \/ \E dirty \in BOOLEAN : Capture(dirty)
    \/ \E e \in Editors : BeforeWrite(e) \/ WriteFails(e) \/ AfterWrite(e)
    \/ \E e \in Editors, c \in Fresh : Replace(e, c)
    \/ \E c \in Fresh : UserEdits(c)

\* What happens is a step of an editor, of the user or of a restore.
LEMMA NextIsStep == RollNext => Step
BY DEF RollNext, Step

\* Types.
LEMMA StepTypes ==
    ASSUME RollTypeOK, Step
    PROVE  RollTypeOK'
<1>1. CASE OpenJournal \/ TaskEnd \/ StartRestore
  BY <1>1 DEF OpenJournal, TaskEnd, StartRestore, manifest, RollTypeOK
<1>2. CASE Crash
  BY <1>2 DEF Crash, PutBack, manifest, RollTypeOK
<1>3. CASE FinishRestore
  BY <1>3 DEF FinishRestore, PutBack, RollTypeOK
<1>4. CASE \E dirty \in BOOLEAN : Capture(dirty)
  <2>1. PICK dirty \in BOOLEAN : Capture(dirty)
    BY <1>4
  <2>2. CASE snapshot # "none"
    BY <2>1, <2>2 DEF Capture, manifest, RollTypeOK
  <2>3. CASE snapshot = "none"
    <3>1. listed' \in {"no", "missing", "files", "skipped"}
      BY <2>1, <2>3 DEF Capture
    <3>2. image' \in 0..contents
      BY <2>1, <2>3, Marks DEF Capture
    <3>. QED
      BY <2>1, <2>3, <3>1, <3>2 DEF Capture, RollTypeOK
  <2>. QED
    BY <2>2, <2>3
<1>5. CASE \E e \in Editors : BeforeWrite(e) \/ WriteFails(e) \/ AfterWrite(e)
  <2>1. PICK e \in Editors : BeforeWrite(e) \/ WriteFails(e) \/ AfterWrite(e)
    BY <1>5
  <2>2. CASE BeforeWrite(e)
    BY <2>2, Marks DEF BeforeWrite, RollTypeOK
  <2>3. CASE WriteFails(e)
    BY <2>3 DEF WriteFails, manifest, RollTypeOK
  <2>4. CASE AfterWrite(e)
    BY <2>4 DEF AfterWrite, RollTypeOK
  <2>. QED
    BY <2>1, <2>2, <2>3, <2>4
<1>6. CASE \E e \in Editors, c \in Fresh : Replace(e, c)
  <2>1. PICK e \in Editors, c \in Fresh : Replace(e, c)
    BY <1>6
  <2>. QED
    BY <2>1, PutFact DEF Replace, manifest, RollTypeOK
<1>7. CASE \E c \in Fresh : UserEdits(c)
  <2>1. PICK c \in Fresh : UserEdits(c)
    BY <1>7
  <2>. QED
    BY <2>1, PutFact DEF UserEdits, manifest, RollTypeOK
<1>. QED
  BY <1>1, <1>2, <1>3, <1>4, <1>5, <1>6, <1>7 DEF Step

\* The manifest goes on agreeing with itself.
LEMMA StepManifest ==
    ASSUME RollTypeOK, ManifestAgrees, OneAtWork, Step
    PROVE  ManifestAgrees'
<1>1. CASE UNCHANGED manifest
  <2>1. restoring' /\ snapshot = "journal" => touched # Untouched
    BY <1>1, Marks DEF manifest, Step, OpenJournal, TaskEnd, Crash, StartRestore, Eligible,
              FinishRestore, Capture, BeforeWrite, WriteFails, AfterWrite, Replace,
              UserEdits, ManifestAgrees
  <2>. QED
    BY <1>1, <2>1 DEF manifest, ManifestAgrees
<1>2. CASE OpenJournal
  BY <1>2 DEF OpenJournal, ManifestAgrees, OneAtWork
<1>3. CASE FinishRestore
  <2>1. /\ snapshot' = snapshot /\ listed' = listed /\ image' = image /\ ~restoring'
        /\ restoring /\ touched' = IF snapshot = "journal" THEN image ELSE touched
    BY <1>3 DEF FinishRestore
  <2>2. snapshot = "journal" => listed \in {"files", "missing"}
    BY <2>1 DEF ManifestAgrees
  <2>. QED
    BY <2>1, <2>2 DEF ManifestAgrees
<1>4. CASE \E dirty \in BOOLEAN : Capture(dirty)
  BY <1>1, <1>4 DEF Capture, Idle, ManifestAgrees
<1>5. CASE \E e \in Editors : BeforeWrite(e)
  <2>1. PICK e \in Editors : BeforeWrite(e)
    BY <1>5
  <2>2. /\ snapshot = "journal" /\ snapshot' = snapshot /\ touched' = Pending
        /\ listed # "skipped"
    BY <2>1 DEF BeforeWrite
  <2>3. CASE listed = "no"
    <3>1. /\ listed' = IF file = Absent THEN "missing" ELSE "files"
          /\ image' = file
      BY <2>1, <2>3 DEF BeforeWrite
    <3>. QED
      BY <2>2, <3>1, Marks DEF ManifestAgrees
  <2>4. CASE listed # "no"
    <3>1. UNCHANGED <<listed, image>>
      BY <2>1, <2>4 DEF BeforeWrite
    <3>. QED
      BY <2>2, <2>4, <3>1, Marks DEF ManifestAgrees, RollTypeOK
  <2>. QED
    BY <2>3, <2>4
<1>6. CASE \E e \in Editors : AfterWrite(e)
  <2>1. PICK e \in Editors : AfterWrite(e)
    BY <1>6
  <2>2. touched = Pending /\ editPc[e] # "idle"
    BY <2>1 DEF AfterWrite, OneAtWork
  <2>3. snapshot = "journal" /\ listed \in {"files", "missing"}
    BY <2>2, Marks DEF ManifestAgrees
  <2>. QED
    BY <2>1, <2>3, Marks DEF AfterWrite, ManifestAgrees
<1>. QED
  BY <1>1, <1>2, <1>3, <1>4, <1>5, <1>6
     DEF Step, TaskEnd, Crash, StartRestore, WriteFails, Replace, UserEdits

\* One editor at a time is past its comparison.
LEMMA StepOne ==
    ASSUME RollTypeOK, ManifestAgrees, OneAtWork, Step
    PROVE  OneAtWork'
<1>1. CASE OpenJournal
  BY <1>1 DEF OpenJournal, OneAtWork
<1>2. CASE TaskEnd \/ StartRestore \/ FinishRestore
  <2>1. CASE TaskEnd
    BY <2>1 DEF TaskEnd, Idle, OneAtWork
  <2>2. CASE StartRestore
    BY <2>2 DEF StartRestore, Eligible, Idle, manifest, OneAtWork
  <2>3. CASE FinishRestore
    BY <2>3 DEF FinishRestore, OneAtWork
  <2>. QED
    BY <1>2, <2>1, <2>2, <2>3
<1>3. CASE Crash
  BY <1>3 DEF Crash, OneAtWork
<1>4. CASE \E dirty \in BOOLEAN : Capture(dirty)
  BY <1>4 DEF Capture, Idle, OneAtWork
<1>5. CASE \E e \in Editors : BeforeWrite(e)
  <2>1. PICK e \in Editors : BeforeWrite(e)
    BY <1>5
  <2>2. \A d \in Editors : editPc[d] = "idle"
    BY <2>1, Marks, Compared DEF BeforeWrite, OneAtWork
  <2>3. \A d \in Editors : editPc'[d] # "idle" => d = e
    BY <2>1, <2>2 DEF BeforeWrite, RollTypeOK
  <2>. QED
    BY <2>1, <2>3 DEF BeforeWrite, OneAtWork
<1>6. CASE \E e \in Editors : WriteFails(e) \/ AfterWrite(e)
  <2>1. PICK e \in Editors : WriteFails(e) \/ AfterWrite(e)
    BY <1>6
  <2>2. \A d \in Editors : editPc'[d] = "idle"
    BY <2>1 DEF WriteFails, AfterWrite, OneAtWork, RollTypeOK
  <2>. QED
    BY <2>1, <2>2 DEF WriteFails, AfterWrite, OneAtWork
<1>7. CASE \E e \in Editors, c \in Fresh : Replace(e, c)
  <2>1. PICK e \in Editors, c \in Fresh : Replace(e, c)
    BY <1>7
  <2>. QED
    BY <2>1 DEF Replace, manifest, OneAtWork, RollTypeOK
<1>8. CASE \E c \in Fresh : UserEdits(c)
  BY <1>8 DEF UserEdits, manifest, OneAtWork
<1>. QED
  BY <1>1, <1>2, <1>3, <1>4, <1>5, <1>6, <1>7, <1>8 DEF Step

\* The user's work stays in the preimage, or in the file where nobody is let
\* to write over it.
LEMMA StepWork ==
    ASSUME RollTypeOK, ManifestAgrees, OneAtWork, PreimageHasWork, Step
    PROVE  PreimageHasWork'
<1>. SUFFICES ASSUME excuse' = "none"
              PROVE  /\ Safe'
                     /\ touched' = file' => InPreimage'
                     /\ restoring' /\ snapshot' = "journal" => InPreimage'
                     /\ \A e \in Editors : editPc'[e] # "idle" => InPreimage'
  BY DEF PreimageHasWork
<1>1. CASE OpenJournal \/ TaskEnd
  BY <1>1, Marks DEF OpenJournal, TaskEnd, manifest, ManifestAgrees, OneAtWork,
                     PreimageHasWork, Safe, InPreimage
<1>2. CASE StartRestore
  BY <1>2 DEF StartRestore, Eligible, manifest, PreimageHasWork, Safe, InPreimage
<1>3. CASE FinishRestore
  <2>1. excuse = "none" /\ snapshot # "bare" /\ file' = image
    BY <1>3 DEF FinishRestore, PutBack
  <2>2. InPreimage /\ mine' = mine /\ image' = image
    BY <1>3, <2>1 DEF FinishRestore, PreimageHasWork, OneAtWork, RollTypeOK
  <2>. QED
    BY <1>3, <2>1, <2>2 DEF FinishRestore, Safe, InPreimage, PreimageHasWork
<1>4. CASE Crash
  <2>1. UNCHANGED <<manifest, mine>> /\ ~restoring' /\ \A e \in Editors : editPc'[e] = "idle"
    BY <1>4 DEF Crash
  <2>2. CASE UNCHANGED <<file, excuse>>
    BY <2>1, <2>2 DEF manifest, PreimageHasWork, Safe, InPreimage
  <2>3. CASE restoring /\ PutBack
    <3>1. excuse = "none" /\ snapshot = "journal" /\ file' = image
      BY <2>3 DEF PutBack, OneAtWork, RollTypeOK
    <3>2. InPreimage
      BY <2>3, <3>1 DEF PreimageHasWork
    <3>. QED
      BY <2>1, <3>1, <3>2 DEF manifest, Safe, InPreimage
  <2>. QED
    BY <1>4, <2>2, <2>3 DEF Crash
<1>5. CASE \E dirty \in BOOLEAN : Capture(dirty)
  BY <1>5, Marks DEF Capture, Idle, manifest, ManifestAgrees, PreimageHasWork, Safe,
                     InPreimage
<1>6. CASE \E e \in Editors : BeforeWrite(e)
  <2>1. PICK e \in Editors : BeforeWrite(e)
    BY <1>6
  <2>2. excuse = "none" /\ touched' = Pending /\ file' = file /\ mine' = mine
    BY <2>1 DEF BeforeWrite
  <2>3. Safe /\ (touched = file => InPreimage)
    BY <2>2 DEF PreimageHasWork
  <2>4. listed \in {"no", "files", "missing"}
    BY <2>1 DEF BeforeWrite, RollTypeOK
  <2>5. CASE listed = "no"
    <3>1. image' = file /\ image = Absent
      BY <2>1, <2>5 DEF BeforeWrite, ManifestAgrees
    <3>. QED
      BY <2>2, <2>3, <3>1 DEF Safe, InPreimage
  <2>6. CASE listed # "no"
    <3>1. image' = image
      BY <2>1, <2>6 DEF BeforeWrite
    <3>2. AsExpected
      BY <2>1 DEF BeforeWrite
    <3>3. \/ touched = file
          \/ file = image
          \/ file = Absent
      BY <2>4, <2>6, <3>2, Compared
    <3>. QED
      BY <2>2, <2>3, <3>1, <3>3 DEF Safe, InPreimage
  <2>. QED
    BY <2>5, <2>6
<1>7. CASE \E e \in Editors : WriteFails(e)
  BY <1>7 DEF WriteFails, manifest, PreimageHasWork, Safe, InPreimage, RollTypeOK
<1>8. CASE \E e \in Editors : AfterWrite(e)
  <2>1. PICK e \in Editors : AfterWrite(e)
    BY <1>8
  <2>2. InPreimage'
    BY <2>1 DEF AfterWrite, PreimageHasWork, InPreimage
  <2>. QED
    BY <2>2 DEF Safe, InPreimage
<1>9. CASE \E e \in Editors, c \in Fresh : Replace(e, c)
  <2>1. PICK e \in Editors, c \in Fresh : Replace(e, c)
    BY <1>9
  <2>2. InPreimage'
    BY <2>1 DEF Replace, manifest, PreimageHasWork, InPreimage
  <2>. QED
    BY <2>2 DEF Safe, InPreimage
<1>10. CASE \E c \in Fresh : UserEdits(c)
  <2>1. PICK c \in Fresh : UserEdits(c)
    BY <1>10
  <2>2. Idle /\ UNCHANGED <<manifest, editPc, restoring>> /\ mine' = c /\ file' = c
    BY <2>1, PutFact DEF UserEdits
  <2>3. touched' = file' => InPreimage'
    <3>1. touched \in {Untouched, Pending} \cup 0..contents
      BY DEF RollTypeOK
    <3>2. c = Absent \/ c = contents + 1
      BY <2>1, PutFact DEF UserEdits
    <3>3. c \in 0..MaxContents
      <4>1. c = Absent \/ (c = contents + 1 /\ c <= MaxContents)
        BY DEF Fresh
      <4>2. contents \in Nat /\ MaxContents \in Nat
        BY ContentsAssumption DEF RollTypeOK
      <4>. QED
        BY <4>1, <4>2 DEF Absent
    <3>4. touched = c => c = Absent
      BY <3>1, <3>2, <3>3, Marks, ContentsAssumption DEF Pending, Untouched
    <3>. QED
      BY <2>2, <3>4 DEF manifest, InPreimage
  <2>. QED
    BY <2>2, <2>3 DEF Idle, Safe
<1>. QED
  BY <1>1, <1>2, <1>3, <1>4, <1>5, <1>6, <1>7, <1>8, <1>9, <1>10 DEF Step

\* Every step keeps the invariant.
LEMMA RollStep == RollInv /\ [RollNext]_rollVars => RollInv'
<1>. SUFFICES ASSUME RollInv, [RollNext]_rollVars PROVE RollInv'
  OBVIOUS
<1>1. CASE RollNext
  BY <1>1, NextIsStep, StepTypes, StepManifest, StepOne, StepWork DEF RollInv
<1>2. CASE UNCHANGED rollVars
  BY <1>2 DEF rollVars, manifest, RollInv, RollTypeOK, ManifestAgrees, OneAtWork,
              PreimageHasWork, Safe, InPreimage
<1>. QED
  BY <1>1, <1>2

\* The journal lets one editor at a time past its comparison, and the preimage
\* holds what the user saved whenever the file may be written over.
THEOREM RollInvariant == RollSpec => []RollInv
<1>. QED
  BY RollStart, RollStep, PTL DEF RollSpec

\* What the user saved last is in the file or in the preimage that a restore
\* puts back, for any number of editors and contents, through tasks, restores,
\* failed writes and crashes.
THEOREM UserWorkIsKept == RollSpec => []UserWorkKept
<1>1. RollInv => UserWorkKept
  BY DEF RollInv, PreimageHasWork, UserWorkKept
<1>. QED
  BY RollInvariant, <1>1, PTL

-----------------------------------------------------------------------------
(* The editor's backups *)

\* An element of a sequence over a set is in the set.
LEMMA ElementFact ==
    ASSUME NEW S, NEW s \in Seq(S)
    PROVE  \A i \in DOMAIN s : s[i] \in S
OBVIOUS

\* The copy that was added last survives the pruning.
LEMMA PrunedKeeps ==
    ASSUME NEW s \in Seq(Editions), Len(s) <= MaxCopies, NEW c \in Editions
    PROVE  /\ Pruned(Append(s, c)) \in Seq(Editions)
           /\ Len(Pruned(Append(s, c))) <= MaxCopies
           /\ c \in ToSet(Pruned(Append(s, c)))
<1>. DEFINE t == Append(s, c)
            p == SubSeq(t, Len(t) - MaxCopies + 1, Len(t))
<1>1. /\ t \in Seq(Editions) /\ Len(t) = Len(s) + 1 /\ t[Len(t)] = c
      /\ Len(s) \in Nat /\ MaxCopies \in Nat /\ MaxCopies >= 1
      /\ DOMAIN t = 1..Len(t)
  BY CopiesAssumption
<1>. HIDE DEF t
<1>2. CASE Len(t) > MaxCopies
  <2>1. Len(t) - MaxCopies + 1 \in 1..Len(t)
    BY <1>1, <1>2
  <2>2. \A i \in (Len(t) - MaxCopies + 1)..Len(t) : t[i] \in Editions
    BY <1>1, <2>1, ElementFact
  <2>3. /\ p \in Seq(Editions) /\ Len(p) = MaxCopies
        /\ DOMAIN p = 1..MaxCopies /\ p[MaxCopies] = t[Len(t)]
    <3>1. /\ p \in Seq(Editions) /\ Len(p) = MaxCopies
          /\ \A k \in 1..MaxCopies : p[k] = t[Len(t) - MaxCopies + k]
      BY <1>1, <1>2, <2>2, SubSeqProperties
    <3>. HIDE DEF p
    <3>2. MaxCopies \in 1..MaxCopies /\ Len(t) - MaxCopies + MaxCopies = Len(t)
      BY <1>1
    <3>. QED
      BY <3>1, <3>2
  <2>4. MaxCopies \in DOMAIN p /\ p[MaxCopies] = c
    BY <1>1, <2>3
  <2>5. Pruned(t) = p
    BY <1>2 DEF Pruned
  <2>. HIDE DEF p
  <2>6. Pruned(t) \in Seq(Editions) /\ Len(Pruned(t)) <= MaxCopies /\ c \in ToSet(Pruned(t))
    BY <1>1, <2>3, <2>4, <2>5 DEF ToSet
  <2>. QED
    BY <2>6 DEF t
<1>3. CASE ~(Len(t) > MaxCopies)
  <2>1. Pruned(t) = t
    BY <1>3 DEF Pruned
  <2>2. Len(t) \in DOMAIN t
    BY <1>1
  <2>3. c \in ToSet(t)
    BY <1>1, <2>2 DEF ToSet
  <2>4. Pruned(t) \in Seq(Editions) /\ Len(Pruned(t)) <= MaxCopies /\ c \in ToSet(Pruned(t))
    BY <1>1, <1>3, <2>1, <2>3
  <2>. QED
    BY <2>4 DEF t
<1>. QED
  BY <1>2, <1>3

\* The invariant holds before the first call.
LEMMA EditStart == EditInit => EditInv
<1>. SUFFICES ASSUME EditInit PROVE EditInv
  OBVIOUS
<1>1. /\ 0 \in Editions /\ 1 \in Editions /\ Free \in 0..Free
      /\ <<>> \in Seq(Editions) /\ Len(<<>>) <= MaxCopies
  BY CopiesAssumption DEF Editions, Free
<1>2. EditTypeOK
  BY <1>1 DEF EditInit, EditTypeOK, NoFile
<1>3. CopyComesFirst /\ ReplacedIsKept
  BY DEF EditInit, CopyComesFirst, ReplacedIsKept
<1>. QED
  BY <1>2, <1>3 DEF EditInv

\* Every step keeps the invariant.
LEMMA EditKeeps == EditInv /\ [EditNext]_editVars => EditInv'
<1>. SUFFICES ASSUME EditInv, [EditNext]_editVars PROVE EditInv'
  OBVIOUS
<1>. USE DEF EditInv
<1>1. CASE ReadLines
  BY <1>1 DEF ReadLines, EditTypeOK, CopyComesFirst, ReplacedIsKept
<1>2. CASE ReadDigest
  BY <1>2 DEF ReadDigest, EditTypeOK, CopyComesFirst, ReplacedIsKept
<1>3. CASE Copy
  <2>1. CASE onDisk # NoFile /\ copies' = Pruned(Append(copies, onDisk))
    <3>1. /\ copies' \in Seq(Editions) /\ Len(copies') <= MaxCopies
          /\ onDisk \in ToSet(copies')
      BY <2>1, PrunedKeeps DEF EditTypeOK
    <3>2. EditTypeOK'
      BY <1>3, <3>1 DEF Copy, EditTypeOK
    <3>. QED
      BY <1>3, <2>1, <3>1, <3>2 DEF Copy, CopyComesFirst, ReplacedIsKept, DigestFits
  <2>2. CASE UNCHANGED copies
    <3>1. EditTypeOK'
      BY <1>3, <2>2 DEF Copy, EditTypeOK
    <3>2. /\ editStep = "checked"
          /\ \/ editStep' = "copied" /\ onDisk = NoFile
             \/ editStep' = "idle"
             \/ onDisk \in ToSet(copies')
      BY <1>3, PrunedKeeps DEF Copy, EditTypeOK
    <3>. QED
      BY <1>3, <2>2, <3>1, <3>2 DEF Copy, CopyComesFirst, ReplacedIsKept, DigestFits
  <2>. QED
    BY <1>3, <2>1, <2>2 DEF Copy
<1>4. CASE WriteFile
  <2>1. EditTypeOK'
    BY <1>4, CopiesAssumption DEF WriteFile, EditTypeOK, Editions, NoFile
  <2>2. CASE editStep' = "idle"
    BY <1>4, <2>1, <2>2 DEF WriteFile, CopyComesFirst, ReplacedIsKept
  <2>3. CASE editStep' = "written" /\ replaced' = onDisk
    <3>1. ASSUME ~raced, expected = seenBefore
          PROVE  onDisk = seenBefore
      BY <1>4, <3>1, CopiesAssumption
      DEF WriteFile, EditTypeOK, CopyComesFirst, DigestFits, Free, Editions
    <3>2. ReplacedIsKept'
      BY <1>4, <2>3, <3>1 DEF WriteFile, CopyComesFirst, ReplacedIsKept
    <3>3. CopyComesFirst'
      BY <2>3 DEF CopyComesFirst
    <3>. QED
      BY <2>1, <3>2, <3>3
  <2>. QED
    BY <1>4, <2>2, <2>3 DEF WriteFile
<1>5. CASE Report
  <2>1. editions \in Editions /\ onDisk \in Editions
    BY DEF EditTypeOK
  <2>2. EditTypeOK'
    BY <1>5, <2>1 DEF Report, EditTypeOK
  <2>. QED
    BY <1>5, <2>2 DEF Report, CopyComesFirst, ReplacedIsKept
<1>6. CASE UserSaves
  <2>1. EditTypeOK'
    BY <1>6, CopiesAssumption DEF UserSaves, EditTypeOK, Editions
  <2>2. raced \in BOOLEAN /\ (~raced' => ~raced /\ editStep' = "idle")
    BY <1>6 DEF UserSaves, EditTypeOK
  <2>. QED
    BY <2>1, <2>2 DEF CopyComesFirst, ReplacedIsKept
<1>7. ASSUME NEW what \in {"write", "edit", "delete"}, NEW digest \in {given, Free} \ {NoFile},
             BeginEdit(what, digest)
      PROVE  EditInv'
  <2>1. digest \in 0..Free
    BY CopiesAssumption DEF EditTypeOK, Editions, Free
  <2>2. EditTypeOK'
    BY <1>7, <2>1 DEF BeginEdit, RefuseEdit, EditTypeOK
  <2>3. \/ editStep' = "idle"
        \/ editStep' = "checked" /\ DigestFits(digest)
    BY <1>7 DEF BeginEdit, RefuseEdit
  <2>4. expected' = digest /\ onDisk' = onDisk
    BY <1>7 DEF BeginEdit
  <2>. QED
    BY <2>2, <2>3, <2>4 DEF CopyComesFirst, ReplacedIsKept, DigestFits
<1>8. CASE UNCHANGED editVars
  BY <1>8 DEF editVars, EditTypeOK, CopyComesFirst, ReplacedIsKept, DigestFits
<1>. QED
  BY <1>1, <1>2, <1>3, <1>4, <1>5, <1>6, <1>7, <1>8 DEF EditNext

\* The editor's invariant, for any number of contents and of backups kept.
THEOREM EditInvariant == EditSpec => []EditInv
BY EditStart, EditKeeps, PTL DEF EditSpec

\* What a write replaces is in the backups, and with a digest it is what the model
\* has seen, but for a user who edits between two looks of the call (editor.py).
THEOREM ReplacedIsInBackups == EditSpec => []ReplacedIsKept
<1>1. EditInv => ReplacedIsKept
  BY DEF EditInv
<1>. QED
  BY <1>1, EditInvariant, PTL

-----------------------------------------------------------------------------
(* Files that processes share *)

\* A line more leaves the others in the file.
LEMMA AppendFact ==
    ASSUME NEW S, NEW s \in Seq(S), NEW e \in S
    PROVE  /\ Append(s, e) \in Seq(S)
           /\ ToSet(s) \subseteq ToSet(Append(s, e)) /\ e \in ToSet(Append(s, e))
<1>1. /\ Append(s, e) \in Seq(S) /\ Len(s) \in Nat /\ DOMAIN s = 1..Len(s)
      /\ DOMAIN Append(s, e) = 1..(Len(s) + 1)
      /\ \A i \in 1..Len(s) : Append(s, e)[i] = s[i]
      /\ Append(s, e)[Len(s) + 1] = e
  OBVIOUS
<1>2. ASSUME NEW x \in ToSet(s) PROVE x \in ToSet(Append(s, e))
  <2>1. PICK i \in DOMAIN s : s[i] = x
    BY <1>2 DEF ToSet
  <2>2. i \in DOMAIN Append(s, e) /\ Append(s, e)[i] = x
    BY <1>1, <2>1
  <2>. QED
    BY <2>2 DEF ToSet
<1>3. Len(s) + 1 \in DOMAIN Append(s, e)
  BY <1>1
<1>. QED
  BY <1>1, <1>2, <1>3 DEF ToSet

\* Two sequences in a row.
LEMMA JoinFact ==
    ASSUME NEW S, NEW s \in Seq(S), NEW t \in Seq(S)
    PROVE  s \o t \in Seq(S) /\ Len(s \o t) = Len(s) + Len(t)
OBVIOUS

\* Who strikes out one line leaves every other.
LEMMA StrikeFact ==
    ASSUME NEW S, NEW s \in Seq(S), NEW i \in DOMAIN s
    PROVE  /\ RemoveAt(s, i) \in Seq(S)
           /\ ToSet(RemoveAt(s, i)) \subseteq ToSet(s)
           /\ ToSet(s) \subseteq ToSet(RemoveAt(s, i)) \cup {s[i]}
<1>. DEFINE a == SubSeq(s, 1, i - 1)
            b == SubSeq(s, i + 1, Len(s))
            r == RemoveAt(s, i)
<1>1. Len(s) \in Nat /\ DOMAIN s = 1..Len(s) /\ i \in 1..Len(s)
  OBVIOUS
<1>2. \A k \in 1..Len(s) : s[k] \in S
  BY <1>1, ElementFact
<1>3. /\ a \in Seq(S) /\ Len(a) = i - 1 /\ DOMAIN a = 1..(i - 1)
      /\ \A k \in 1..(i - 1) : a[k] = s[k]
  BY <1>1, <1>2
<1>4. /\ b \in Seq(S) /\ Len(b) = Len(s) - i /\ DOMAIN b = 1..(Len(s) - i)
      /\ \A k \in 1..(Len(s) - i) : b[k] = s[i + k]
  BY <1>1, <1>2, SMTT(20)
<1>5. r = a \o b
  BY DEF RemoveAt
<1>. HIDE DEF a, b
<1>6. /\ r \in Seq(S) /\ DOMAIN r = 1..(Len(s) - 1)
      /\ \A k \in 1..(i - 1) : r[k] = s[k]
      /\ \A k \in i..(Len(s) - 1) : r[k] = s[k + 1]
  <2>1. Len(r) = Len(s) - 1 /\ r \in Seq(S)
    <3>1. a \o b \in Seq(S) /\ Len(a \o b) = Len(a) + Len(b)
      BY <1>3, <1>4, JoinFact
    <3>2. Len(a) + Len(b) = Len(s) - 1
      BY <1>1, <1>3, <1>4
    <3>. QED
      BY <1>5, <3>1, <3>2
  <2>2. ASSUME NEW k \in 1..(i - 1) PROVE r[k] = s[k]
    <3>1. k \in 1..Len(a) /\ a[k] = s[k]
      BY <1>3
    <3>2. (a \o b)[k] = a[k]
      BY <1>3, <1>4, <3>1
    <3>. QED
      BY <1>5, <3>1, <3>2
  <2>3. ASSUME NEW k \in i..(Len(s) - 1) PROVE r[k] = s[k + 1]
    <3>0. k \in Nat /\ i \in Nat /\ k - (i - 1) \in 1..(Len(s) - i)
      BY <1>1
    <3>1. r[k] = b[k - (i - 1)]
      <4>1. k \in (Len(a) + 1)..(Len(a) + Len(b))
        BY <1>1, <1>3, <1>4, <3>0
      <4>2. (a \o b)[k] = b[k - Len(a)]
        BY <1>3, <1>4, <4>1, SMTT(20)
      <4>. QED
        BY <1>3, <1>5, <4>2
    <3>2. b[k - (i - 1)] = s[i + (k - (i - 1))] /\ i + (k - (i - 1)) = k + 1
      BY <1>1, <1>4, <3>0
    <3>. QED
      BY <3>1, <3>2
  <2>4. DOMAIN r = 1..Len(r)
    BY <2>1
  <2>. QED
    BY <2>1, <2>2, <2>3, <2>4
<1>. HIDE DEF r
<1>7. ASSUME NEW x \in ToSet(s), x # s[i] PROVE x \in ToSet(r)
  <2>1. PICK k \in 1..Len(s) : s[k] = x
    BY <1>1 DEF ToSet
  <2>2. CASE k < i
    BY <1>1, <1>6, <2>1, <2>2, SMTT(20) DEF ToSet
  <2>3. CASE k > i
    <3>1. k - 1 \in DOMAIN r /\ r[k - 1] = x
      BY <1>1, <1>6, <2>1, <2>3
    <3>. QED
      BY <3>1 DEF ToSet
  <2>. QED
    BY <1>1, <1>7, <2>1, <2>2, <2>3
<1>8. ASSUME NEW x \in ToSet(r) PROVE x \in ToSet(s)
  <2>1. PICK k \in 1..(Len(s) - 1) : r[k] = x
    BY <1>6 DEF ToSet
  <2>2. CASE k < i
    <3>1. k \in DOMAIN s /\ s[k] = x
      BY <1>1, <1>6, <2>1, <2>2
    <3>. QED
      BY <3>1 DEF ToSet
  <2>3. CASE k >= i
    <3>1. k + 1 \in DOMAIN s /\ s[k + 1] = x
      BY <1>1, <1>6, <2>1, <2>3
    <3>. QED
      BY <3>1 DEF ToSet
  <2>. QED
    BY <1>1, <2>2, <2>3
<1>. QED
  BY <1>6, <1>7, <1>8 DEF r

\* The invariant holds before the first addition.
LEMMA FilesStart == FilesInit => FilesInv
<1>. SUFFICES ASSUME FilesInit PROVE FilesInv
  OBVIOUS
<1>1. FilesFacts
  BY DEF FilesInit, FilesFacts
<1>2. ByteIsHeld /\ SwapIsSafe
  BY DEF FilesInit, ByteIsHeld, SwapIsSafe
<1>3. EntriesKept
  BY DEF FilesInit, EntriesKept
<1>. QED
  BY <1>1, <1>2, <1>3 DEF FilesInv

\* Whoever only moves on, without a swap ahead, leaves the files as they are.
LEMMA MoveKeeps ==
    ASSUME FilesInv, NEW p \in Processes, NEW to \in {"idle", "waiting", "reading", "leaving"},
           Goes(p, to), UNCHANGED <<sharing, shared, recent, struck>>,
           FilesFacts', confirmed' = confirmed, loose => loose',
           \A q \in Processes \ {p} : entry'[q] = entry[q] /\ copy'[q] = copy[q],
           \A q \in Processes \ {p} : byteHolder = q => byteHolder' = q,
           to = "reading" /\ (sharing = "catalog" => ~loose') => byteHolder' = p
    PROVE  FilesInv'
<1>1. /\ sharePc'[p] = to
      /\ \A q \in Processes \ {p} : sharePc'[q] = sharePc[q]
  BY DEF Goes, FilesInv, FilesFacts
<1>2. ByteIsHeld'
  BY <1>1 DEF FilesInv, ByteIsHeld
<1>3. SwapIsSafe'
  BY <1>1 DEF FilesInv, SwapIsSafe
<1>4. EntriesKept'
  BY DEF FilesInv, EntriesKept
<1>. QED
  BY <1>2, <1>3, <1>4 DEF FilesInv

\* Every step keeps the invariant.
LEMMA FilesKeep == FilesInv /\ [FilesNext]_filesVars => FilesInv'
<1>. SUFFICES ASSUME FilesInv, [FilesNext]_filesVars PROVE FilesInv'
  OBVIOUS
<1>. USE SharingAssumption
<1>1. ASSUME NEW p \in Processes, Write(p) \/ RememberFolder(p) PROVE FilesInv'
  <2>1. PICK e : BeginAddition(p, e) /\ (sharing = "memory" => e = additions + 1)
    BY <1>1 DEF Write, RememberFolder
  <2>2. FilesFacts'
    BY <2>1 DEF FilesInv, FilesFacts, BeginAddition, Goes
  <2>3. \A q \in Processes \ {p} : entry'[q] = entry[q] /\ copy'[q] = copy[q]
    BY <2>1 DEF FilesInv, FilesFacts, BeginAddition
  <2>. QED
    BY <2>1, <2>2, <2>3, MoveKeeps DEF BeginAddition
<1>2. ASSUME NEW p \in Processes, TakeByte(p) \/ RefuseWrite(p) \/ WriteAnyway(p)
      PROVE  FilesInv'
  <2>1. FilesFacts'
    BY <1>2 DEF FilesInv, FilesFacts, TakeByte, RefuseWrite, WriteAnyway, Goes
  <2>2. /\ UNCHANGED <<sharing, shared, recent, struck, confirmed, entry, copy>>
        /\ loose => loose'
        /\ \A q \in Processes : byteHolder = q => byteHolder' = q
    BY <1>2 DEF TakeByte, RefuseWrite, WriteAnyway
  <2>3. CASE TakeByte(p)
    BY <2>1, <2>2, <2>3, MoveKeeps DEF TakeByte
  <2>4. CASE RefuseWrite(p)
    BY <2>1, <2>2, <2>4, MoveKeeps DEF RefuseWrite
  <2>5. CASE WriteAnyway(p)
    BY <2>1, <2>2, <2>5, MoveKeeps DEF WriteAnyway
  <2>. QED
    BY <1>2, <2>3, <2>4, <2>5
<1>3. ASSUME NEW p \in Processes, Read(p) PROVE FilesInv'
  <2>1. FilesFacts'
    BY <1>3 DEF FilesInv, FilesFacts, Read, Goes
  <2>2. /\ sharePc[p] = "reading" /\ sharePc'[p] = "staged" /\ copy'[p] = shared
        /\ \A q \in Processes \ {p} : sharePc'[q] = sharePc[q] /\ copy'[q] = copy[q]
        /\ UNCHANGED <<sharing, shared, byteHolder, entry, confirmed, struck, recent, loose>>
    BY <1>3 DEF FilesInv, FilesFacts, Read, Goes
  <2>3. ByteIsHeld' /\ SwapIsSafe' /\ EntriesKept'
    BY <2>2 DEF FilesInv, ByteIsHeld, SwapIsSafe, EntriesKept
  <2>. QED
    BY <2>1, <2>3 DEF FilesInv
<1>4. ASSUME NEW p \in Processes, Unreadable(p) PROVE FilesInv'
  <2>1. FilesFacts'
    BY <1>4 DEF FilesInv, FilesFacts, Unreadable, Goes
  <2>2. CASE sharing = "memory"
    BY <1>4, <2>1, <2>2, MoveKeeps DEF Unreadable
  <2>3. CASE sharing = "catalog" /\ Goes(p, "staged") /\ loose' = TRUE
    <3>1. UNCHANGED <<sharing, confirmed, shared, struck>>
      BY <1>4 DEF Unreadable
    <3>2. ByteIsHeld' /\ SwapIsSafe' /\ EntriesKept'
      BY <2>3, <3>1 DEF FilesInv, ByteIsHeld, SwapIsSafe, EntriesKept
    <3>. QED
      BY <2>1, <3>2 DEF FilesInv
  <2>. QED
    BY <1>4, <2>2, <2>3 DEF Unreadable
<1>5. ASSUME NEW p \in Processes, Swap(p) PROVE FilesInv'
  <2>1. /\ sharePc[p] = "staged" /\ sharePc'[p] \in {"swapped", "leaving"}
        /\ \A q \in Processes \ {p} : sharePc'[q] = sharePc[q] /\ copy'[q] = copy[q]
        /\ UNCHANGED <<sharing, byteHolder, entry, additions, confirmed, struck, loose>>
    BY <1>5 DEF FilesInv, FilesFacts, Swap, Goes
  <2>2. CASE sharePc'[p] = "leaving"
    <3>1. UNCHANGED <<shared, recent>>
      BY <1>5, <2>2 DEF Swap, Goes, FilesInv, FilesFacts
    <3>2. FilesFacts'
      BY <1>5, <2>1, <3>1 DEF FilesInv, FilesFacts, Swap, Goes
    <3>3. ByteIsHeld' /\ SwapIsSafe' /\ EntriesKept'
      BY <2>1, <2>2, <3>1 DEF FilesInv, ByteIsHeld, SwapIsSafe, EntriesKept
    <3>. QED
      BY <3>2, <3>3 DEF FilesInv
  <2>3. CASE sharePc'[p] = "swapped"
    <3>1. shared' = Added(copy[p], entry[p]) /\ recent' = Added(recent, entry[p])
      BY <1>5, <2>3 DEF Swap, Goes, FilesInv, FilesFacts
    <3>2. ByteIsHeld'
      BY <2>1, <2>3 DEF FilesInv, ByteIsHeld
    <3>3. ASSUME NEW q \in Processes \ {p}, sharePc[q] \in {"staged", "swapped"}
          PROVE  sharing = "catalog" /\ loose
      BY <2>1, <3>3 DEF FilesInv, ByteIsHeld, FilesFacts
    <3>4. CASE sharing = "memory"
      <4>1. shared' = Append(copy[p], entry[p])
        BY <3>1, <3>4 DEF Added, WithLine
      <4>2. copy[p] \in Seq(Nat) /\ entry[p] \in Nat
        BY <3>4 DEF FilesInv, FilesFacts
      <4>3. /\ shared' \in Seq(Nat) /\ ToSet(copy[p]) \subseteq ToSet(shared')
            /\ entry[p] \in ToSet(shared')
        BY <4>1, <4>2, AppendFact
      <4>4. ToSet(shared) \subseteq ToSet(shared')
        BY <2>1, <3>4, <4>3 DEF FilesInv, SwapIsSafe
      <4>5. FilesFacts'
        <5>1. <<>> \in Seq(Nat)
          OBVIOUS
        <5>. QED
          BY <1>5, <2>1, <4>3, <5>1 DEF FilesInv, FilesFacts, Swap, Goes
      <4>6. SwapIsSafe'
        BY <2>1, <2>3, <3>3, <3>4, <4>3 DEF SwapIsSafe
      <4>7. EntriesKept'
        BY <2>1, <3>4, <4>4 DEF FilesInv, EntriesKept
      <4>. QED
        BY <3>2, <4>5, <4>6, <4>7 DEF FilesInv
    <3>5. CASE sharing # "memory"
      <4>1. FilesFacts'
        BY <1>5, <2>1, <3>5 DEF FilesInv, FilesFacts, Swap, Goes
      <4>2. SwapIsSafe'
        BY <2>1, <2>3, <3>3, <3>5 DEF SwapIsSafe, FilesInv, FilesFacts
      <4>3. ASSUME ~loose PROVE shared' = recent'
        <5>1. sharing = "catalog" /\ copy[p] = shared /\ shared = recent
          BY <2>1, <3>5, <4>3 DEF FilesInv, FilesFacts, SwapIsSafe, EntriesKept
        <5>. QED
          BY <3>1, <5>1
      <4>4. EntriesKept'
        BY <2>1, <3>5, <4>3 DEF FilesInv, FilesFacts, EntriesKept
      <4>. QED
        BY <3>2, <4>1, <4>2, <4>4 DEF FilesInv
    <3>. QED
      BY <3>4, <3>5
  <2>. QED
    BY <2>1, <2>2, <2>3
<1>6. ASSUME NEW p \in Processes, Leave(p) PROVE FilesInv'
  <2>1. FilesFacts'
    BY <1>6 DEF FilesInv, FilesFacts, Leave, Goes
  <2>2. /\ sharePc'[p] = "idle" /\ sharePc[p] \in {"swapped", "leaving"}
        /\ \A q \in Processes \ {p} :
             /\ sharePc'[q] = sharePc[q] /\ copy'[q] = copy[q] /\ entry'[q] = entry[q]
             /\ byteHolder = q => byteHolder' = q
        /\ UNCHANGED <<sharing, shared, struck, recent, loose>>
    BY <1>6 DEF FilesInv, FilesFacts, Leave, Goes
  <2>3. ByteIsHeld' /\ SwapIsSafe'
    BY <2>2 DEF FilesInv, ByteIsHeld, SwapIsSafe
  <2>4. confirmed' \subseteq ToSet(shared) \cup struck
    <3>1. confirmed \subseteq ToSet(shared) \cup struck
      BY DEF FilesInv, EntriesKept
    <3>2. CASE sharing = "memory" /\ sharePc[p] = "swapped"
      <4>1. entry[p] \in ToSet(shared) \cup struck
        BY <3>2 DEF FilesInv, SwapIsSafe
      <4>2. confirmed' = confirmed \cup {entry[p]}
        BY <1>6, <3>2 DEF Leave
      <4>. QED
        BY <3>1, <4>1, <4>2
    <3>3. CASE ~(sharing = "memory" /\ sharePc[p] = "swapped")
      BY <1>6, <3>1, <3>3 DEF Leave
    <3>. QED
      BY <3>2, <3>3
  <2>5. EntriesKept'
    BY <2>2, <2>4 DEF FilesInv, EntriesKept
  <2>. QED
    BY <2>1, <2>3, <2>5 DEF FilesInv
<1>7. ASSUME NEW p \in Processes, Dies(p) PROVE FilesInv'
  <2>1. <<>> \in Seq(Nat) /\ 0 \in Nat
    OBVIOUS
  <2>2. FilesFacts'
    BY <1>7, <2>1 DEF FilesInv, FilesFacts, Dies, Goes
  <2>3. /\ UNCHANGED <<sharing, shared, struck, recent, confirmed, loose>>
        /\ \A q \in Processes \ {p} : /\ entry'[q] = entry[q] /\ copy'[q] = copy[q]
                                      /\ byteHolder = q => byteHolder' = q
    BY <1>7 DEF FilesInv, FilesFacts, Dies
  <2>. QED
    BY <1>7, <2>2, <2>3, MoveKeeps DEF Dies
<1>8. ASSUME NEW line \in 1..MaxWrites, Strike(line) PROVE FilesInv'
  <2>1. /\ sharing = "memory" /\ line \in DOMAIN shared /\ shared \in Seq(Nat)
        /\ shared' = RemoveAt(shared, line) /\ struck' = struck \cup {shared[line]}
        /\ UNCHANGED <<sharing, supported, byteHolder, sharePc, entry, copy, additions,
                       confirmed, recent, loose>>
    BY <1>8 DEF Strike, FilesInv, FilesFacts
  <2>2. /\ shared' \in Seq(Nat) /\ ToSet(shared') \subseteq ToSet(shared)
        /\ ToSet(shared) \subseteq ToSet(shared') \cup {shared[line]}
    BY <2>1, StrikeFact
  <2>3. FilesFacts'
    BY <2>1, <2>2 DEF FilesInv, FilesFacts
  <2>4. ToSet(shared) \cup struck \subseteq ToSet(shared') \cup struck'
    BY <2>1, <2>2
  <2>5. ByteIsHeld' /\ SwapIsSafe'
    <3>1. \A p \in Processes : sharePc[p] = "staged" => ToSet(shared') \subseteq ToSet(copy[p])
      BY <2>1, <2>2 DEF FilesInv, SwapIsSafe
    <3>2. \A p \in Processes : sharePc[p] = "swapped" => entry[p] \in ToSet(shared') \cup struck'
      BY <2>1, <2>4 DEF FilesInv, SwapIsSafe
    <3>. QED
      BY <2>1, <3>1, <3>2 DEF FilesInv, ByteIsHeld, SwapIsSafe
  <2>6. EntriesKept'
    BY <2>1, <2>4 DEF FilesInv, EntriesKept
  <2>. QED
    BY <2>3, <2>5, <2>6 DEF FilesInv
<1>9. CASE UNCHANGED filesVars
  BY <1>9 DEF filesVars, FilesInv, FilesFacts, ByteIsHeld, SwapIsSafe, EntriesKept
<1>. QED
  BY <1>1, <1>2, <1>3, <1>4, <1>5, <1>6, <1>7, <1>8, <1>9 DEF FilesNext

\* The invariant of the shared files, for any processes and any number of additions.
THEOREM FilesInvariant == FilesSpec => []FilesInv
BY FilesStart, FilesKeep, PTL DEF FilesSpec

\* A memory that was reported as stored stays until the user deletes it, and the
\* catalog loses no folder but by a write without the byte (sidecar_lock.py).
THEOREM EntriesAreKept == FilesSpec => []EntriesKept
<1>1. FilesInv => EntriesKept
  BY DEF FilesInv
<1>. QED
  BY <1>1, FilesInvariant, PTL

-----------------------------------------------------------------------------
(* Numbers and sequences *)

\* What holds of 0 and goes on from each number to the next holds up to n.
LEMMA Climb ==
    ASSUME NEW n \in Nat, NEW S, 0 \in S, \A i \in 0..n - 1 : i \in S => i + 1 \in S
    PROVE  \A i \in 0..n : i \in S
<1>. DEFINE Below(m) == 0..m
            bad == {m \in 0..n : m \notin S}
            F == {Below(m) : m \in bad}
<1>. SUFFICES ASSUME bad # {} PROVE FALSE
  OBVIOUS
<1>1. F \subseteq FiniteSubsetsOf(Nat)
  <2>1. \A m \in bad : Below(m) \in SUBSET Nat /\ IsFiniteSet(Below(m))
    BY FS_Interval
  <2>. QED
    BY <2>1 DEF FiniteSubsetsOf
<1>2. PICK D \in F : \A C \in F : ~ (<<C, D>> \in StrictSubsetOrdering(Nat))
  <2>1. F # {}
    OBVIOUS
  <2>. QED
    BY <1>1, <2>1, FS_StrictSubsetOrderingWellFounded, WFMin
<1>3. PICK m \in bad : D = Below(m)
  OBVIOUS
<1>4. m - 1 \in bad /\ m \in 1..n
  <2>1. m # 0 /\ m \in 0..n /\ m \notin S
    OBVIOUS
  <2>2. m - 1 \in 0..n - 1 /\ (m - 1) + 1 = m
    BY <2>1
  <2>. QED
    BY <2>1, <2>2
<1>5. Below(m - 1) \in F /\ Below(m - 1) \subseteq Below(m) /\ m \in Below(m) /\ m \notin Below(m - 1)
  BY <1>4
<1>6. <<Below(m - 1), Below(m)>> \in StrictSubsetOrdering(Nat)
  BY <1>4, <1>5 DEF StrictSubsetOrdering
<1>. QED
  BY <1>2, <1>3, <1>5, <1>6

\* What FlattenSeq comes to, step by step.
LEMMA FlattenSteps ==
    ASSUME NEW M, NEW q \in Seq(Seq(M))
    PROVE  \E F \in [0..Len(q) -> Seq(M)] :
             /\ F[0] = <<>> /\ F[Len(q)] = FlattenSeq(q)
             /\ \A i \in 1..Len(q) : F[i] = F[i - 1] \o q[i]
<1>. DEFINE n == Len(q)
            Is(g, m) == g = [i \in 1..m |-> IF i = 1 THEN q[i] ELSE g[i - 1] \o q[i]]
            S == {m \in 0..n : \E g : Is(g, m)}
<1>0. n \in Nat /\ \A i \in 1..n : q[i] \in Seq(M)
  OBVIOUS
<1>1. 0 \in S
  <2>. DEFINE e == [i \in {} |-> 0]
  <2>1. Is(e, 0)
    OBVIOUS
  <2>2. 0 \in 0..n
    BY <1>0
  <2>. HIDE DEF Is, n
  <2>. QED
    BY <2>1, <2>2, Zenon
<1>2. ASSUME NEW m \in 0..n - 1, m \in S PROVE m + 1 \in S
  <2>1. PICK g : Is(g, m)
    BY <1>2
  <2>. DEFINE h == [i \in 1..m + 1 |-> IF i <= m THEN g[i]
                                      ELSE IF i = 1 THEN q[i] ELSE g[m] \o q[i]]
  <2>2. \A i \in 1..m + 1 : h[i] = IF i = 1 THEN q[i] ELSE h[i - 1] \o q[i]
    <3>. SUFFICES ASSUME NEW i \in 1..m + 1
                  PROVE  h[i] = IF i = 1 THEN q[i] ELSE h[i - 1] \o q[i]
      OBVIOUS
    <3>1. CASE i <= m
      <4>1. i \in 1..m /\ h[i] = g[i] /\ (i # 1 => i - 1 \in 1..m + 1 /\ i - 1 <= m)
        BY <1>0, <3>1
      <4>2. g[i] = IF i = 1 THEN q[i] ELSE g[i - 1] \o q[i]
        BY <2>1, <4>1, Zenon
      <4>. QED
        BY <4>1, <4>2
    <3>2. CASE i = m + 1
      <4>1. ~(i <= m) /\ (i # 1 => i - 1 = m /\ m \in 1..m + 1 /\ h[m] = g[m])
        BY <1>0, <3>2
      <4>. QED
        BY <4>1
    <3>. QED
      BY <1>0, <3>1, <3>2
  <2>. HIDE DEF h
  <2>3. h = [i \in 1..m + 1 |-> h[i]]
    BY DEF h
  <2>4. Is(h, m + 1)
    BY <2>2, <2>3, Zenon
  <2>5. m + 1 \in 0..n
    BY <1>0
  <2>. HIDE DEF Is, n
  <2>. QED
    BY <2>4, <2>5, Zenon
<1>3. n \in S
  <2>. HIDE DEF S, n
  <2>1. \A i \in 0..n : i \in S
    BY <1>0, <1>1, <1>2, Climb
  <2>. QED
    BY <1>0, <2>1
<1>. DEFINE f == CHOOSE g : Is(g, n)
<1>4. Is(f, n)
  BY <1>3
<1>5. n # 0 => FlattenSeq(q) = f[n]
  BY <1>0 DEF FlattenSeq
<1>. DEFINE F == [i \in 0..n |-> IF i = 0 THEN <<>> ELSE f[i]]
<1>. HIDE DEF f
<1>6. ASSUME NEW i \in 1..n PROVE f[i] = IF i = 1 THEN q[i] ELSE f[i - 1] \o q[i]
  BY <1>4, Zenon
<1>7. \A i \in 1..n : F[i] = F[i - 1] \o q[i]
  <2>. SUFFICES ASSUME NEW i \in 1..n PROVE F[i] = F[i - 1] \o q[i]
    OBVIOUS
  <2>1. i \in 0..n /\ i - 1 \in 0..n /\ i # 0 /\ q[i] \in Seq(M)
    BY <1>0
  <2>2. CASE i = 1
    BY <1>6, <2>1, <2>2, ConcatEmptySeq
  <2>3. CASE i # 1
    <3>1. i - 1 # 0 /\ F[i] = f[i] /\ F[i - 1] = f[i - 1]
      BY <2>1, <2>3
    <3>. QED
      BY <1>6, <2>3, <3>1
  <2>. QED
    BY <2>2, <2>3
<1>8. F[0] = <<>> /\ F[n] = FlattenSeq(q)
  <2>1. CASE n = 0
    BY <2>1 DEF FlattenSeq
  <2>2. CASE n # 0
    BY <1>0, <1>5, <2>2
  <2>. QED
    BY <2>1, <2>2
<1>9. \A i \in 0..n : F[i] \in Seq(M)
  <2>. DEFINE T == {i \in 0..n : F[i] \in Seq(M)}
  <2>1. 0 \in T
    BY <1>0
  <2>2. ASSUME NEW i \in 0..n - 1, i \in T PROVE i + 1 \in T
    <3>1. i + 1 \in 1..n /\ (i + 1) - 1 = i /\ i + 1 \in 0..n
      BY <1>0
    <3>2. F[i + 1] = F[i] \o q[i + 1] /\ q[i + 1] \in Seq(M) /\ F[i] \in Seq(M)
      BY <1>0, <1>7, <2>2, <3>1
    <3>. HIDE DEF F, n
    <3>3. F[i + 1] \in Seq(M)
      BY <3>2, ConcatProperties
    <3>. QED
      BY <3>1, <3>3
  <2>. HIDE DEF T
  <2>3. \A i \in 0..n : i \in T
    BY <1>0, <2>1, <2>2, Climb
  <2>. QED
    BY <2>3 DEF T
<1>10. F \in [0..n -> Seq(M)]
  BY <1>9
<1>. QED
  BY <1>7, <1>8, <1>10

-----------------------------------------------------------------------------
(* The types of the shared files *)

\* A catalog with a folder in front is a catalog.
LEMMA FolderFact ==
    ASSUME NEW list \in Seq(Entries), NEW e \in Entries
    PROVE  WithFolder(list, e) \in Seq(Entries)
<1>. DEFINE q == [k \in DOMAIN list |-> IF list[k] = e THEN <<>> ELSE <<list[k]>>]
            all == <<e>> \o FlattenSeq(q)
<1>1. Len(list) \in Nat /\ DOMAIN list = 1..Len(list) /\ \A k \in DOMAIN list : list[k] \in Entries
  BY ElementFact
<1>2. q \in Seq(Seq(Entries))
  <2>1. \A k \in 1..Len(list) : <<>> \in Seq(Entries) /\ <<list[k]>> \in Seq(Entries)
    BY <1>1
  <2>2. q \in [1..Len(list) -> Seq(Entries)]
    BY <1>1, <2>1
  <2>. QED
    BY <1>1, <2>2
<1>3. WithFolder(list, e) = IF Len(all) > MaxItems THEN SubSeq(all, 1, MaxItems) ELSE all
  BY DEF WithFolder
<1>. HIDE DEF q
<1>4. FlattenSeq(q) \in Seq(Entries)
  <2>1. PICK F \in [0..Len(q) -> Seq(Entries)] : F[Len(q)] = FlattenSeq(q)
    BY <1>2, FlattenSteps
  <2>. QED
    BY <1>2, <2>1, SMTT(20)
<1>5. all \in Seq(Entries) /\ Len(all) \in Nat
  BY <1>4
<1>. HIDE DEF all
<1>6. ASSUME Len(all) > MaxItems PROVE SubSeq(all, 1, MaxItems) \in Seq(Entries)
  <2>1. MaxItems \in Nat /\ \A i \in 1..MaxItems : all[i] \in Entries
    BY <1>5, <1>6, ElementFact, SharingAssumption
  <2>. QED
    BY <1>5, <1>6, <2>1, SubSeqProperties
<1>. QED
  BY <1>3, <1>5, <1>6

\* What an addition makes of a file is a file.
LEMMA AddedFact ==
    ASSUME NEW list \in Seq(Entries), NEW e \in Entries
    PROVE  Added(list, e) \in Seq(Entries)
BY FolderFact, AppendFact DEF Added, WithLine

\* The types, one by one.
FilesTypes ==
    /\ sharing \in {"memory", "catalog"} /\ supported \in BOOLEAN /\ loose \in BOOLEAN
    /\ shared \in Seq(Entries) /\ recent \in Seq(Entries)
    /\ confirmed \subseteq Entries /\ struck \subseteq Entries
    /\ byteHolder \in Processes \cup {NoHolder}
    /\ sharePc \in [Processes -> {"idle", "waiting", "reading", "staged", "swapped",
                                  "leaving"}]
    /\ entry \in [Processes -> Entries] /\ copy \in [Processes -> Seq(Entries)]
    /\ additions \in 0..MaxWrites

LEMMA TypesFact == FilesTypes <=> FilesTypeOK
BY DEF FilesTypes, FilesTypeOK

LEMMA EntriesFact == 0 \in Entries /\ <<>> \in Seq(Entries) /\ 1..MaxWrites \subseteq Entries
BY SharingAssumption DEF Entries

LEMMA FilesTypesStart == FilesInit => FilesTypes
<1>. SUFFICES ASSUME FilesInit PROVE FilesTypes
  OBVIOUS
<1>1. sharing \in {"memory", "catalog"} /\ supported \in BOOLEAN /\ loose \in BOOLEAN
  BY DEF FilesInit
<1>2. additions \in 0..MaxWrites
  BY SharingAssumption DEF FilesInit
<1>. QED
  BY <1>1, <1>2, EntriesFact DEF FilesInit, FilesTypes

\* Each step of a process, or of the user, leaves the types as they are.
LEMMA FilesTypesKeep == FilesTypes /\ [FilesNext]_filesVars => FilesTypes'
<1>. SUFFICES ASSUME FilesTypes, [FilesNext]_filesVars PROVE FilesTypes'
  OBVIOUS
<1>0. MaxItems \in Nat \ {0} /\ MaxWrites \in Nat
  BY SharingAssumption
<1>1. ASSUME NEW p \in Processes, Write(p) \/ RememberFolder(p) PROVE FilesTypes'
  <2>1. PICK e : BeginAddition(p, e) /\ (e = additions + 1 \/ e \in 1..(MaxItems + 1))
    BY <1>1 DEF Write, RememberFolder
  <2>2. additions < MaxWrites /\ additions \in 0..MaxWrites
    BY <2>1 DEF BeginAddition, FilesTypes
  <2>3. e \in Entries /\ additions + 1 \in 0..MaxWrites
    BY <1>0, <2>1, <2>2 DEF Entries
  <2>. QED
    BY <2>1, <2>3 DEF BeginAddition, Goes, FilesTypes
<1>2. ASSUME NEW p \in Processes, TakeByte(p) PROVE FilesTypes'
  BY <1>2 DEF TakeByte, Goes, FilesTypes
<1>3. ASSUME NEW p \in Processes, RefuseWrite(p) \/ WriteAnyway(p) PROVE FilesTypes'
  BY <1>3 DEF RefuseWrite, WriteAnyway, Goes, FilesTypes
<1>4. ASSUME NEW p \in Processes, Read(p) PROVE FilesTypes'
  BY <1>4 DEF Read, Goes, FilesTypes
<1>5. ASSUME NEW p \in Processes, Unreadable(p) PROVE FilesTypes'
  BY <1>5 DEF Unreadable, Goes, FilesTypes
<1>6. ASSUME NEW p \in Processes, Swap(p) PROVE FilesTypes'
  <2>1. copy[p] \in Seq(Entries) /\ entry[p] \in Entries /\ recent \in Seq(Entries)
    BY DEF FilesTypes
  <2>2. Added(copy[p], entry[p]) \in Seq(Entries) /\ Added(recent, entry[p]) \in Seq(Entries)
    BY <2>1, AddedFact
  <2>3. shared' \in Seq(Entries) /\ recent' \in Seq(Entries)
    BY <1>6, <2>2 DEF Swap, FilesTypes
  <2>4. copy' \in [Processes -> Seq(Entries)]
    BY <1>6, EntriesFact DEF Swap, FilesTypes
  <2>5. sharePc' \in [Processes -> {"idle", "waiting", "reading", "staged", "swapped",
                                    "leaving"}]
    BY <1>6 DEF Swap, Goes, FilesTypes
  <2>. QED
    BY <1>6, <2>3, <2>4, <2>5 DEF Swap, FilesTypes
<1>7. ASSUME NEW p \in Processes, Leave(p) PROVE FilesTypes'
  <2>1. confirmed' \subseteq Entries
    BY <1>7 DEF Leave, FilesTypes
  <2>. QED
    BY <1>7, <2>1, EntriesFact DEF Leave, Goes, FilesTypes
<1>8. ASSUME NEW p \in Processes, Dies(p) PROVE FilesTypes'
  BY <1>8, EntriesFact DEF Dies, Goes, FilesTypes
<1>9. ASSUME NEW line, Strike(line) PROVE FilesTypes'
  <2>1. line \in DOMAIN shared /\ shared \in Seq(Entries) /\ shared[line] \in Entries
    BY <1>9, ElementFact DEF Strike, FilesTypes
  <2>2. RemoveAt(shared, line) \in Seq(Entries)
    BY <2>1, StrikeFact
  <2>. QED
    BY <1>9, <2>1, <2>2 DEF Strike, FilesTypes
<1>10. CASE UNCHANGED filesVars
  BY <1>10 DEF filesVars, FilesTypes
<1>. QED
  BY <1>1, <1>2, <1>3, <1>4, <1>5, <1>6, <1>7, <1>8, <1>9, <1>10 DEF FilesNext

(* Whatever the processes and the user do, the files and what is on its    *)
(* way into them are lists of entries.                                     *)
THEOREM FilesAreTyped == FilesSpec => []FilesTypeOK
<1>1. FilesSpec => []FilesTypes
  BY FilesTypesStart, FilesTypesKeep, PTL DEF FilesSpec
<1>. QED
  BY <1>1, TypesFact, PTL

-----------------------------------------------------------------------------
(* What a history waits for *)

LEMMA MessageFacts ==
    /\ \A role \in {"system", "user", "assistant", "checkpoint"} :
         /\ Message(role) \in Messages /\ Message(role).role = role
         /\ Message(role).calls = {}
    /\ \A ids \in SUBSET CallIds : /\ Asking(ids) \in Messages /\ Asking(ids).role = "assistant"
                                   /\ Asking(ids).calls = ids
    /\ \A id \in CallIds : /\ Result(id) \in Messages /\ Result(id).role = "tool"
                           /\ Result(id).calls = {} /\ Result(id).call = id
BY DEF Message, Messages, Asking, Result

LEMMA HistoryFacts ==
    ASSUME NEW s \in Seq(Messages)
    PROVE  /\ Len(s) \in Nat /\ DOMAIN s = 1..Len(s)
           /\ \A k \in 1..Len(s) : /\ s[k] \in Messages /\ s[k].calls \in SUBSET CallIds
                                   /\ s[k].role \in {"system", "user", "assistant", "tool",
                                                     "checkpoint"}
<1>1. \A k \in 1..Len(s) : s[k] \in Messages
  OBVIOUS
<1>. QED
  BY <1>1 DEF Messages

\* A message that is no result begins anew, a result takes its call off.
LEMMA WaitStep ==
    ASSUME NEW s \in Seq(Messages), NEW k \in 1..Len(s)
    PROVE  Waiting(s, k) = IF s[k].role = "tool" THEN Waiting(s, k - 1) \ {s[k].call}
                           ELSE s[k].calls
<1>0. Len(s) \in Nat /\ k \in Nat /\ k >= 1 /\ s[k].calls \subseteq CallIds
  BY HistoryFacts
<1>1. CASE s[k].role = "tool"
  <2>1. ASSUME NEW c \in Waiting(s, k) PROVE c \in Waiting(s, k - 1) /\ c # s[k].call
    <3>1. PICK b \in 1..k : /\ s[b].role # "tool" /\ c \in s[b].calls
                            /\ \A j \in b + 1..k : s[j].role = "tool" /\ s[j].call # c
      BY DEF Waiting
    <3>2. b # k
      BY <1>1, <3>1
    <3>3. b \in 1..k - 1 /\ k \in b + 1..k /\ \A j \in b + 1..k - 1 : j \in b + 1..k
      BY <1>0, <3>2
    <3>. QED
      BY <3>1, <3>3 DEF Waiting
  <2>2. ASSUME NEW c \in Waiting(s, k - 1), c # s[k].call PROVE c \in Waiting(s, k)
    <3>1. PICK b \in 1..k - 1 : /\ s[b].role # "tool" /\ c \in s[b].calls
                                /\ \A j \in b + 1..k - 1 : s[j].role = "tool" /\ s[j].call # c
      BY DEF Waiting
    <3>2. b \in 1..k /\ \A j \in b + 1..k : j = k \/ j \in b + 1..k - 1
      BY <1>0
    <3>3. \A j \in b + 1..k : s[j].role = "tool" /\ s[j].call # c
      BY <1>1, <2>2, <3>1, <3>2
    <3>. QED
      BY <3>1, <3>2, <3>3 DEF Waiting
  <2>. QED
    BY <1>1, <2>1, <2>2
<1>2. CASE s[k].role # "tool"
  <2>1. ASSUME NEW c \in Waiting(s, k) PROVE c \in s[k].calls
    <3>1. PICK b \in 1..k : /\ s[b].role # "tool" /\ c \in s[b].calls
                            /\ \A j \in b + 1..k : s[j].role = "tool" /\ s[j].call # c
      BY DEF Waiting
    <3>2. b = k \/ k \in b + 1..k
      BY <1>0
    <3>. QED
      BY <1>2, <3>1, <3>2
  <2>2. ASSUME NEW c \in s[k].calls PROVE c \in Waiting(s, k)
    <3>1. k \in 1..k /\ k + 1..k = {}
      BY <1>0
    <3>. QED
      BY <1>0, <1>2, <3>1 DEF Waiting
  <2>. QED
    BY <1>2, <2>1, <2>2
<1>. QED
  BY <1>1, <1>2

LEMMA NoWait == \A s : Waiting(s, 0) = {}
BY DEF Waiting

\* What is waited for depends on what there is up to there.
LEMMA SameStart ==
    ASSUME NEW s, NEW t, NEW k \in Nat, \A j \in 1..k : s[j] = t[j]
    PROVE  Waiting(s, k) = Waiting(t, k)
<1>1. \A b \in 1..k : \A j \in b + 1..k : s[j] = t[j]
  OBVIOUS
<1>. QED
  BY <1>1 DEF Waiting

\* A part of a history that begins with no result, or where nothing is
\* waited for, waits for what the history does.
LEMMA PartWaits ==
    ASSUME NEW u \in Seq(Messages), NEW w \in Seq(Messages), NEW a \in Nat,
           a + Len(w) <= Len(u), \A k \in 1..Len(w) : u[a + k] = w[k],
           Waiting(u, a) = {} \/ w[1].role # "tool"
    PROVE  \A k \in 1..Len(w) : Waiting(u, a + k) = Waiting(w, k)
<1>. DEFINE n == Len(w)
            S == {k \in 0..n : k > 0 => Waiting(u, a + k) = Waiting(w, k)}
<1>0. n \in Nat /\ Len(u) \in Nat
  OBVIOUS
<1>1. 0 \in S
  BY <1>0
<1>2. ASSUME NEW k \in 0..n - 1, k \in S PROVE k + 1 \in S
  <2>1. /\ k + 1 \in 1..n /\ a + (k + 1) \in 1..Len(u) /\ (k + 1) - 1 = k
        /\ (a + (k + 1)) - 1 = a + k
    BY <1>0
  <2>2. Waiting(u, a + (k + 1)) = IF w[k + 1].role = "tool"
                                  THEN Waiting(u, a + k) \ {w[k + 1].call} ELSE w[k + 1].calls
    BY <2>1, WaitStep
  <2>3. Waiting(w, k + 1) = IF w[k + 1].role = "tool"
                            THEN Waiting(w, k) \ {w[k + 1].call} ELSE w[k + 1].calls
    BY <2>1, WaitStep
  <2>4. Waiting(u, a + (k + 1)) = Waiting(w, k + 1)
    <3>1. CASE k = 0
      <4>1. Waiting(w, k) = {} /\ a + k = a /\ k + 1 = 1
        BY <1>0, <3>1, NoWait
      <4>2. CASE Waiting(u, a) = {}
        <5>1. Waiting(u, a + k) = Waiting(w, k)
          BY <4>1, <4>2
        <5>. QED
          BY <2>2, <2>3, <5>1
      <4>3. CASE w[1].role # "tool"
        <5>1. w[k + 1].role # "tool"
          BY <4>1, <4>3
        <5>. QED
          BY <2>2, <2>3, <5>1
      <4>. QED
        BY <4>2, <4>3
    <3>2. CASE k # 0
      <4>1. Waiting(u, a + k) = Waiting(w, k)
        BY <1>0, <1>2, <3>2
      <4>. QED
        BY <2>2, <2>3, <4>1
    <3>. QED
      BY <3>1, <3>2
  <2>5. k + 1 \in 0..n
    BY <1>0
  <2>. QED
    BY <2>4, <2>5
<1>. HIDE DEF S, n
<1>3. \A k \in 0..n : k \in S
  BY <1>0, <1>1, <1>2, Climb
<1>. QED
  BY <1>0, <1>3 DEF S, n

\* The first message of a history that can be mended is no result.
LEMMA FirstFact ==
    ASSUME NEW s \in Seq(Messages), Mendable(s), s # <<>>
    PROVE  1 \in 1..Len(s) /\ s[1].role # "tool"
<1>1. 1 \in 1..Len(s) /\ 1 - 1 = 0
  BY EmptySeq
<1>. QED
  BY <1>1, NoWait DEF Mendable

\* Such a part can be mended when the whole can, and is clean when that is.
LEMMA PartMends ==
    ASSUME NEW u \in Seq(Messages), NEW w \in Seq(Messages), NEW a \in Nat,
           a + Len(w) <= Len(u), \A k \in 1..Len(w) : u[a + k] = w[k],
           Waiting(u, a) = {} \/ w[1].role # "tool"
    PROVE  /\ Mendable(u) => Mendable(w)
           /\ Clean(u) => Clean(w)
<1>0. Len(w) \in Nat /\ Len(u) \in Nat /\ DOMAIN w = 1..Len(w) /\ DOMAIN u = 1..Len(u)
  BY HistoryFacts
<1>1. ASSUME NEW k \in 1..Len(w), k # 1 PROVE Waiting(u, a + k - 1) = Waiting(w, k - 1)
  <2>1. k - 1 \in 1..Len(w) /\ a + (k - 1) = a + k - 1
    BY <1>0, <1>1
  <2>. QED
    BY <2>1, PartWaits
<1>2. \A k \in 1..Len(w) : a + k \in 1..Len(u) /\ a + k \in DOMAIN u
  BY <1>0
<1>3. ASSUME Mendable(u) PROVE Mendable(w)
  <2>. SUFFICES ASSUME NEW k \in 1..Len(w)
                PROVE  /\ w[k].role = "tool" => w[k].call \in Waiting(w, k - 1)
                       /\ w[k].calls # {} => w[k].role = "assistant"
    BY <1>0 DEF Mendable
  <2>1. /\ w[k].role = "tool" => w[k].call \in Waiting(u, a + k - 1)
        /\ w[k].calls # {} => w[k].role = "assistant"
    BY <1>2, <1>3 DEF Mendable
  <2>2. CASE k # 1
    BY <1>1, <2>1, <2>2
  <2>3. CASE k = 1
    <3>1. a + k - 1 = a
      BY <2>3
    <3>. QED
      BY <2>1, <2>3, <3>1
  <2>. QED
    BY <2>2, <2>3
<1>4. ASSUME Clean(u) PROVE Clean(w)
  <2>1. Mendable(w)
    BY <1>3, <1>4 DEF Clean
  <2>. SUFFICES ASSUME NEW k \in 1..Len(w), w[k].role # "tool"
                PROVE  Waiting(w, k - 1) = {}
    BY <1>0, <2>1 DEF Clean
  <2>2. Waiting(u, a + k - 1) = {}
    <3>1. a + k \in DOMAIN u /\ u[a + k].role # "tool"
      BY <1>2
    <3>2. \A i \in DOMAIN u : u[i].role # "tool" => Waiting(u, i - 1) = {}
      BY <1>4 DEF Clean
    <3>3. Waiting(u, (a + k) - 1) = {}
      BY <3>1, <3>2, Zenon
    <3>4. (a + k) - 1 = a + k - 1
      BY <1>0
    <3>. QED
      BY <3>3, <3>4
  <2>3. CASE k # 1
    BY <1>1, <2>2, <2>3
  <2>4. CASE k = 1
    BY <2>4, NoWait
  <2>. QED
    BY <2>3, <2>4
<1>. QED
  BY <1>3, <1>4

\* Two histories that can be mended, one after the other.
LEMMA JoinMends ==
    ASSUME NEW p \in Seq(Messages), NEW w \in Seq(Messages), Mendable(p), Mendable(w)
    PROVE  /\ p \o w \in Seq(Messages) /\ Mendable(p \o w)
           /\ w = <<>> => Unanswered(p \o w) = Unanswered(p)
           /\ w # <<>> => Unanswered(p \o w) = Unanswered(w)
           /\ Clean(p) /\ Clean(w) /\ (w = <<>> \/ Unanswered(p) = {}) => Clean(p \o w)
<1>. DEFINE u == p \o w
            a == Len(p)
<1>0. /\ a \in Nat /\ Len(w) \in Nat /\ u \in Seq(Messages) /\ Len(u) = a + Len(w)
      /\ DOMAIN u = 1..Len(u) /\ DOMAIN w = 1..Len(w) /\ DOMAIN p = 1..a
  BY HistoryFacts
<1>1. /\ \A k \in 1..a : u[k] = p[k]
      /\ \A k \in 1..Len(w) : u[a + k] = w[k]
  BY <1>0, ConcatProperties
<1>. HIDE DEF u
<1>2. \A k \in 0..a : Waiting(u, k) = Waiting(p, k)
  <2>. SUFFICES ASSUME NEW k \in 0..a PROVE Waiting(u, k) = Waiting(p, k)
    OBVIOUS
  <2>1. \A j \in 1..k : u[j] = p[j]
    BY <1>0, <1>1
  <2>. QED
    BY <2>1, SameStart
<1>3. \A k \in 1..Len(w) : Waiting(u, a + k) = Waiting(w, k)
  <2>1. CASE w = <<>>
    BY <1>0, <2>1
  <2>2. CASE w # <<>>
    <3>1. w[1].role # "tool"
      BY <2>2, FirstFact
    <3>2. a + Len(w) <= Len(u)
      BY <1>0
    <3>. HIDE DEF a
    <3>. QED
      BY <1>0, <1>1, <3>1, <3>2, PartWaits
  <2>. QED
    BY <2>1, <2>2
<1>4. \A k \in 1..Len(w) : /\ (a + k) - 1 = a + (k - 1)
                           /\ k # 1 => Waiting(u, (a + k) - 1) = Waiting(w, k - 1)
                           /\ k = 1 => Waiting(u, (a + k) - 1) = Unanswered(p)
  <2>. SUFFICES ASSUME NEW k \in 1..Len(w)
                PROVE  /\ (a + k) - 1 = a + (k - 1)
                       /\ k # 1 => Waiting(u, (a + k) - 1) = Waiting(w, k - 1)
                       /\ k = 1 => Waiting(u, (a + k) - 1) = Unanswered(p)
    OBVIOUS
  <2>1. (a + k) - 1 = a + (k - 1) /\ (k # 1 => k - 1 \in 1..Len(w)) /\ (k = 1 => a + (k - 1) = a)
    BY <1>0
  <2>2. a \in 0..a
    BY <1>0
  <2>. QED
    BY <1>2, <1>3, <2>1, <2>2 DEF Unanswered
<1>5. \A k \in 1..Len(u) : k \in 1..a \/ \E i \in 1..Len(w) : k = a + i
  <2>. SUFFICES ASSUME NEW k \in 1..Len(u), k \notin 1..a PROVE \E i \in 1..Len(w) : k = a + i
    OBVIOUS
  <2>1. k - a \in 1..Len(w) /\ k = a + (k - a)
    BY <1>0
  <2>. QED
    BY <2>1
<1>6. Mendable(u)
  <2>. SUFFICES ASSUME NEW k \in 1..Len(u)
                PROVE  /\ u[k].role = "tool" => u[k].call \in Waiting(u, k - 1)
                       /\ u[k].calls # {} => u[k].role = "assistant"
    BY <1>0 DEF Mendable
  <2>1. CASE k \in 1..a
    <3>1. k - 1 \in 0..a
      BY <1>0, <2>1
    <3>. QED
      BY <1>0, <1>1, <1>2, <2>1, <3>1 DEF Mendable
  <2>2. ASSUME NEW i \in 1..Len(w), k = a + i
        PROVE  /\ u[k].role = "tool" => u[k].call \in Waiting(u, k - 1)
               /\ u[k].calls # {} => u[k].role = "assistant"
    <3>1. u[k] = w[i] /\ (w[i].calls # {} => w[i].role = "assistant")
      BY <1>0, <1>1, <2>2 DEF Mendable
    <3>2. ASSUME w[i].role = "tool" PROVE w[i].call \in Waiting(u, k - 1)
      <4>1. i # 1
        BY <3>2, FirstFact
      <4>2. w[i].call \in Waiting(w, i - 1)
        BY <1>0, <3>2 DEF Mendable
      <4>. QED
        BY <1>4, <2>2, <4>1, <4>2
    <3>. QED
      BY <3>1, <3>2
  <2>. QED
    BY <1>5, <2>1, <2>2
<1>7. ASSUME Clean(p), Clean(w), w = <<>> \/ Unanswered(p) = {} PROVE Clean(u)
  <2>. SUFFICES ASSUME NEW k \in 1..Len(u), u[k].role # "tool" PROVE Waiting(u, k - 1) = {}
    BY <1>0, <1>6 DEF Clean
  <2>1. CASE k \in 1..a
    <3>1. k - 1 \in 0..a
      BY <1>0, <2>1
    <3>. QED
      BY <1>0, <1>1, <1>2, <1>7, <2>1, <3>1 DEF Clean
  <2>2. ASSUME NEW i \in 1..Len(w), k = a + i PROVE Waiting(u, k - 1) = {}
    <3>1. u[k] = w[i] /\ w # <<>> /\ Unanswered(p) = {}
      BY <1>0, <1>1, <1>7, <2>2
    <3>2. Waiting(w, i - 1) = {}
      BY <1>0, <1>7, <3>1 DEF Clean
    <3>. QED
      BY <1>4, <2>2, <3>1, <3>2
  <2>. QED
    BY <1>5, <2>1, <2>2
<1>8. w = <<>> => Unanswered(u) = Unanswered(p)
  <2>1. w = <<>> => Len(u) = a /\ a \in 0..a
    BY <1>0
  <2>. QED
    BY <1>2, <2>1 DEF Unanswered
<1>9. w # <<>> => Unanswered(u) = Unanswered(w)
  <2>1. w # <<>> => Len(w) \in 1..Len(w)
    BY <1>0, EmptySeq
  <2>. QED
    BY <1>0, <1>3, <2>1 DEF Unanswered
<1>. QED
  BY <1>0, <1>6, <1>7, <1>8, <1>9 DEF u


-----------------------------------------------------------------------------
(* The largest and the smallest of numbers *)

LEMMA Largest ==
    ASSUME NEW n \in Nat, NEW T \in SUBSET (0..n), T # {}
    PROVE  Max(T) \in T /\ \A y \in T : y <= Max(T)
<1>1. \E x \in T : \A y \in T : x >= y
  <2>. SUFFICES ASSUME \A x \in T : \E y \in T : ~(x >= y) PROVE FALSE
    OBVIOUS
  <2>. DEFINE S == {i \in 0..n : \E x \in T : x >= i}
  <2>1. 0 \in S
    <3>1. PICK x \in T : TRUE
      OBVIOUS
    <3>2. x >= 0 /\ 0 \in 0..n
      OBVIOUS
    <3>. QED
      BY <3>2
  <2>2. ASSUME NEW i \in 0..n - 1, i \in S PROVE i + 1 \in S
    <3>1. PICK x \in T : x >= i
      BY <2>2
    <3>2. PICK y \in T : ~(x >= y)
      OBVIOUS
    <3>3. y >= i + 1 /\ i + 1 \in 0..n
      BY <3>1, <3>2
    <3>. QED
      BY <3>3
  <2>. HIDE DEF S
  <2>3. n \in S
    <3>1. \A i \in 0..n : i \in S
      BY <2>1, <2>2, Climb
    <3>. QED
      BY <3>1
  <2>4. PICK x \in T : x >= n
    BY <2>3 DEF S
  <2>5. PICK y \in T : ~(x >= y)
    OBVIOUS
  <2>. QED
    BY <2>4, <2>5
<1>2. Max(T) \in T /\ \A y \in T : Max(T) >= y
  BY <1>1 DEF Max
<1>. QED
  BY <1>2

LEMMA Smallest ==
    ASSUME NEW n \in Nat, NEW T \in SUBSET (0..n), T # {}
    PROVE  Min(T) \in T /\ \A y \in T : Min(T) <= y
<1>1. \E x \in T : \A y \in T : x <= y
  <2>. DEFINE U == {n - x : x \in T}
  <2>1. U \in SUBSET (0..n) /\ U # {}
    <3>1. \A x \in T : n - x \in 0..n
      OBVIOUS
    <3>. QED
      BY <3>1
  <2>2. Max(U) \in U /\ \A y \in U : y <= Max(U)
    <3>. HIDE DEF U
    <3>. QED
      BY <2>1, Largest
  <2>3. PICK x \in T : Max(U) = n - x
    BY <2>2
  <2>4. ASSUME NEW y \in T PROVE x <= y
    <3>1. n - y <= n - x
      BY <2>2, <2>3
    <3>. QED
      BY <3>1
  <2>. QED
    BY <2>4
<1>2. Min(T) \in T /\ \A y \in T : Min(T) <= y
  BY <1>1 DEF Min
<1>. QED
  BY <1>2

-----------------------------------------------------------------------------
(* Results *)

\* One more result, of a call that waits, takes that call off.
LEMMA AnswerMends ==
    ASSUME NEW s \in Seq(Messages), NEW c \in Unanswered(s)
    PROVE  LET t == Append(s, Result(c))
           IN /\ t \in Seq(Messages) /\ Unanswered(t) = Unanswered(s) \ {c}
              /\ Mendable(s) => Mendable(t)
              /\ Clean(s) => Clean(t)
<1>. DEFINE t == Append(s, Result(c))
            n == Len(s)
<1>0. c \in CallIds /\ c \in Waiting(s, n)
  BY DEF Unanswered, Waiting
<1>1. Result(c) \in Messages /\ Result(c).role = "tool" /\ Result(c).calls = {} /\ Result(c).call = c
  BY <1>0, MessageFacts
<1>2. /\ n \in Nat /\ t \in Seq(Messages) /\ Len(t) = n + 1 /\ DOMAIN t = 1..n + 1
      /\ DOMAIN s = 1..n
      /\ t[n + 1] = Result(c) /\ \A k \in 1..n : t[k] = s[k]
  BY <1>1, HistoryFacts
<1>. HIDE DEF t, n
<1>3. \A k \in 0..n : Waiting(t, k) = Waiting(s, k)
  <2>. SUFFICES ASSUME NEW k \in 0..n PROVE Waiting(t, k) = Waiting(s, k)
    OBVIOUS
  <2>1. \A j \in 1..k : t[j] = s[j]
    BY <1>2
  <2>. QED
    BY <2>1, SameStart
<1>4. \A k \in 1..n + 1 : k - 1 \in 0..n /\ (k \in 1..n \/ (k = n + 1 /\ k - 1 = n))
  BY <1>2
<1>5. Unanswered(t) = Unanswered(s) \ {c}
  <2>1. n + 1 \in 1..Len(t) /\ (n + 1) - 1 = n /\ n \in 0..n
    BY <1>2
  <2>2. Waiting(t, n + 1) = Waiting(t, n) \ {c}
    BY <1>1, <1>2, <2>1, WaitStep
  <2>. QED
    BY <1>2, <1>3, <2>1, <2>2 DEF Unanswered, n
<1>6. ASSUME Mendable(s) PROVE Mendable(t)
  <2>. SUFFICES ASSUME NEW k \in 1..n + 1
                PROVE  /\ t[k].role = "tool" => t[k].call \in Waiting(t, k - 1)
                       /\ t[k].calls # {} => t[k].role = "assistant"
    BY <1>2 DEF Mendable
  <2>1. Waiting(t, k - 1) = Waiting(s, k - 1)
    BY <1>3, <1>4
  <2>2. CASE k \in 1..n
    BY <1>2, <1>6, <2>1, <2>2 DEF Mendable
  <2>3. CASE k = n + 1
    <3>1. k - 1 = n /\ t[k] = Result(c)
      BY <1>2, <2>3
    <3>. QED
      BY <1>0, <1>1, <2>1, <3>1
  <2>. QED
    BY <1>4, <2>2, <2>3
<1>7. ASSUME Clean(s) PROVE Clean(t)
  <2>0. Mendable(t)
    BY <1>6, <1>7 DEF Clean
  <2>. SUFFICES ASSUME NEW k \in 1..n + 1, t[k].role # "tool" PROVE Waiting(t, k - 1) = {}
    BY <1>2, <2>0 DEF Clean
  <2>1. Waiting(t, k - 1) = Waiting(s, k - 1)
    BY <1>3, <1>4
  <2>2. k \in 1..n
    BY <1>1, <1>2, <1>4
  <2>3. k \in DOMAIN s /\ s[k].role # "tool"
    BY <1>2, <2>2
  <2>. QED
    BY <1>7, <2>1, <2>3 DEF Clean
<1>. QED
  BY <1>2, <1>5, <1>6, <1>7 DEF t

\* The results of a set of calls are one for each.
LEMMA ResultList ==
    ASSUME NEW ids \in SUBSET CallIds
    PROVE  \E n \in Nat : \E g \in [1..n -> ids] :
             /\ \A a, b \in 1..n : g[a] = g[b] => a = b
             /\ \A c \in ids : \E k \in 1..n : g[k] = c
             /\ Results(ids) = [k \in 1..n |-> Result(g[k])]
<1>. DEFINE n == Cardinality(ids)
            g == SetToSeq(ids)
<1>1. IsFiniteSet(ids)
  BY TalkAssumption, FS_Subset
<1>2. n \in Nat /\ ExistsBijection(1..n, ids)
  BY <1>1, FS_CardinalityType
<1>3. \E f \in [1..n -> ids] : IsInjective(f)
  BY <1>2 DEF ExistsBijection, Bijection, Injection, IsInjective
<1>4. g \in [1..n -> ids] /\ IsInjective(g)
  BY <1>3 DEF SetToSeq
<1>5. g \in Injection(1..n, ids)
  BY <1>4 DEF Injection
<1>6. Cardinality(1..n) = n
  BY <1>2, FS_Interval
<1>7. g \in Surjection(1..n, ids)
  <2>. HIDE DEF g
  <2>. QED
    BY <1>1, <1>5, <1>6, FS_Injection
<1>8. Results(ids) = [k \in 1..n |-> Result(g[k])]
  <2>1. DOMAIN g = 1..n
    BY <1>4
  <2>. QED
    BY <2>1 DEF Results
<1>9. \A a, b \in 1..n : g[a] = g[b] => a = b
  <2>. HIDE DEF g
  <2>. QED
    BY <1>4 DEF IsInjective
<1>10. \A c \in ids : \E k \in 1..n : g[k] = c
  <2>. HIDE DEF g
  <2>. QED
    BY <1>7 DEF Surjection
<1>. HIDE DEF g, n
<1>. QED
  BY <1>2, <1>4, <1>8, <1>9, <1>10


\* A round is closed by the results of all the calls it waits for.
LEMMA ResultsClose ==
    ASSUME NEW s \in Seq(Messages)
    PROVE  LET t == s \o Results(Unanswered(s))
           IN /\ t \in Seq(Messages) /\ Unanswered(t) = {} /\ (s # <<>> => t # <<>>)
              /\ Results(Unanswered(s)) \in Seq(Messages)
              /\ Mendable(s) => Mendable(t)
              /\ Clean(s) => Clean(t)
<1>. DEFINE ids == Unanswered(s)
<1>1. ids \in SUBSET CallIds
  BY DEF Unanswered, Waiting
<1>2. PICK n \in Nat : \E g \in [1..n -> ids] :
             /\ \A a, b \in 1..n : g[a] = g[b] => a = b
             /\ \A c \in ids : \E k \in 1..n : g[k] = c
             /\ Results(ids) = [k \in 1..n |-> Result(g[k])]
  <2>. HIDE DEF ids
  <2>. QED
    BY <1>1, ResultList
<1>3. PICK g \in [1..n -> ids] :
             /\ \A a, b \in 1..n : g[a] = g[b] => a = b
             /\ \A c \in ids : \E k \in 1..n : g[k] = c
             /\ Results(ids) = [k \in 1..n |-> Result(g[k])]
  BY <1>2
<1>. DEFINE first(k) == [j \in 1..k |-> Result(g[j])]
            P(k) == s \o first(k)
            S == {k \in 0..n : /\ P(k) \in Seq(Messages)
                               /\ Unanswered(P(k)) = ids \ {g[j] : j \in 1..k}
                               /\ Mendable(s) => Mendable(P(k))
                               /\ Clean(s) => Clean(P(k))}
<1>4. \A k \in 0..n : first(k) \in Seq(Messages) /\ Len(first(k)) = k
  <2>. SUFFICES ASSUME NEW k \in 0..n PROVE first(k) \in Seq(Messages) /\ Len(first(k)) = k
    OBVIOUS
  <2>1. \A j \in 1..k : Result(g[j]) \in Messages
    <3>1. \A j \in 1..k : g[j] \in CallIds
      BY <1>1, <1>3
    <3>. QED
      BY <3>1, MessageFacts
  <2>2. first(k) \in [1..k -> Messages] /\ k \in Nat
    BY <2>1
  <2>. QED
    BY <2>2, IsASeq, LenProperties
<1>5. 0 \in S
  <2>1. first(0) = <<>>
    <3>1. first(0) \in Seq(Messages) /\ Len(first(0)) = 0
      BY <1>4
    <3>. QED
      BY <3>1, EmptySeq
  <2>2. P(0) = s
    BY <2>1, ConcatEmptySeq
  <2>3. {g[j] : j \in 1..0} = {}
    OBVIOUS
  <2>. HIDE DEF P
  <2>. QED
    BY <2>2, <2>3
<1>6. ASSUME NEW k \in 0..n - 1, k \in S PROVE k + 1 \in S
  <2>1. k \in Nat /\ k + 1 \in 1..n /\ k + 1 \in 0..n /\ k \in 0..n
    OBVIOUS
  <2>2. g[k + 1] \in Unanswered(P(k))
    <3>1. \A j \in 1..k : j \in 1..n /\ j # k + 1
      BY <2>1
    <3>2. g[k + 1] \notin {g[j] : j \in 1..k}
      BY <1>3, <2>1, <3>1
    <3>3. g[k + 1] \in ids
      BY <1>3, <2>1
    <3>. QED
      BY <1>6, <3>2, <3>3
  <2>3. P(k + 1) = Append(P(k), Result(g[k + 1]))
    <3>1. Result(g[k + 1]) \in Messages
      <4>1. g[k + 1] \in CallIds
        BY <1>1, <1>3, <2>1
      <4>. QED
        BY <4>1, MessageFacts
    <3>2. first(k) \in Seq(Messages) /\ Len(first(k)) = k
          /\ first(k + 1) \in Seq(Messages) /\ Len(first(k + 1)) = k + 1
      BY <1>4, <2>1
    <3>3. first(k + 1) = Append(first(k), Result(g[k + 1]))
      <4>1. \A j \in 1..k : first(k + 1)[j] = first(k)[j]
        BY <2>1
      <4>2. first(k + 1)[k + 1] = Result(g[k + 1])
        BY <2>1
      <4>. HIDE DEF first
      <4>. QED
        BY <2>1, <3>1, <3>2, <4>1, <4>2
    <3>. HIDE DEF first
    <3>. QED
      BY <3>1, <3>2, <3>3, AppendIsConcat, ConcatAssociative, SMTT(20)
  <2>4. {g[j] : j \in 1..k + 1} = {g[j] : j \in 1..k} \cup {g[k + 1]}
    <3>1. \A j \in 1..k + 1 : j = k + 1 \/ j \in 1..k
      BY <2>1
    <3>2. \A j \in 1..k : j \in 1..k + 1
      BY <2>1
    <3>3. k + 1 \in 1..k + 1
      BY <2>1
    <3>. QED
      BY <3>1, <3>2, <3>3
  <2>. DEFINE u == P(k)
  <2>5. /\ u \in Seq(Messages) /\ Unanswered(u) = ids \ {g[j] : j \in 1..k}
        /\ Mendable(s) => Mendable(u)
        /\ Clean(s) => Clean(u)
    BY <1>6
  <2>. HIDE DEF P, u
  <2>6. g[k + 1] \in Unanswered(u) /\ P(k + 1) = Append(u, Result(g[k + 1]))
    BY <2>2, <2>3 DEF u
  <2>7. /\ P(k + 1) \in Seq(Messages) /\ Unanswered(P(k + 1)) = Unanswered(u) \ {g[k + 1]}
        /\ Mendable(u) => Mendable(P(k + 1))
        /\ Clean(u) => Clean(P(k + 1))
    <3>. DEFINE v == Append(u, Result(g[k + 1]))
    <3>1. /\ v \in Seq(Messages) /\ Unanswered(v) = Unanswered(u) \ {g[k + 1]}
          /\ Mendable(u) => Mendable(v)
          /\ Clean(u) => Clean(v)
      BY <2>5, <2>6, AnswerMends
    <3>. QED
      BY <2>6, <3>1
  <2>8. Unanswered(P(k + 1)) = ids \ {g[j] : j \in 1..k + 1}
    BY <2>4, <2>5, <2>7
  <2>. QED
    BY <2>1, <2>5, <2>7, <2>8
<1>7. n \in S
  <2>. HIDE DEF S
  <2>1. \A i \in 0..n : i \in S
    BY <1>5, <1>6, Climb
  <2>. QED
    BY <2>1
<1>8. first(n) = Results(ids) /\ first(n) \in Seq(Messages)
  <2>1. first(n) = Results(ids)
    BY <1>3
  <2>. QED
    BY <1>4, <2>1
<1>9. ids \ {g[j] : j \in 1..n} = {}
  BY <1>3
<1>. HIDE DEF ids, first
<1>10. s # <<>> => P(n) # <<>>
  <2>1. Len(P(n)) = Len(s) + Len(first(n)) /\ Len(first(n)) \in Nat
    BY <1>8
  <2>2. s # <<>> => Len(s) \in Nat \ {0}
    BY EmptySeq
  <2>. QED
    BY <2>1, <2>2
<1>11. /\ P(n) \in Seq(Messages) /\ Unanswered(P(n)) = {}
       /\ Mendable(s) => Mendable(P(n))
       /\ Clean(s) => Clean(P(n))
  BY <1>7, <1>9
<1>. QED
  BY <1>8, <1>10, <1>11 DEF ids

\* A message alone
LEMMA OneFact ==
    ASSUME NEW m \in Messages, m.role # "tool", m.calls # {} => m.role = "assistant"
    PROVE  /\ <<m>> \in Seq(Messages) /\ <<m>> # <<>> /\ Mendable(<<m>>) /\ Clean(<<m>>)
           /\ Unanswered(<<m>>) = m.calls
<1>. DEFINE s == <<m>>
<1>1. s \in Seq(Messages) /\ Len(s) = 1 /\ s[1] = m /\ DOMAIN s = 1..1 /\ s # <<>>
  OBVIOUS
<1>2. \A k \in 1..1 : k = 1 /\ k - 1 = 0
  OBVIOUS
<1>. HIDE DEF s
<1>3. Waiting(s, 0) = {}
  BY NoWait
<1>4. Mendable(s)
  BY <1>1, <1>2 DEF Mendable
<1>5. Clean(s)
  BY <1>1, <1>2, <1>3, <1>4 DEF Clean
<1>6. Unanswered(s) = m.calls
  <2>1. 1 \in 1..Len(s)
    BY <1>1
  <2>. QED
    BY <1>1, <2>1, WaitStep DEF Unanswered
<1>. QED
  BY <1>1, <1>4, <1>5, <1>6 DEF s


\* What a message does to a history that waits for at least what it answers.
LEMMA ResultFact ==
    ASSUME NEW m \in Messages, m.role = "tool", m.calls = {}
    PROVE  m = Result(m.call)
BY DEF Messages, Message, Result

LEMMA EmptyFact ==
    /\ <<>> \in Seq(Messages) /\ Mendable(<<>>) /\ Clean(<<>>) /\ Unanswered(<<>>) = {}
<1>. DEFINE e == <<>>
<1>1. e \in Seq(Messages) /\ Len(e) = 0 /\ DOMAIN e = {}
  OBVIOUS
<1>. HIDE DEF e
<1>2. Unanswered(e) = {}
  BY <1>1, NoWait DEF Unanswered
<1>3. Mendable(e) /\ Clean(e)
  BY <1>1 DEF Mendable, Clean
<1>. QED
  BY <1>1, <1>2, <1>3 DEF e

\* The next message of a history, put after one that waits for the same.
LEMMA NextMends ==
    ASSUME NEW p \in Seq(Messages), Mendable(p), NEW m \in Messages,
           m.calls # {} => m.role = "assistant", m.role = "tool" => m.call \in Unanswered(p)
    PROVE  LET t == Append(p, m)
           IN /\ t \in Seq(Messages) /\ t # <<>> /\ Mendable(t)
              /\ Unanswered(t) = IF m.role = "tool" THEN Unanswered(p) \ {m.call} ELSE m.calls
              /\ Clean(p) /\ (m.role # "tool" => Unanswered(p) = {}) => Clean(t)
<1>0. Append(p, m) # <<>>
  BY AppendProperties
<1>1. CASE m.role = "tool"
  <2>0. m.calls = {}
    BY <1>1
  <2>1. m = Result(m.call) /\ m.call \in Unanswered(p)
    BY <1>1, <2>0, ResultFact
  <2>. QED
    BY <1>0, <1>1, <2>1, AnswerMends
<1>2. CASE m.role # "tool"
  <2>. DEFINE w == <<m>>
  <2>1. w \in Seq(Messages) /\ w # <<>> /\ Mendable(w) /\ Clean(w) /\ Unanswered(w) = m.calls
    BY <1>2, OneFact
  <2>2. Append(p, m) = p \o w
    BY AppendIsConcat
  <2>. HIDE DEF w
  <2>3. /\ p \o w \in Seq(Messages) /\ Mendable(p \o w) /\ Unanswered(p \o w) = Unanswered(w)
        /\ Clean(p) /\ Unanswered(p) = {} => Clean(p \o w)
    BY <2>1, JoinMends
  <2>. QED
    BY <1>0, <1>2, <2>1, <2>2, <2>3
<1>. QED
  BY <1>1, <1>2

\* A run starts on a history that can be mended: it is repaired.
LEMMA RepairMends ==
    ASSUME NEW s \in Seq(Messages), Mendable(s)
    PROVE  /\ Repaired(s) \in Seq(Messages) /\ (s # <<>> => Repaired(s) # <<>>)
           /\ Clean(Repaired(s)) /\ Unanswered(Repaired(s)) = {}
<1>. DEFINE n == Len(s)
            closed(k) == (IF s[k].role = "tool" THEN <<>> ELSE Results(Waiting(s, k - 1)))
                             \o <<s[k]>>
            q == [k \in DOMAIN s |-> closed(k)]
<1>0. n \in Nat /\ DOMAIN s = 1..n /\ \A k \in 1..n : s[k] \in Messages
  BY HistoryFacts
<1>1. ASSUME NEW k \in 1..n
      PROVE  Results(Waiting(s, k - 1)) \in Seq(Messages) /\ closed(k) \in Seq(Messages)
  <2>. DEFINE t == SubSeq(s, 1, k - 1)
  <2>1. t \in Seq(Messages) /\ Len(t) = k - 1 /\ \A j \in 1..k - 1 : t[j] = s[j]
    BY <1>0
  <2>2. k - 1 \in Nat
    BY <1>0
  <2>. HIDE DEF t
  <2>3. Waiting(t, k - 1) = Waiting(s, k - 1)
    BY <2>1, <2>2, SameStart
  <2>4. Results(Waiting(s, k - 1)) \in Seq(Messages)
    BY <2>1, <2>3, ResultsClose DEF Unanswered
  <2>5. <<>> \in Seq(Messages) /\ <<s[k]>> \in Seq(Messages)
    BY <1>0
  <2>. QED
    BY <2>4, <2>5, ConcatProperties
<1>2. q \in [1..n -> Seq(Messages)] /\ q \in Seq(Seq(Messages)) /\ Len(q) = n
  <2>. HIDE DEF closed, n
  <2>1. q \in [1..n -> Seq(Messages)]
    BY <1>0, <1>1
  <2>. QED
    BY <1>0, <2>1
<1>3. Repaired(s) = FlattenSeq(q) \o Results(Unanswered(s))
  BY DEF Repaired
<1>4. \A k \in 1..n : q[k] = closed(k)
  BY <1>0
<1>. HIDE DEF q
<1>5. PICK F \in [0..n -> Seq(Messages)] :
         /\ F[0] = <<>> /\ F[n] = FlattenSeq(q)
         /\ \A i \in 1..n : F[i] = F[i - 1] \o q[i]
  <2>. HIDE DEF n
  <2>. QED
    BY <1>2, FlattenSteps
<1>. DEFINE S == {i \in 0..n : /\ Clean(F[i]) /\ Unanswered(F[i]) = Waiting(s, i)
                               /\ i > 0 => F[i] # <<>>}
<1>6. 0 \in S
  <2>1. 0 \in 0..n
    BY <1>0
  <2>. QED
    BY <1>5, <2>1, EmptyFact, NoWait
<1>7. ASSUME NEW i \in 0..n - 1, i \in S PROVE i + 1 \in S
  <2>. DEFINE m == s[i + 1]
              r == Results(Waiting(s, i))
              p == F[i]
  <2>1. i + 1 \in 1..n /\ i + 1 \in 0..n /\ i \in 0..n /\ (i + 1) - 1 = i
    BY <1>0
  <2>2. /\ m \in Messages /\ (m.calls # {} => m.role = "assistant")
        /\ m.role = "tool" => m.call \in Waiting(s, i)
    BY <1>0, <2>1 DEF Mendable
  <2>3. p \in Seq(Messages) /\ Clean(p) /\ Mendable(p) /\ Unanswered(p) = Waiting(s, i)
    BY <1>5, <1>7, <2>1 DEF Clean
  <2>4. F[i + 1] = p \o ((IF m.role = "tool" THEN <<>> ELSE r) \o <<m>>)
    BY <1>4, <1>5, <2>1
  <2>5. Waiting(s, i + 1) = IF m.role = "tool" THEN Waiting(s, i) \ {m.call} ELSE m.calls
    BY <2>1, WaitStep
  <2>. HIDE DEF m, p, r, n
  <2>6. CASE m.role = "tool"
    <3>1. F[i + 1] = Append(p, m)
      BY <2>2, <2>3, <2>4, <2>6, AppendIsConcat
    <3>. QED
      BY <2>1, <2>2, <2>3, <2>5, <2>6, <3>1, NextMends
  <2>7. CASE m.role # "tool"
    <3>. DEFINE t == p \o r
    <3>1. t \in Seq(Messages) /\ Clean(t) /\ Unanswered(t) = {} /\ r \in Seq(Messages)
      BY <2>3, ResultsClose DEF r
    <3>2. F[i + 1] = Append(t, m)
      <4>1. F[i + 1] = p \o (r \o <<m>>) /\ <<m>> \in Seq(Messages)
        BY <2>2, <2>4, <2>7, SMTT(20)
      <4>2. F[i + 1] = t \o <<m>>
        BY <2>3, <3>1, <4>1, ConcatAssociative
      <4>. QED
        BY <2>2, <3>1, <4>2, AppendIsConcat
    <3>. HIDE DEF t
    <3>3. Mendable(t)
      BY <3>1 DEF Clean
    <3>. QED
      BY <2>1, <2>2, <2>5, <2>7, <3>1, <3>2, <3>3, NextMends
  <2>. QED
    BY <2>6, <2>7
<1>8. /\ F[n] \in Seq(Messages) /\ Clean(F[n]) /\ Unanswered(F[n]) = Unanswered(s)
      /\ s # <<>> => F[n] # <<>>
  <2>. HIDE DEF S
  <2>1. \A i \in 0..n : i \in S
    BY <1>0, <1>6, <1>7, Climb
  <2>2. n \in 0..n /\ (s # <<>> => n > 0)
    BY <1>0, EmptySeq
  <2>. QED
    BY <1>5, <2>1, <2>2 DEF S, Unanswered
<1>. DEFINE u == F[n]
<1>9. /\ u \in Seq(Messages) /\ Clean(u) /\ Repaired(s) = u \o Results(Unanswered(u))
      /\ s # <<>> => u # <<>>
  BY <1>3, <1>5, <1>8
<1>. HIDE DEF u
<1>. QED
  BY <1>9, ResultsClose

\* F leads message by message to those of some roles.
LeadsToThose(F, s, roles) ==
    /\ F \in [0..Len(s) -> Seq(Messages)]
    /\ F[0] = <<>> /\ F[Len(s)] = Those(s, roles)
    /\ \A i \in 1..Len(s) :
          F[i] = IF s[i].role \in roles THEN Append(F[i - 1], s[i]) ELSE F[i - 1]

LEMMA ThoseSteps ==
    ASSUME NEW s \in Seq(Messages), NEW roles
    PROVE  \E F : LeadsToThose(F, s, roles)
<1>. DEFINE n == Len(s)
            q == [k \in DOMAIN s |-> IF s[k].role \in roles THEN <<s[k]>> ELSE <<>>]
<1>0. n \in Nat /\ DOMAIN s = 1..n /\ \A k \in 1..n : s[k] \in Messages
  BY HistoryFacts
<1>1. q \in [1..n -> Seq(Messages)] /\ q \in Seq(Seq(Messages)) /\ Len(q) = n
  <2>1. \A k \in 1..n : <<>> \in Seq(Messages) /\ <<s[k]>> \in Seq(Messages)
    BY <1>0
  <2>. HIDE DEF n
  <2>2. q \in [1..n -> Seq(Messages)]
    BY <1>0, <2>1
  <2>. QED
    BY <1>0, <2>2
<1>2. Those(s, roles) = FlattenSeq(q)
  BY DEF Those
<1>3. \A k \in 1..n : q[k] = IF s[k].role \in roles THEN <<s[k]>> ELSE <<>>
  BY <1>0
<1>. HIDE DEF q
<1>4. PICK F \in [0..n -> Seq(Messages)] :
         /\ F[0] = <<>> /\ F[n] = FlattenSeq(q)
         /\ \A i \in 1..n : F[i] = F[i - 1] \o q[i]
  <2>. HIDE DEF n
  <2>. QED
    BY <1>1, FlattenSteps
<1>5. ASSUME NEW i \in 1..n
      PROVE  F[i] = IF s[i].role \in roles THEN Append(F[i - 1], s[i]) ELSE F[i - 1]
  <2>1. i - 1 \in 0..n /\ F[i - 1] \in Seq(Messages) /\ s[i] \in Messages
    BY <1>0, <1>4
  <2>2. F[i] = F[i - 1] \o q[i]
    BY <1>4
  <2>3. CASE s[i].role \in roles
    BY <1>3, <2>1, <2>2, <2>3, AppendIsConcat
  <2>4. CASE s[i].role \notin roles
    BY <1>3, <2>1, <2>2, <2>4, ConcatEmptySeq
  <2>. QED
    BY <2>3, <2>4
<1>6. F[Len(s)] = Those(s, roles)
  BY <1>2, <1>4
<1>7. LeadsToThose(F, s, roles)
  BY <1>4, <1>5, <1>6 DEF LeadsToThose
<1>. QED
  BY <1>7

\* Without its system messages a history can still be mended.
LEMMA RestMends ==
    ASSUME NEW s \in Seq(Messages), Mendable(s)
    PROVE  LET rest == Those(s, {"user", "assistant", "tool"})
           IN rest \in Seq(Messages) /\ Mendable(rest) /\ (Clean(s) => Clean(rest))
<1>. DEFINE roles == {"user", "assistant", "tool"}
            n == Len(s)
<1>0. n \in Nat /\ DOMAIN s = 1..n /\ \A k \in 1..n : s[k] \in Messages
  BY HistoryFacts
<1>a. PICK F : LeadsToThose(F, s, roles)
  BY ThoseSteps
<1>1. /\ F \in [0..n -> Seq(Messages)]
      /\ F[0] = <<>> /\ F[n] = Those(s, roles)
      /\ \A i \in 1..n : F[i] = IF s[i].role \in roles THEN Append(F[i - 1], s[i]) ELSE F[i - 1]
  BY <1>a DEF LeadsToThose
<1>. DEFINE S == {i \in 0..n : /\ Mendable(F[i]) /\ Waiting(s, i) \subseteq Unanswered(F[i])
                               /\ Clean(s) => Clean(F[i]) /\ Unanswered(F[i]) = Waiting(s, i)}
<1>2. 0 \in S
  <2>1. 0 \in 0..n
    BY <1>0
  <2>. QED
    BY <1>1, <2>1, EmptyFact, NoWait
<1>3. ASSUME NEW i \in 0..n - 1, i \in S PROVE i + 1 \in S
  <2>. DEFINE m == s[i + 1]
              p == F[i]
  <2>1. i + 1 \in 1..n /\ i + 1 \in 0..n /\ i \in 0..n /\ (i + 1) - 1 = i
    BY <1>0
  <2>2. /\ m \in Messages /\ (m.calls # {} => m.role = "assistant")
        /\ m.role = "tool" => m.call \in Waiting(s, i)
        /\ Clean(s) /\ m.role # "tool" => Waiting(s, i) = {}
    BY <1>0, <2>1 DEF Mendable, Clean
  <2>3. /\ p \in Seq(Messages) /\ Mendable(p) /\ Waiting(s, i) \subseteq Unanswered(p)
        /\ Clean(s) => Clean(p) /\ Unanswered(p) = Waiting(s, i)
    BY <1>1, <1>3, <2>1
  <2>4. F[i + 1] = IF m.role \in roles THEN Append(p, m) ELSE p
    BY <1>1, <2>1
  <2>5. Waiting(s, i + 1) = IF m.role = "tool" THEN Waiting(s, i) \ {m.call} ELSE m.calls
    BY <2>1, WaitStep
  <2>. HIDE DEF m, p, n
  <2>6. CASE m.role \in roles
    <3>. DEFINE t == Append(p, m)
    <3>1. /\ t \in Seq(Messages) /\ Mendable(t)
          /\ Unanswered(t) = IF m.role = "tool" THEN Unanswered(p) \ {m.call} ELSE m.calls
          /\ Clean(p) /\ (m.role # "tool" => Unanswered(p) = {}) => Clean(t)
      BY <2>2, <2>3, NextMends
    <3>2. F[i + 1] = t
      BY <2>4, <2>6
    <3>. HIDE DEF t
    <3>. QED
      BY <2>1, <2>2, <2>3, <2>5, <3>1, <3>2
  <2>7. CASE m.role \notin roles
    <3>1. m.role # "tool" /\ m.calls = {} /\ F[i + 1] = p
      BY <2>2, <2>4, <2>7
    <3>. QED
      BY <2>1, <2>2, <2>3, <2>5, <3>1
  <2>. QED
    BY <2>6, <2>7
<1>4. n \in S
  <2>. HIDE DEF S, n
  <2>1. \A i \in 0..n : i \in S
    BY <1>0, <1>2, <1>3, Climb
  <2>2. n \in 0..n
    BY <1>0
  <2>. QED
    BY <2>1, <2>2
<1>. QED
  BY <1>1, <1>4

LEMMA SystemsClean ==
    ASSUME NEW s \in Seq(Messages), Mendable(s)
    PROVE  LET systems == Those(s, {"system"})
           IN systems \in Seq(Messages) /\ Clean(systems) /\ Unanswered(systems) = {}
<1>. DEFINE roles == {"system"}
            n == Len(s)
<1>0. n \in Nat /\ DOMAIN s = 1..n /\ \A k \in 1..n : s[k] \in Messages
  BY HistoryFacts
<1>a. PICK F : LeadsToThose(F, s, roles)
  BY ThoseSteps
<1>1. /\ F \in [0..n -> Seq(Messages)]
      /\ F[0] = <<>> /\ F[n] = Those(s, roles)
      /\ \A i \in 1..n : F[i] = IF s[i].role \in roles THEN Append(F[i - 1], s[i]) ELSE F[i - 1]
  BY <1>a DEF LeadsToThose
<1>. DEFINE S == {i \in 0..n : Clean(F[i]) /\ Unanswered(F[i]) = {}}
<1>2. 0 \in S
  <2>1. 0 \in 0..n
    BY <1>0
  <2>. QED
    BY <1>1, <2>1, EmptyFact
<1>3. ASSUME NEW i \in 0..n - 1, i \in S PROVE i + 1 \in S
  <2>. DEFINE m == s[i + 1]
              p == F[i]
  <2>1. i + 1 \in 1..n /\ i + 1 \in 0..n /\ i \in 0..n /\ (i + 1) - 1 = i
    BY <1>0
  <2>2. m \in Messages /\ (m.calls # {} => m.role = "assistant")
    BY <1>0, <2>1 DEF Mendable
  <2>3. p \in Seq(Messages) /\ Clean(p) /\ Mendable(p) /\ Unanswered(p) = {}
    BY <1>1, <1>3, <2>1 DEF Clean
  <2>4. F[i + 1] = IF m.role \in roles THEN Append(p, m) ELSE p
    BY <1>1, <2>1
  <2>. HIDE DEF m, p, n
  <2>5. CASE m.role = "system"
    <3>1. m.calls = {} /\ m.role # "tool" /\ F[i + 1] = Append(p, m)
      BY <2>2, <2>4, <2>5
    <3>. QED
      BY <2>1, <2>2, <2>3, <3>1, NextMends
  <2>6. CASE m.role # "system"
    BY <2>1, <2>3, <2>4, <2>6
  <2>. QED
    BY <2>5, <2>6
<1>4. n \in S
  <2>. HIDE DEF S, n
  <2>1. \A i \in 0..n : i \in S
    BY <1>0, <1>2, <1>3, Climb
  <2>2. n \in 0..n
    BY <1>0
  <2>. QED
    BY <2>1, <2>2
<1>. QED
  BY <1>1, <1>4

\* A compaction never keeps a result without the call it answers.
LEMMA BoundaryFact ==
    ASSUME NEW s \in Seq(Messages), Mendable(s), Boundary(s) # 0
    PROVE  Boundary(s) \in 1..Len(s) - 1 /\ s[Boundary(s) + 1].role # "tool"
<1>. DEFINE n == Len(s)
            least == Max({1, KeepRecent})
            wanted == Max({0, n - least})
            asked(k) == {j \in 1..k : s[k].call \in s[j].calls}
            held == {k \in wanted + 1..n : s[k].role = "tool" /\ asked(k) # {}}
            cuts == {wanted} \cup {Max(asked(k)) - 1 : k \in held}
            edge == Boundary(s)
<1>0. n \in Nat /\ DOMAIN s = 1..n /\ KeepRecent \in Nat
  BY HistoryFacts, TalkAssumption
<1>1. edge = Min(cuts)
  BY DEF Boundary
<1>2. least \in Nat /\ least >= 1
  <2>. DEFINE two == {1, KeepRecent}
              top == KeepRecent + 1
  <2>1. two \in SUBSET (0..top) /\ top \in Nat /\ two # {} /\ 1 \in two /\ two \in SUBSET Nat
    BY <1>0
  <2>. HIDE DEF two, top
  <2>2. Max(two) \in two /\ \A y \in two : y <= Max(two)
    BY <2>1, Largest
  <2>. QED
    BY <2>1, <2>2 DEF two
<1>. HIDE DEF least
<1>3. wanted \in 0..n /\ (wanted = 0 \/ wanted <= n - 1)
  <2>1. wanted = 0 \/ (wanted = n - least /\ n - least >= 0)
    <3>1. CASE n - least < 0
      <4>. DEFINE d == n - least
      <4>0. d \in Int /\ d < 0
        BY <1>0, <1>2, <3>1
      <4>. HIDE DEF d
      <4>1. \A x \in {0, d} : (\A y \in {0, d} : x >= y) <=> x = 0
        BY <4>0
      <4>2. Max({0, d}) = 0
        BY <4>1 DEF Max
      <4>. QED
        BY <4>2 DEF d, wanted
    <3>2. CASE n - least >= 0
      <4>1. {0, n - least} \in SUBSET (0..n) /\ {0, n - least} # {}
        BY <1>0, <1>2, <3>2
      <4>. QED
        BY <1>0, <3>2, <4>1, Largest
    <3>. QED
      BY <1>0, <1>2, <3>1, <3>2
  <2>. QED
    BY <1>0, <1>2, <2>1
<1>. HIDE DEF wanted
<1>4. ASSUME NEW k \in 1..n, asked(k) # {}
      PROVE  /\ Max(asked(k)) \in 1..k /\ s[k].call \in s[Max(asked(k))].calls
             /\ Max(asked(k)) - 1 \in 0..n
  <2>1. asked(k) \in SUBSET (0..k) /\ k \in Nat
    BY <1>0
  <2>2. Max(asked(k)) \in asked(k)
    <3>. HIDE DEF asked
    <3>. QED
      BY <1>4, <2>1, Largest
  <2>. QED
    BY <1>0, <2>2
<1>5. \A k \in held : k \in 1..n /\ asked(k) # {}
  BY <1>0, <1>3
<1>. HIDE DEF asked
<1>6. cuts \in SUBSET (0..n) /\ cuts # {} /\ wanted \in cuts
  BY <1>3, <1>4, <1>5
<1>7. edge \in cuts /\ \A y \in cuts : edge <= y
  <2>. HIDE DEF cuts, n
  <2>1. Min(cuts) \in cuts /\ \A y \in cuts : Min(cuts) <= y
    BY <1>0, <1>6, Smallest
  <2>. QED
    BY <1>1, <2>1
<1>. HIDE DEF edge
<1>8. edge # 0
  BY DEF edge
<1>9. edge \in 1..n - 1
  <2>. HIDE DEF cuts, n
  <2>1. edge \in 0..n /\ edge <= wanted
    BY <1>6, <1>7
  <2>. QED
    BY <1>0, <1>3, <1>8, <2>1
<1>10. s[edge + 1].role # "tool"
  <2>1. CASE edge = wanted
    <3>. DEFINE k == wanted + 1
    <3>. SUFFICES ASSUME s[k].role = "tool" PROVE FALSE
      BY <2>1
    <3>1. k \in 1..n /\ k - 1 \in Nat /\ k \in wanted + 1..n
      BY <1>0, <1>3, <1>9, <2>1
    <3>2. s[k].call \in Waiting(s, k - 1)
      BY <1>0, <3>1 DEF Mendable
    <3>3. PICK b \in 1..k - 1 : s[k].call \in s[b].calls
      BY <3>2 DEF Waiting
    <3>4. b \in 1..k
      BY <3>1
    <3>5. asked(k) # {}
      BY <3>3, <3>4 DEF asked
    <3>6. k \in held
      BY <3>1, <3>5
    <3>7. Max(asked(k)) \in 1..k /\ s[k].call \in s[Max(asked(k))].calls
      BY <1>4, <3>1, <3>5
    <3>8. Max(asked(k)) # k
      <4>1. s[k].calls = {}
        BY <1>0, <3>1 DEF Mendable
      <4>. QED
        BY <3>7, <4>1
    <3>9. Max(asked(k)) - 1 \in cuts
      BY <3>6
    <3>. QED
      BY <1>0, <1>3, <1>7, <2>1, <3>7, <3>8, <3>9
  <2>2. ASSUME NEW k \in held, edge = Max(asked(k)) - 1 PROVE s[edge + 1].role # "tool"
    <3>. DEFINE j == Max(asked(k))
    <3>1. j \in 1..k /\ s[k].call \in s[j].calls /\ k \in 1..n
      BY <1>4, <1>5
    <3>. HIDE DEF j
    <3>2. j \in DOMAIN s /\ s[j].calls # {}
      BY <1>0, <3>1
    <3>3. s[j].role = "assistant"
      BY <3>2 DEF Mendable
    <3>4. edge + 1 = j
      BY <2>2, <3>1 DEF j
    <3>. QED
      BY <3>3, <3>4
  <2>. QED
    BY <1>7, <2>1, <2>2
<1>. QED
  BY <1>9, <1>10 DEF edge


-----------------------------------------------------------------------------
(* What rewrites a history *)

LEMMA CompactMends ==
    ASSUME NEW s \in Seq(Messages), s # <<>>, Mendable(s)
    PROVE  /\ Compacted(s) \in Seq(Messages) /\ Compacted(s) # <<>> /\ Mendable(Compacted(s))
           /\ Clean(s) => Clean(Compacted(s))
<1>. DEFINE systems == Those(s, {"system"})
            rest == Those(s, {"user", "assistant", "tool"})
            edge == Boundary(rest)
            m == Message("checkpoint")
            p == Append(systems, m)
            w == SubSeq(rest, edge + 1, Len(rest))
<1>1. /\ systems \in Seq(Messages) /\ Clean(systems) /\ Mendable(systems)
      /\ Unanswered(systems) = {}
  BY SystemsClean DEF Clean
<1>2. rest \in Seq(Messages) /\ Mendable(rest) /\ (Clean(s) => Clean(rest)) /\ Len(rest) \in Nat
  BY RestMends
<1>3. m \in Messages /\ m.role # "tool" /\ m.calls = {}
  BY MessageFacts
<1>. HIDE DEF systems, rest, m
<1>4. /\ p \in Seq(Messages) /\ p # <<>> /\ Mendable(p) /\ Unanswered(p) = {} /\ Clean(p)
  BY <1>1, <1>3, NextMends
<1>5. ASSUME edge # 0
      PROVE  w \in Seq(Messages) /\ w # <<>> /\ Mendable(w) /\ (Clean(s) => Clean(w))
  <2>1. edge \in 1..Len(rest) - 1 /\ rest[edge + 1].role # "tool"
    BY <1>2, <1>5, BoundaryFact
  <2>. DEFINE a == edge
  <2>. HIDE DEF a
  <2>2. a \in Nat /\ a \in 1..Len(rest) - 1 /\ rest[a + 1].role # "tool"
    BY <1>2, <2>1 DEF a
  <2>3. w = SubSeq(rest, a + 1, Len(rest))
    BY DEF a
  <2>. HIDE DEF w
  <2>4. w \in Seq(Messages) /\ Len(w) = Len(rest) - a /\ \A k \in 1..Len(w) : w[k] = rest[a + k]
    BY <1>2, <2>2, <2>3, SubSeqProperties
  <2>5. a + Len(w) <= Len(rest) /\ 1 \in 1..Len(w) /\ w # <<>>
    BY <1>2, <2>2, <2>4
  <2>6. w[1].role # "tool"
    BY <2>2, <2>4, <2>5
  <2>7. (Mendable(rest) => Mendable(w)) /\ (Clean(rest) => Clean(w))
    BY <1>2, <2>2, <2>4, <2>5, <2>6, PartMends
  <2>. QED
    BY <1>2, <2>4, <2>5, <2>7
<1>6. CASE Len(rest) <= KeepRecent \/ edge = 0
  BY <1>6 DEF Compacted, rest
<1>7. CASE ~(Len(rest) <= KeepRecent \/ edge = 0)
  <2>1. Compacted(s) = systems \o <<m>> \o w
    BY <1>7 DEF Compacted, systems, rest, m
  <2>2. systems \o <<m>> = p
    BY <1>1, <1>3, AppendIsConcat
  <2>3. w \in Seq(Messages) /\ w # <<>> /\ Mendable(w) /\ (Clean(s) => Clean(w))
    BY <1>5, <1>7
  <2>4. Compacted(s) = p \o w
    BY <2>1, <2>2
  <2>. HIDE DEF p, w
  <2>5. /\ p \o w \in Seq(Messages) /\ Mendable(p \o w)
        /\ Clean(p) /\ Clean(w) /\ (w = <<>> \/ Unanswered(p) = {}) => Clean(p \o w)
    BY <1>4, <2>3, JoinMends
  <2>6. p \o w # <<>>
    BY <1>4, <2>3, ConcatSimplifications
  <2>. QED
    BY <1>4, <2>3, <2>4, <2>5, <2>6
<1>. QED
  BY <1>6, <1>7

LEMMA LoadedMends ==
    ASSUME NEW s \in Seq(Messages), Mendable(s)
    PROVE  Loaded(s) \in Seq(Messages) /\ Loaded(s) # <<>> /\ Mendable(Loaded(s))
<1>. DEFINE m == Message("system")
            p == <<m>>
            w == IF s # <<>> /\ s[1].role = "system" THEN Tail(s) ELSE s
<1>1. m \in Messages /\ m.role # "tool" /\ m.calls = {}
  BY MessageFacts
<1>2. p \in Seq(Messages) /\ p # <<>> /\ Mendable(p)
  BY <1>1, OneFact
<1>3. w \in Seq(Messages) /\ Mendable(w)
  <2>1. CASE s # <<>> /\ s[1].role = "system"
    <3>. DEFINE t == Tail(s)
    <3>1. t \in Seq(Messages) /\ 1 + Len(t) = Len(s) /\ \A k \in 1..Len(t) : s[1 + k] = t[k]
      BY <2>1, HeadTailProperties
    <3>2. 1 \in 1..Len(s) /\ 1 \in DOMAIN s /\ 1 + Len(t) <= Len(s) /\ 1 \in Nat
      BY <2>1, <3>1, EmptySeq, HistoryFacts
    <3>3. s[1].calls = {}
      BY <2>1, <3>2 DEF Mendable
    <3>4. Waiting(s, 1) = {}
      BY <2>1, <3>2, <3>3, WaitStep
    <3>5. w = t
      BY <2>1
    <3>. HIDE DEF t, w
    <3>6. Mendable(t)
      BY <3>1, <3>2, <3>4, PartMends
    <3>. QED
      BY <3>1, <3>5, <3>6
  <2>2. CASE ~(s # <<>> /\ s[1].role = "system")
    BY <2>2
  <2>. QED
    BY <2>1, <2>2
<1>4. Loaded(s) = p \o w
  BY DEF Loaded
<1>. HIDE DEF p, w
<1>5. p \o w # <<>>
  BY <1>2, <1>3, ConcatSimplifications
<1>. QED
  BY <1>2, <1>3, <1>4, <1>5, JoinMends

\* The beginning of a history
LEMMA StartMends ==
    ASSUME NEW s \in Seq(Messages), NEW n \in 0..Len(s)
    PROVE  LET t == SubSeq(s, 1, n)
           IN /\ t \in Seq(Messages) /\ Len(t) = n /\ \A k \in 1..n : t[k] = s[k]
              /\ \A k \in 0..n : Waiting(t, k) = Waiting(s, k)
              /\ Mendable(s) => Mendable(t)
<1>. DEFINE t == SubSeq(s, 1, n)
<1>1. t \in Seq(Messages) /\ Len(t) = n /\ \A k \in 1..n : t[k] = s[k]
  OBVIOUS
<1>. HIDE DEF t
<1>2. \A k \in 0..n : Waiting(t, k) = Waiting(s, k)
  <2>. SUFFICES ASSUME NEW k \in 0..n PROVE Waiting(t, k) = Waiting(s, k)
    OBVIOUS
  <2>1. k \in Nat /\ \A j \in 1..k : t[j] = s[j]
    BY <1>1
  <2>. QED
    BY <2>1, SameStart
<1>3. Mendable(s) => Mendable(t)
  <2>1. /\ 0 \in Nat /\ 0 + Len(t) <= Len(s) /\ \A k \in 1..Len(t) : s[0 + k] = t[k]
    BY <1>1
  <2>. QED
    BY <1>1, <2>1, NoWait, PartMends
<1>. QED
  BY <1>1, <1>2, <1>3 DEF t

LEMMA KeepFacts ==
    ASSUME NEW s \in Seq(Messages), NEW keep \in 0..Len(s)
    PROVE  LET n == KeepThrough(s, keep)
           IN /\ n \in 0..Len(s)
              /\ n < Len(s) => ~(s[n + 1].role = "tool" /\ s[n + 1].call \in Waiting(s, n))
<1>. DEFINE T == {n \in keep..Len(s) :
                    \A j \in keep + 1..n : s[j].role = "tool" /\ s[j].call \in Waiting(s, j - 1)}
            n == KeepThrough(s, keep)
<1>0. Len(s) \in Nat
  OBVIOUS
<1>1. T \in SUBSET (0..Len(s)) /\ keep \in T
  BY <1>0
<1>2. n = Max(T)
  BY DEF KeepThrough
<1>. HIDE DEF n
<1>3. n \in T /\ \A y \in T : y <= n
  <2>. HIDE DEF T
  <2>. QED
    BY <1>0, <1>1, <1>2, Largest
<1>4. ASSUME n < Len(s), s[n + 1].role = "tool", s[n + 1].call \in Waiting(s, n) PROVE FALSE
  <2>1. n \in Nat /\ (n + 1) - 1 = n
    BY <1>3
  <2>2. \A j \in keep + 1..n + 1 : j \in keep + 1..n \/ j = n + 1
    BY <2>1
  <2>3. \A j \in keep + 1..n : s[j].role = "tool" /\ s[j].call \in Waiting(s, j - 1)
    BY <1>3
  <2>4. \A j \in keep + 1..n + 1 : s[j].role = "tool" /\ s[j].call \in Waiting(s, j - 1)
    BY <1>4, <2>1, <2>2, <2>3
  <2>5. n + 1 \in keep..Len(s)
    BY <1>0, <1>3, <1>4
  <2>6. n + 1 \in T
    BY <2>4, <2>5
  <2>. QED
    BY <1>3, <2>1, <2>6
<1>. QED
  BY <1>0, <1>1, <1>3, <1>4 DEF n

\* What is clean and waits for nothing is accepted.
LEMMA ValidFact ==
    ASSUME NEW s \in Seq(Messages), Clean(s), Unanswered(s) = {}
    PROVE  ValidProtocol(s)
BY DEF ValidProtocol, Clean, Mendable

\* A cut of a complete history is complete.
LEMMA CutMends ==
    ASSUME NEW s \in Seq(Messages), NEW keep \in 0..Len(s)
    PROVE  /\ CutAt(s, keep) \in Seq(Messages)
           /\ Mendable(s) => Mendable(CutAt(s, keep))
           /\ ValidProtocol(s) => ValidProtocol(CutAt(s, keep))
<1>. DEFINE n == KeepThrough(s, keep)
            t == SubSeq(s, 1, n)
<1>1. /\ n \in 0..Len(s)
      /\ n < Len(s) => ~(s[n + 1].role = "tool" /\ s[n + 1].call \in Waiting(s, n))
  BY KeepFacts
<1>2. CutAt(s, keep) = t
  BY DEF CutAt
<1>. HIDE DEF n
<1>3. /\ t \in Seq(Messages) /\ Len(t) = n /\ \A k \in 1..n : t[k] = s[k]
      /\ \A k \in 0..n : Waiting(t, k) = Waiting(s, k)
      /\ Mendable(s) => Mendable(t)
  BY <1>1, StartMends
<1>4. DOMAIN s = 1..Len(s) /\ Len(s) \in Nat /\ DOMAIN t = 1..n
  BY <1>3, HistoryFacts
<1>. HIDE DEF t
<1>5. ASSUME ValidProtocol(s) PROVE ValidProtocol(t)
  <2>1. ASSUME NEW k \in DOMAIN t
        PROVE  IF t[k].role = "tool" THEN t[k].call \in Waiting(t, k - 1)
               ELSE Waiting(t, k - 1) = {} /\ (t[k].calls # {} => t[k].role = "assistant")
    <3>1. k \in DOMAIN s /\ k - 1 \in 0..n /\ k \in 1..n
      BY <1>1, <1>4
    <3>2. t[k] = s[k] /\ Waiting(t, k - 1) = Waiting(s, k - 1)
      BY <1>3, <3>1
    <3>. QED
      BY <1>5, <3>1, <3>2 DEF ValidProtocol
  <2>2. Unanswered(t) = Waiting(s, n)
    <3>1. n \in 0..n
      BY <1>1
    <3>. QED
      BY <1>3, <3>1 DEF Unanswered
  <2>3. Waiting(s, n) = {}
    <3>1. CASE n = Len(s)
      BY <1>5, <3>1 DEF ValidProtocol, Unanswered
    <3>2. CASE n # Len(s)
      <4>1. n < Len(s) /\ n + 1 \in DOMAIN s /\ (n + 1) - 1 = n
        BY <1>1, <1>4, <3>2
      <4>2. IF s[n + 1].role = "tool" THEN s[n + 1].call \in Waiting(s, n) ELSE Waiting(s, n) = {}
        BY <1>5, <4>1 DEF ValidProtocol
      <4>. QED
        BY <1>1, <4>1, <4>2
    <3>. QED
      BY <3>1, <3>2
  <2>. QED
    BY <2>1, <2>2, <2>3 DEF ValidProtocol
<1>. QED
  BY <1>2, <1>3, <1>5


-----------------------------------------------------------------------------
(* The actions *)

\* What every action keeps, of the values the variables have after it.
TalkKept ==
    /\ messages' \in Seq(Messages) /\ messages' # <<>> /\ Mendable(messages')
    /\ stored' \in Seq(Messages) /\ Mendable(stored')
    /\ holding' \in BOOLEAN /\ running' \in BOOLEAN
    /\ running' => holding' /\ Clean(messages')

LEMMA KeptTalks == TalkKept => TalkInv'
BY DEF TalkKept, TalkInv, TalkTypeOK, Mendable, Clean, Waiting

LEMMA AppendTalks ==
    ASSUME TalkInv, NEW m \in Messages, m.role # "tool", m.calls # {} => m.role = "assistant"
    PROVE  LET t == Append(messages, m)
           IN /\ t \in Seq(Messages) /\ t # <<>> /\ Mendable(t) /\ Unanswered(t) = m.calls
              /\ Clean(messages) /\ Unanswered(messages) = {} => Clean(t)
BY NextMends DEF TalkInv, TalkTypeOK

LEMMA MayFacts ==
    ASSUME TalkInv, MayRequest
    PROVE  running /\ holding /\ Clean(messages) /\ Unanswered(messages) = {}
BY DEF TalkInv, TalkTypeOK, MayRequest, ValidProtocol

LEMMA LoadHistoryTalks == TalkInv /\ LoadHistory => TalkKept
BY LoadedMends DEF TalkInv, TalkTypeOK, LoadHistory, TalkKept

LEMMA StartRunTalks == TalkInv /\ StartRun => TalkKept
<1>. SUFFICES ASSUME TalkInv, StartRun PROVE TalkKept
  OBVIOUS
<1>. DEFINE said == Append(messages, Message("user"))
<1>1. Message("user") \in Messages /\ Message("user").role = "user" /\ Message("user").calls = {}
  BY MessageFacts
<1>2. said \in Seq(Messages) /\ said # <<>> /\ Mendable(said)
  BY <1>1, AppendTalks
<1>3. /\ messages' = Repaired(said) /\ stored' \in {stored, said} /\ running' = TRUE
      /\ holding' = holding /\ holding
  BY DEF StartRun
<1>. HIDE DEF said
<1>4. Repaired(said) \in Seq(Messages) /\ Repaired(said) # <<>> /\ Clean(Repaired(said))
  BY <1>2, RepairMends
<1>5. Mendable(messages')
  BY <1>3, <1>4 DEF Clean
<1>. QED
  BY <1>2, <1>3, <1>4, <1>5 DEF TalkInv, TalkTypeOK, TalkKept

LEMMA CompactTalks == TalkInv /\ Compact => TalkKept
BY CompactMends DEF TalkInv, TalkTypeOK, Compact, TalkKept

LEMMA CallTalks == ASSUME TalkInv, NEW ids \in SUBSET CallIds, Call(ids) PROVE TalkKept
<1>1. Asking(ids) \in Messages /\ Asking(ids).role = "assistant"
  BY MessageFacts
<1>2. running /\ holding /\ Clean(messages) /\ Unanswered(messages) = {}
  BY MayFacts DEF Call
<1>3. messages' = Append(messages, Asking(ids)) /\ UNCHANGED <<holding, running, stored>>
  BY DEF Call, Append1
<1>4. messages' \in Seq(Messages) /\ messages' # <<>> /\ Mendable(messages') /\ Clean(messages')
  BY <1>1, <1>2, <1>3, AppendTalks
<1>. QED
  BY <1>2, <1>3, <1>4 DEF TalkInv, TalkTypeOK, TalkKept

LEMMA FinishRoundTalks == TalkInv /\ FinishRound => TalkKept
<1>. SUFFICES ASSUME TalkInv, FinishRound PROVE TalkKept
  OBVIOUS
<1>1. /\ running /\ messages' = messages \o Results(Unanswered(messages))
      /\ stored' \in {stored, messages'} /\ UNCHANGED <<holding, running>>
  BY DEF FinishRound
<1>2. messages \in Seq(Messages) /\ messages # <<>> /\ Clean(messages) /\ Mendable(messages)
  BY <1>1 DEF TalkInv, TalkTypeOK
<1>3. messages' \in Seq(Messages) /\ messages' # <<>> /\ Clean(messages') /\ Mendable(messages')
  BY <1>1, <1>2, ResultsClose
<1>. QED
  BY <1>1, <1>3 DEF TalkInv, TalkTypeOK, TalkKept

LEMMA NudgeTalks == ASSUME TalkInv, NEW role \in {"user", "system"}, Nudge(role) PROVE TalkKept
<1>. DEFINE m == Message("assistant")
            t == Append(messages, m)
            w == Message(role)
<1>1. m \in Messages /\ m.role = "assistant" /\ m.calls = {}
  BY MessageFacts
<1>2. w \in Messages /\ w.role # "tool" /\ w.calls = {}
  BY MessageFacts
<1>3. running /\ holding /\ Clean(messages) /\ Unanswered(messages) = {}
  BY MayFacts DEF Nudge
<1>4. messages' = messages \o <<m, w>> /\ UNCHANGED <<holding, running, stored>>
  BY DEF Nudge
<1>. HIDE DEF m, w
<1>5. t \in Seq(Messages) /\ t # <<>> /\ Mendable(t) /\ Unanswered(t) = {} /\ Clean(t)
  BY <1>1, <1>3, AppendTalks
<1>6. messages' = Append(t, w)
  BY <1>1, <1>2, <1>4 DEF TalkInv, TalkTypeOK
<1>. HIDE DEF t
<1>7. /\ messages' \in Seq(Messages) /\ messages' # <<>> /\ Mendable(messages')
      /\ Clean(messages')
  BY <1>2, <1>5, <1>6, NextMends
<1>. QED
  BY <1>3, <1>4, <1>7 DEF TalkInv, TalkTypeOK, TalkKept

LEMMA AnswerTurnTalks == TalkInv /\ AnswerTurn => TalkKept
<1>. SUFFICES ASSUME TalkInv, AnswerTurn PROVE TalkKept
  OBVIOUS
<1>1. /\ Message("assistant") \in Messages /\ Message("assistant").role = "assistant"
      /\ Message("assistant").calls = {}
  BY MessageFacts
<1>2. /\ messages' = Append(messages, Message("assistant")) /\ stored' = messages'
      /\ running' = FALSE /\ holding' = holding
  BY DEF AnswerTurn, Append1, SaveHistory
<1>3. messages' \in Seq(Messages) /\ messages' # <<>> /\ Mendable(messages')
  BY <1>1, <1>2, AppendTalks
<1>. QED
  BY <1>2, <1>3 DEF TalkInv, TalkTypeOK, TalkKept

LEMMA InterruptTalks == TalkInv /\ Interrupt => TalkKept
BY DEF TalkInv, TalkTypeOK, Interrupt, TalkKept

LEMMA CheckpointTalks == TalkInv /\ Checkpoint => TalkKept
<1>. SUFFICES ASSUME TalkInv, Checkpoint PROVE TalkKept
  OBVIOUS
<1>1. /\ messages' \in {messages, Compacted(messages), SubSeq(messages, 1, 1)}
      /\ stored' = messages' /\ UNCHANGED <<holding, running>> /\ ~running
  BY DEF Checkpoint, SaveHistory
<1>2. messages \in Seq(Messages) /\ messages # <<>> /\ Mendable(messages)
  BY DEF TalkInv, TalkTypeOK
<1>3. messages' \in Seq(Messages) /\ messages' # <<>> /\ Mendable(messages')
  <2>1. CASE messages' = SubSeq(messages, 1, 1)
    <3>1. 1 \in 0..Len(messages)
      BY <1>2, EmptySeq
    <3>2. messages' \in Seq(Messages) /\ Len(messages') = 1 /\ Mendable(messages')
      BY <1>2, <2>1, <3>1, StartMends
    <3>. QED
      BY <3>2
  <2>. QED
    BY <1>1, <1>2, <2>1, CompactMends
<1>. QED
  BY <1>1, <1>3 DEF TalkInv, TalkTypeOK, TalkKept

LEMMA LoseProcessTalks == TalkInv /\ LoseProcess => TalkKept
BY EmptyFact, LoadedMends DEF TalkInv, TalkTypeOK, LoseProcess, TalkKept

LEMMA RewindTalks == ASSUME TalkInv, NEW keep \in 1..MaxLength, Rewind(keep) PROVE TalkKept
<1>1. keep \in 0..Len(stored)
  BY HistoryFacts DEF TalkInv, TalkTypeOK, Rewind
<1>. QED
  BY <1>1, CutMends DEF TalkInv, TalkTypeOK, Rewind, TalkKept

LEMMA ForkTalks == ASSUME TalkInv, NEW keep \in 1..MaxLength, Fork(keep) PROVE TalkKept
<1>1. keep \in 0..Len(stored)
  BY HistoryFacts DEF TalkInv, TalkTypeOK, Fork
<1>. QED
  BY <1>1, CutMends DEF TalkInv, TalkTypeOK, Fork, TalkKept

LEMMA TalkStart == TalkInit => TalkInv
<1>. SUFFICES ASSUME TalkInit PROVE TalkInv
  OBVIOUS
<1>1. /\ Message("system") \in Messages /\ Message("system").role = "system"
      /\ Message("system").calls = {}
  BY MessageFacts
<1>2. messages \in Seq(Messages) /\ messages # <<>> /\ Mendable(messages)
  BY <1>1, OneFact DEF TalkInit
<1>. QED
  BY <1>2, EmptyFact DEF TalkInit, TalkInv, TalkTypeOK

LEMMA TalkKeeps == TalkInv /\ [TalkNext]_talkVars => TalkInv'
<1>. SUFFICES ASSUME TalkInv, [TalkNext]_talkVars PROVE TalkInv'
  OBVIOUS
<1>1. CASE TalkNext
  <2>1. TalkKept
    BY <1>1, LoadHistoryTalks, StartRunTalks, CompactTalks, FinishRoundTalks, AnswerTurnTalks,
       InterruptTalks, CheckpointTalks, LoseProcessTalks, CallTalks, NudgeTalks, RewindTalks,
       ForkTalks DEF TalkNext
  <2>. QED
    BY <2>1, KeptTalks
<1>2. CASE UNCHANGED talkVars
  BY <1>2, KeptTalks DEF talkVars, TalkInv, TalkTypeOK, TalkKept
<1>. QED
  BY <1>1, <1>2

LEMMA TalkWhole == TalkInv => HistoryIsWhole
<1>. SUFFICES ASSUME TalkInv PROVE HistoryIsWhole
  OBVIOUS
<1>1. NeverRefused
  BY ValidFact DEF TalkInv, TalkTypeOK, NeverRefused
<1>2. CutsAreWhole
  <2>1. stored \in Seq(Messages)
    BY DEF TalkInv, TalkTypeOK
  <2>2. \A keep \in 1..Len(stored) : keep \in 0..Len(stored)
    BY <2>1
  <2>. QED
    BY <2>1, <2>2, CutMends DEF CutsAreWhole
<1>. QED
  BY <1>1, <1>2 DEF HistoryIsWhole

\* The stored and the live history can always be mended.
LEMMA TalkInvariant == TalkSpec => []TalkInv
BY TalkStart, TalkKeeps, PTL DEF TalkSpec

\* Whatever is compacted, rewound, forked, interrupted or lost, no request a
\* run makes is refused for its history, and no cut of a complete history
\* leaves a call without its results.
THEOREM HistoriesAreWhole == TalkSpec => []HistoryIsWhole
BY TalkInvariant, TalkWhole, PTL
=============================================================================
