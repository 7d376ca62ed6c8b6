----------------------------- MODULE GuardedEdits -----------------------------
(***************************************************************************)
(* The editor's view of one file that the user edits as well.  A read      *)
(* shows lines and then hands out a digest it computes from a second look; *)
(* a write may carry that digest and is refused when the file has another. *)
(* What a write replaces is copied to the backups first, and the oldest    *)
(* backups go once there are too many.  A digest is the content itself.    *)
(***************************************************************************)
EXTENDS Naturals, Sequences, SequencesExt

CONSTANTS
    MaxCopies,   \* MAX_BACKUP_FILES
    MaxEditions  \* bound: contents of the file ever made

NoFile == 0
Free   == MaxEditions + 1   \* no expected_digest was passed

ASSUME CopiesAssumption == MaxCopies \in Nat \ {0} /\ MaxEditions \in Nat \ {0}

VARIABLES
    onDisk,       \* content of the file, 0 if there is none
    editions,     \* contents made so far
    editStep,     \* "idle", "reading", "checked", "copied" or "written"
    editKind,     \* "write", "edit" or "delete"; a move deletes here
    expected,     \* expected_digest of the call
    linesSeen,    \* content whose lines the model saw last
    given,        \* digest it was handed last
    copies,       \* the backups, oldest first
    editVerdict,  \* how the last call ended
    replaced,     \* history: what the last write replaced
    seenBefore,   \* history: what the model had seen of it
    raced         \* history: the user edited between two looks of one call

editVars == <<onDisk, editions, editStep, editKind, expected, linesSeen, given, copies,
              editVerdict, replaced, seenBefore, raced>>

Editions == 0..MaxEditions
EditTypeOK ==
    /\ {onDisk, editions, linesSeen, given, replaced, seenBefore} \subseteq Editions
    /\ editStep \in {"idle", "reading", "checked", "copied", "written"}
    /\ editKind \in {"write", "edit", "delete"} /\ expected \in 0..Free
    /\ raced \in BOOLEAN /\ copies \in Seq(Editions) /\ Len(copies) <= MaxCopies
    /\ editVerdict \in {"none", "ok", "refused", "error"}

EditInit ==
    /\ onDisk \in {NoFile, 1} /\ editions = 1 /\ editStep = "idle" /\ editKind = "write"
    /\ expected = Free /\ linesSeen = 0 /\ given = 0 /\ copies = <<>>
    /\ editVerdict = "none" /\ replaced = 0 /\ seenBefore = 0 /\ raced = FALSE

-----------------------------------------------------------------------------
(* read_file: the window of lines, ... *)
ReadLines ==
    /\ editStep = "idle" /\ onDisk # NoFile
    /\ editStep' = "reading" /\ linesSeen' = onDisk
    /\ raced' = FALSE /\ editVerdict' = "none"
    /\ UNCHANGED <<onDisk, editions, editKind, expected, given, copies, replaced,
                   seenBefore>>

(* ... and then file_digest, which reads the file again. *)
ReadDigest ==
    /\ editStep = "reading" /\ editStep' = "idle" /\ given' = onDisk
    /\ editVerdict' = "ok"
    /\ UNCHANGED <<onDisk, editions, editKind, expected, linesSeen, copies,
                   replaced, seenBefore, raced>>

RefuseEdit(how) ==
    /\ editStep' = "idle" /\ editVerdict' = how /\ UNCHANGED seenBefore

(* _check_expected_digest: without a digest anything goes.                 *)
DigestFits(digest) == digest \in {Free, onDisk}

(* write_file, apply_edit, delete and move up to the comparison and the    *)
(* anchor.  The tools pass an empty digest on as none.                     *)
BeginEdit(what, digest) ==
    /\ editStep = "idle" /\ what = "delete" => digest = Free
    /\ editKind' = what /\ expected' = digest /\ raced' = FALSE
    /\ \/ what # "write" /\ onDisk = NoFile /\ RefuseEdit("error")
       \/ /\ what = "write" \/ onDisk # NoFile
          /\ ~DigestFits(digest) /\ RefuseEdit("refused")
       \/ what = "edit" /\ onDisk # NoFile /\ DigestFits(digest) /\ RefuseEdit("error")
       \/ /\ what = "write" \/ onDisk # NoFile
          /\ DigestFits(digest) /\ editStep' = "checked" /\ editVerdict' = "none"
          /\ seenBefore' = linesSeen
    /\ UNCHANGED <<onDisk, editions, linesSeen, given, copies, replaced>>

(* Mutant of Pruned: a copy keeps the time of its source, so the copy of   *)
(* an old file is the first to go.                                         *)
SourceTimes(seq) ==
    IF Len(seq) > MaxCopies THEN SelectSeq(seq, LAMBDA c : \E d \in ToSet(seq) : d < c)
                            ELSE seq

(* _prune_backups: the oldest go; failures are swallowed elsewhere.        *)
Pruned(seq) ==
    IF Len(seq) > MaxCopies THEN SubSeq(seq, Len(seq) - MaxCopies + 1, Len(seq)) ELSE seq

(* A file that is there is copied; without a copy nothing is written.      *)
Copy ==
    /\ editStep = "checked"
    /\ \/ /\ onDisk = NoFile /\ editStep' = "copied" /\ UNCHANGED <<copies, editVerdict>>
       \/ /\ onDisk # NoFile /\ editStep' = "copied" /\ UNCHANGED editVerdict
          /\ copies' = Pruned(Append(copies, onDisk))
       \/ /\ onDisk # NoFile /\ editStep' = "idle" /\ editVerdict' = "error"
          /\ UNCHANGED copies
    /\ UNCHANGED <<onDisk, editions, editKind, expected, linesSeen, given, replaced,
                   seenBefore, raced>>

(* _atomic_write: all of it or nothing.                                    *)
WriteFile ==
    /\ editStep = "copied"
    /\ \/ /\ \/ editKind = "delete" /\ onDisk' = NoFile /\ UNCHANGED editions
             \/ /\ editKind # "delete" /\ editions < MaxEditions
                /\ editions' = editions + 1 /\ onDisk' = editions'
          /\ editStep' = "written" /\ replaced' = onDisk /\ UNCHANGED editVerdict
       \/ /\ editStep' = "idle" /\ editVerdict' = "error"
          /\ UNCHANGED <<editions, onDisk, replaced>>
    /\ UNCHANGED <<editKind, expected, linesSeen, given, copies, seenBefore, raced>>

(* The audit line, without which the call fails although it has written;   *)
(* then the model is handed the digest of what it reads back.              *)
Report ==
    /\ editStep = "written" /\ editStep' = "idle"
    /\ \/ /\ editVerdict' = "ok"
          /\ IF editKind = "delete" THEN UNCHANGED <<given, linesSeen>>
                               ELSE given' = onDisk /\ linesSeen' = editions
       \/ editVerdict' = "error" /\ UNCHANGED <<given, linesSeen>>
    /\ UNCHANGED <<onDisk, editions, editKind, expected, copies, replaced,
                   seenBefore, raced>>

UserSaves ==
    /\ editions < MaxEditions /\ editions' = editions + 1 /\ onDisk' = editions'
    /\ raced' = (raced \/ editStep # "idle")
    /\ UNCHANGED <<editStep, editKind, expected, linesSeen, given, copies,
                   editVerdict, replaced, seenBefore>>

EditNext ==
    \/ ReadLines \/ ReadDigest \/ Copy \/ WriteFile \/ Report \/ UserSaves
    \/ \E what \in {"write", "edit", "delete"}, digest \in {given, Free} \ {NoFile} :
           BeginEdit(what, digest)

-----------------------------------------------------------------------------
(* What a write replaces is in the backups; and a write with a digest that *)
(* is of the lines the model saw replaces nothing else.  Both as far as    *)
(* the user did not edit between two looks of this very call.              *)
ReplacedIsKept ==
    editStep = "written" /\ ~raced =>
        /\ replaced # NoFile => replaced \in ToSet(copies)
        /\ expected = seenBefore => replaced = seenBefore

-----------------------------------------------------------------------------
EditSpec == EditInit /\ [][EditNext]_editVars

(* A call that is past its comparison expects the file as it is, and once  *)
(* it has copied, the file is in the backups; unless the user was quicker. *)
CopyComesFirst ==
    ~raced =>
        /\ editStep \in {"checked", "copied"} => DigestFits(expected)
        /\ editStep = "copied" /\ onDisk # NoFile => onDisk \in ToSet(copies)

EditInv == EditTypeOK /\ CopyComesFirst /\ ReplacedIsKept
=============================================================================
