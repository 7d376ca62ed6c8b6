--------------------------- MODULE WorkspaceRollback ---------------------------
(***************************************************************************)
(* One file of a workspace, the snapshot of the task that edits it, the    *)
(* journal its editors share, and the restore that undoes the task         *)
(* (snapshots.py).  The user edits the file at any time, also between the  *)
(* comparison of a digest and the write it permits.                        *)
(*                                                                         *)
(* Contents are numbered as they are made; a digest is the content it was  *)
(* taken of.  An editor has one file in hand: a move is two.               *)
(***************************************************************************)
EXTENDS Naturals

CONSTANTS
    Editors,       \* tool calls of the task, in threads of their own
    MaxContents    \* bound: contents made

ASSUME ContentsAssumption == MaxContents \in Nat \ {0}

Absent == 0
Pending == MaxContents + 1     \* touched, not confirmed
Untouched == MaxContents + 2

VARIABLES
    file,          \* content of the file
    contents,      \* contents made so far
    active,        \* the task runs (has_active)
    snapshot,      \* whether manifest.json is there: "none", "bare", "journal"
    listed,        \* where the manifest lists the file: "no", "files",
                   \*     "missing", "skipped"
    image,         \* the preimage kept
    touched,       \* the journal's record of it
    editPc,        \* where each editor is
    restoring,     \* a restore has passed its comparison
    mine,          \* history: what the user left in the file last
    excuse         \* history: what the user's content was exposed to

manifest == <<snapshot, listed, image, touched>>
rollVars == <<file, contents, active, manifest, editPc, restoring, mine, excuse>>

RollTypeOK ==
    /\ contents \in 0..MaxContents /\ {file, image, mine} \subseteq 0..contents
    /\ active \in BOOLEAN /\ restoring \in BOOLEAN
    /\ snapshot \in {"none", "bare", "journal"}
    /\ listed \in {"no", "files", "missing", "skipped"}
    /\ touched \in {Untouched, Pending} \cup 0..contents
    /\ editPc \in [Editors -> {"idle", "checked", "replaced"}]
    /\ excuse \in {"none", "raced", "unjournaled"}

RollInit ==
    /\ contents = 1 /\ file \in {Absent, contents} /\ mine = file
    /\ active = FALSE /\ snapshot = "none" /\ listed = "no" /\ image = Absent
    /\ touched = Untouched
    /\ editPc = [e \in Editors |-> "idle"] /\ restoring = FALSE /\ excuse = "none"

Idle == ~restoring /\ \A e \in Editors : editPc[e] = "idle"
Put(c) == file' = c /\ contents' = IF c = Absent THEN contents ELSE c
Fresh == {Absent} \cup {c \in {contents + 1} : c <= MaxContents}

-----------------------------------------------------------------------------
(* _run: a writing task captures what git calls dirty, once.  A file it    *)
(* cannot copy is skipped.                                                 *)
Capture(dirty) ==
    /\ ~active /\ Idle /\ active' = TRUE
    /\ IF snapshot # "none" THEN UNCHANGED manifest
       ELSE /\ snapshot' = "bare" /\ UNCHANGED touched
            /\ listed' \in CASE ~dirty -> {"no"}
                             [] dirty /\ file = Absent -> {"missing"}
                             [] dirty /\ file # Absent -> {"files", "skipped"}
            /\ image' = IF listed' = "files" THEN file ELSE Absent
    /\ UNCHANGED <<file, contents, editPc, restoring, mine, excuse>>

(* _chat_locked makes the journal, after it has waited for its session. *)
OpenJournal ==
    /\ active /\ snapshot = "bare" /\ snapshot' = "journal"
    /\ UNCHANGED <<file, contents, active, listed, image, touched, editPc, restoring, mine,
                   excuse>>

(* Mutant of AsExpected: a file that was missing may have been created.    *)
MissingTrusted ==
    IF touched # Untouched THEN touched = file
    ELSE listed = "files" => file = image

(* before_write lets a write through only on a file that is as the task    *)
(* left it, or as the snapshot has it.                                     *)
AsExpected ==
    IF touched # Untouched THEN touched = file
    ELSE /\ listed = "files" => file = image
         /\ listed = "missing" => file = Absent

BeforeWrite(e) ==
    /\ active /\ snapshot = "journal" /\ editPc[e] = "idle"
    /\ listed # "skipped" /\ AsExpected
    /\ touched' = Pending
    /\ IF listed # "no" THEN UNCHANGED <<listed, image>>
       ELSE /\ listed' = IF file = Absent THEN "missing" ELSE "files"
            /\ image' = file
    /\ editPc' = [editPc EXCEPT ![e] = "checked"]
    /\ UNCHANGED <<file, contents, active, snapshot, restoring, mine, excuse>>

Replace(e, c) ==
    /\ editPc[e] = "checked" /\ Put(c)
    /\ editPc' = [editPc EXCEPT ![e] = "replaced"]
    /\ UNCHANGED <<active, manifest, restoring, mine, excuse>>

(* The write failed: nobody takes the mark back. *)
WriteFails(e) ==
    /\ editPc[e] = "checked" /\ editPc' = [editPc EXCEPT ![e] = "idle"]
    /\ UNCHANGED <<file, contents, active, manifest, restoring, mine, excuse>>

AfterWrite(e) ==
    /\ editPc[e] = "replaced" /\ editPc' = [editPc EXCEPT ![e] = "idle"]
    /\ touched' = file
    /\ UNCHANGED <<file, contents, active, snapshot, listed, image, restoring, mine,
                   excuse>>

TaskEnd ==
    /\ active /\ Idle /\ active' = FALSE
    /\ UNCHANGED <<file, contents, manifest, editPc, restoring, mine, excuse>>

(* The user's editor saves, or the user deletes the file. *)
UserEdits(c) ==
    /\ c # file /\ Put(c) /\ mine' = c
    /\ excuse' = IF Idle THEN excuse ELSE "raced"
    /\ UNCHANGED <<active, manifest, editPc, restoring>>

(* restore: with a journal it goes over the files touched, and leaves one  *)
(* that is not as the task left it; without one over all that were copied. *)
Eligible ==
    IF snapshot = "journal"
    THEN touched = file /\ listed \in {"files", "missing"}
    ELSE snapshot = "bare" /\ listed = "files"

StartRestore ==
    /\ ~active /\ Idle /\ Eligible /\ restoring' = TRUE
    /\ UNCHANGED <<file, contents, active, manifest, editPc, mine, excuse>>

(* The preimage is put back, or the task's file removed. *)
PutBack ==
    /\ file' = image
    /\ excuse' = IF snapshot = "bare" /\ excuse = "none" THEN "unjournaled" ELSE excuse

FinishRestore ==
    /\ restoring /\ restoring' = FALSE
    /\ PutBack
    /\ touched' = IF snapshot = "journal" THEN image ELSE touched
    /\ UNCHANGED <<contents, active, snapshot, listed, image, editPc, mine>>

(* The process dies, perhaps after the file was put back and before the    *)
(* manifest says so; only files are left.                                  *)
Crash ==
    /\ editPc' = [e \in Editors |-> "idle"] /\ restoring' = FALSE /\ active' = FALSE
    /\ \/ UNCHANGED <<file, excuse>>
       \/ restoring /\ PutBack
    /\ UNCHANGED <<contents, manifest, mine>>

RollNext ==
    \/ OpenJournal \/ TaskEnd \/ Crash \/ StartRestore \/ FinishRestore
    \/ \E dirty \in BOOLEAN : Capture(dirty)
    \/ \E e \in Editors :
          BeforeWrite(e) \/ WriteFails(e) \/ AfterWrite(e)
          \/ \E c \in Fresh : Replace(e, c)
    \/ \E c \in Fresh : UserEdits(c)

RollSpec == RollInit /\ [][RollNext]_rollVars

-----------------------------------------------------------------------------
Safe == mine \in {Absent, file, image}

(* What the user saved last is in the file or in the preimage a restore    *)
(* puts back, whatever tasks, restores, failed writes and crashes follow:  *)
(* unless the user saved between a comparison and the record of the write  *)
(* it permits, or the snapshot never got its journal.                      *)
UserWorkKept == excuse = "none" => Safe

(* The promise of restore, "without overwriting later user edits", for     *)
(* every snapshot a task of this version leaves.                           *)
RestoreSparesEdits == excuse # "raced" => Safe

(* What makes the former inductive.  The manifest agrees with itself: what *)
(* is touched is listed with its preimage, and only the journal touches.   *)
ManifestAgrees ==
    /\ snapshot # "journal" => touched = Untouched
    /\ snapshot = "none" => listed = "no"
    /\ touched # Untouched => listed \in {"files", "missing"}
    /\ listed # "files" => image = Absent
    /\ restoring /\ snapshot = "journal" => touched # Untouched

(* The record "touched, not confirmed" is the lock of the file: one editor *)
(* at a time is between its comparison and its record, and no restore is   *)
(* under way then (before_write).                                          *)
OneAtWork ==
    /\ \A e \in Editors : editPc[e] # "idle" =>
          /\ active /\ touched = Pending
          /\ \A d \in Editors : editPc[d] # "idle" => d = e
    /\ restoring => ~active /\ snapshot # "none"

(* While somebody may write over the file, or will be let to, what the     *)
(* user saved last is in the preimage.                                     *)
InPreimage == mine \in {Absent, image}
PreimageHasWork ==
    excuse = "none" =>
        /\ Safe
        /\ touched = file => InPreimage
        /\ restoring /\ snapshot = "journal" => InPreimage
        /\ \A e \in Editors : editPc[e] # "idle" => InPreimage

(* The inductive invariant: what a restore would put back over the file is *)
(* never older than what the user saved last (SnapshotJournal, restore).   *)
RollInv == RollTypeOK /\ ManifestAgrees /\ OneAtWork /\ PreimageHasWork
=============================================================================
