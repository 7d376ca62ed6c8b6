----------------------------- MODULE Verification -----------------------------
(***************************************************************************)
(* The verifier of a task: it identifies the workspace, answers from a     *)
(* pass it remembers for that identity, or runs the planned commands and   *)
(* identifies the workspace again, because somebody may have worked in it  *)
(* meanwhile.  Files are hashed one after the other.  A memo of digests,   *)
(* keyed by the stat signature, answers for files the task did not change. *)
(*                                                                         *)
(* Contents are numbered and do not return.  In the walk a secret, a link  *)
(* or a file over 2 MB counts by its signature alone, as a changed file    *)
(* only a link or a large one does; both forbid remembering.  What cannot  *)
(* be read, or is not reached by the walk, counts as 0.                    *)
(***************************************************************************)
EXTENDS Naturals, FiniteSets

CONSTANTS
    Files,      \* the inputs of a verification: 1..n in the order of the walk
    Changed,    \* those of them the events of the task name as changed
    MaxContent, \* bound: edits of one file
    MaxCalls    \* bound: calls of Verifier.run

ASSUME FilesAssumption ==
    /\ IsFiniteSet(Files) /\ Files = 1..Cardinality(Files)
    /\ Changed \subseteq Files /\ MaxContent \in Nat \ {0} /\ MaxCalls \in Nat

NoDigest == [stamp |-> 0, digest |-> 0]
Statuses == {"passed", "failed", "blocked", "timed_out", "cancelled"}

VARIABLES
    unread,      \* files the walk counts by their signature: secrets, links, large
    large,       \* the changed ones of them that are links or large
    content,     \* bytes of a file
    stamp,       \* st_ino, st_mtime_ns, st_ctime_ns, st_size
    digests,     \* _DIGEST_CACHE
    scan,        \* "idle", "before", "run", "after" or "done"
    scanned,     \* the file the scan is at; past the last one the changed ones follow
    parts,       \* what the walk has put into the digest
    stable,      \* cacheable, of the first scan
    current,     \* identity of the workspace before the commands
    allowed,     \* allow_project_scripts
    passes,      \* _passed: identity, authority and what the pass was earned on
    status,      \* of the VerificationResult
    earned,      \* history: contents the commands of a pass ran on
    truth,       \* history: contents when this call counted them first
    blind,       \* history: files edited without a new stamp
    calls
disk == <<unread, large, content, stamp, blind>>
verificationVars == <<disk, digests, scan, scanned, parts, stable, current,
                      allowed, passes, status, earned, truth, calls>>

Scans == [Files -> 0..MaxContent] \X [Changed -> 0..MaxContent]
Unseen == [f \in Files |-> 0]
Zero  == <<Unseen, [f \in Changed |-> 0]>>

VerificationTypeOK ==
    /\ unread \subseteq Files /\ large \subseteq unread \cap Changed
    /\ {content, stamp, truth, earned, parts} \subseteq [Files -> 0..MaxContent]
    /\ digests \in [Files -> [stamp : 0..MaxContent, digest : 0..MaxContent]]
    /\ scan \in {"idle", "before", "run", "after", "done"}
    /\ scanned \in 1..(Cardinality(Files) + 1) /\ current \in Scans
    /\ {stable, allowed} \subseteq BOOLEAN /\ status \in Statuses \cup {"none"}
    /\ passes \subseteq [id : Scans, allowed : BOOLEAN, on : [Files -> 0..MaxContent]]
    /\ blind \subseteq Files /\ calls \in 0..MaxCalls

VerificationInit ==
    /\ unread \in SUBSET Files /\ large \in SUBSET (unread \cap Changed)
    /\ content = [f \in Files |-> 1] /\ stamp = content
    /\ digests = [f \in Files |-> NoDigest] /\ scan = "idle" /\ scanned = 1 /\ parts = Unseen
    /\ stable = TRUE /\ current = Zero /\ allowed = TRUE /\ passes = {}
    /\ status = "none" /\ earned = Unseen /\ truth = Unseen /\ blind = {}
    /\ calls = 0

-----------------------------------------------------------------------------
(* A verification begins; the events name the changed files. *)
Verify(scripts) ==
    /\ scan \in {"idle", "done"} /\ calls < MaxCalls
    /\ calls' = calls + 1 /\ allowed' = scripts
    /\ scan' = "before" /\ scanned' = 1 /\ parts' = Unseen /\ stable' = TRUE
    /\ status' = "none" /\ current' = Zero /\ truth' = Unseen /\ earned' = Unseen
    /\ UNCHANGED <<disk, digests, passes>>

(* Mutant of Digest: any entry of the path will do.                        *)
AnyDigest(f) == IF digests[f] # NoDigest THEN digests[f].digest ELSE content[f]

(* _file_digest from the memo if it may and the signature is the same.     *)
Digest(f) ==
    IF digests[f].stamp = stamp[f] THEN digests[f].digest ELSE content[f]

Hashed(f, d) == digests' = [digests EXCEPT ![f] = [stamp |-> stamp[f], digest |-> d]]

(* The walk reads a file.  One that cannot be read, or changes while it is *)
(* hashed, leaves nothing behind and makes the scan unfit as a key; one in *)
(* a directory that cannot be listed is passed over in silence.            *)
ScanFile ==
    /\ scan \in {"before", "after"} /\ scanned \in Files
    /\ scanned' = scanned + 1
    /\ \/ /\ scanned \in unread
          /\ parts' = [parts EXCEPT ![scanned] = stamp[scanned]] /\ UNCHANGED digests
          /\ stable' = (stable /\ scan = "after")
       \/ /\ scanned \notin unread
          /\ parts' = [parts EXCEPT ![scanned] = Digest(scanned)]
          /\ Hashed(scanned, Digest(scanned))
          /\ UNCHANGED stable
       \/ UNCHANGED <<parts, digests>> /\ stable' = (stable /\ scan = "after")
       \/ UNCHANGED <<parts, digests, stable>>
    /\ truth' = IF scan = "before" /\ parts'[scanned] # 0
               THEN [truth EXCEPT ![scanned] = content[scanned]] ELSE truth
    /\ UNCHANGED <<disk, scan, current, allowed, passes, status, earned,
                   calls>>

(* After 8192 files or 64 MB the walk ends, and the scan is no key.        *)
StopWalk ==
    /\ scan \in {"before", "after"} /\ scanned \in Files
    /\ scanned' = Cardinality(Files) + 1
    /\ stable' = (stable /\ scan = "after")
    /\ UNCHANGED <<disk, digests, scan, parts, current, allowed, passes, status,
                   earned, truth, calls>>

(* The changed files follow, read without the memo, by their signature if  *)
(* they are links or large, by their name if they cannot be read.          *)
Identity(lost) ==
    <<parts, [f \in Changed |-> IF f \in lost THEN 0
                                  ELSE IF f \in large THEN stamp[f] ELSE content[f]]>>

(* With that the scan ends.                                                *)
EndScan(lost) ==
    LET inFull == Changed \ (large \cup lost)
    IN /\ digests' = [f \in Files |-> IF f \in inFull
                                   THEN [stamp |-> stamp[f], digest |-> content[f]]
                                   ELSE digests[f]]
       /\ stable' = (stable /\ (scan = "after" \/ inFull = Changed))
       /\ parts' = Unseen

Known(id) == {p \in passes : p.id = id /\ p.allowed = allowed}

(* Before the commands: a pass remembered for this very identity and       *)
(* authority is replayed, and only a scan fit as a key may find one.       *)
ScanBefore ==
    /\ scan = "before" /\ scanned \notin Files
    /\ \E lost \in SUBSET Changed : EndScan(lost) /\ current' = Identity(lost)
    /\ truth' = [f \in Files |-> IF f \notin Changed THEN truth[f]
                               ELSE IF current'[2][f] # 0 THEN content[f] ELSE 0]
    /\ \/ /\ stable' /\ Known(current') # {}
          /\ scan' = "done" /\ status' = "passed"
          /\ earned' \in {p.on : p \in Known(current')}
       \/ /\ ~(stable' /\ Known(current') # {})
          /\ scan' = "run" /\ UNCHANGED <<status, earned>>
       \/ scan' = "done" /\ status' = "cancelled" /\ UNCHANGED earned
    /\ UNCHANGED <<disk, scanned, allowed, passes, calls>>

(* The commands run: in a plan of several, the worst of them decides, and  *)
(* a command outside the allow list is not run at all.                     *)
RunCommands ==
    /\ scan = "run"
    /\ \E s \in Statuses :
         /\ status' = s
         /\ IF s = "passed" THEN scan' = "after" /\ scanned' = 1 /\ earned' = content
                            ELSE scan' = "done" /\ UNCHANGED <<scanned, earned>>
    /\ UNCHANGED <<disk, digests, parts, stable, current, allowed, passes, truth,
                   calls>>

(* After a pass the workspace has to be the one before; the pass is        *)
(* remembered if the first scan was fit as a key.                          *)
ScanAfter ==
    /\ scan = "after" /\ scanned \notin Files
    /\ \E lost \in SUBSET Changed :
         /\ EndScan(lost)
         /\ status' \in {IF Identity(lost) = current THEN "passed" ELSE "failed", "cancelled"}
    /\ scan' = "done"
    /\ passes' = IF status' = "passed" /\ stable
                 THEN passes \cup {[id |-> current, allowed |-> allowed, on |-> earned]}
                 ELSE passes
    /\ UNCHANGED <<disk, scanned, current, allowed, earned, truth, calls>>

(* Anybody edits a file.  On a coarse clock a quick rewrite of the same    *)
(* length keeps the signature, and so does one whose time is set back.     *)
EditInput(f) ==
    /\ content[f] < MaxContent
    /\ content' = [content EXCEPT ![f] = @ + 1]
    /\ \/ stamp' = [stamp EXCEPT ![f] = content'[f]] /\ UNCHANGED blind
       \/ UNCHANGED stamp /\ blind' = blind \cup {f}
    /\ UNCHANGED <<unread, large, digests, scan, scanned, parts, stable, current,
                   allowed, passes, status, earned, truth, calls>>

VerificationNext ==
    \/ \E scripts \in BOOLEAN : Verify(scripts)
    \/ ScanFile \/ StopWalk \/ ScanBefore \/ RunCommands \/ ScanAfter
    \/ \E f \in Files : EditInput(f)

VerificationSpec == VerificationInit /\ [][VerificationNext]_verificationVars

-----------------------------------------------------------------------------
(* What the identity of the workspace says of a file: a changed file was   *)
(* read, or counts by a signature that tells; any other was reached by the *)
(* walk, and its signature tells.                                          *)
Vouched(f) ==
    IF f \in Changed THEN current[2][f] # 0 /\ (f \in large => f \notin blind)
                     ELSE current[1][f] # 0 /\ f \notin blind

(* A pass, run or replayed, is of the inputs this very call has counted;   *)
(* one that is remembered or replayed is of the changed files in any case, *)
(* whatever their signature says.                                          *)
PassIsCurrent ==
    scan = "done" /\ status = "passed" =>
        \A f \in Files : Vouched(f) \/ (stable /\ f \in Changed) => earned[f] = truth[f]

-----------------------------------------------------------------------------
(* Contents only grow, and a signature tells them apart where no edit      *)
(* escaped it.                                                             *)
StampTells ==
    \A f \in Files :
        /\ 0 < stamp[f] /\ stamp[f] <= content[f]
        /\ f \notin blind => stamp[f] = content[f]

(* So the memo is right about such a file while its signature is the same. *)
MemoIsRight ==
    \A f \in Files \ blind :
        digests[f] # NoDigest => digests[f].digest = digests[f].stamp

(* A scan has each file as this call read it first, or not at all: the     *)
(* changed ones in their second place.                                     *)
ReadAs(id, on) ==
    /\ \A f \in Changed : id[2][f] # 0 /\ (f \in large => f \notin blind) => id[2][f] = on[f]
    /\ \A f \in Files \ (Changed \cup blind) : id[1][f] # 0 => id[1][f] = on[f]

ScanIsTrue ==
    /\ scan = "before" => \A f \in Files :
         f \notin blind /\ parts[f] # 0 => parts[f] = truth[f]
    /\ scan \in {"run", "after", "done"} => ReadAs(current, truth)
    /\ scan \in {"before", "run", "after"} => \A f \in Files : truth[f] <= content[f]

(* A scan that is fit as a key has read every changed file.                *)
FitIsRead ==
    scan \in {"run", "after", "done"} /\ stable =>
        \A f \in Changed : current[2][f] # 0 /\ f \notin large

(* What the scan has not come to has left nothing in it.                   *)
NotYetRead ==
    \A f \in Files : scan \notin {"before", "after"} \/ f >= scanned => parts[f] = 0

(* The commands ran between the scans, and the second one reads no older   *)
(* file than they did.                                                     *)
RunIsBetween ==
    scan = "after" =>
        /\ \A f \in Files : truth[f] <= earned[f] /\ earned[f] <= content[f]
        /\ \A f \in Files : f \notin blind /\ parts[f] # 0 => earned[f] <= parts[f]

(* A remembered pass was earned on what its identity says.                 *)
PassesAreTrue == \A p \in passes : ReadAs(p.id, p.on)

VerificationInv ==
    /\ VerificationTypeOK /\ StampTells /\ MemoIsRight /\ ScanIsTrue
    /\ FitIsRead /\ NotYetRead /\ RunIsBetween /\ PassesAreTrue /\ PassIsCurrent
=============================================================================
