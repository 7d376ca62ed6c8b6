----------------------------- MODULE ChangeSummary -----------------------------
(***************************************************************************)
(* The panel that says what changed in a workspace.  A request asks git    *)
(* for the changed files, adds what the audit trail names, takes their     *)
(* signatures and HEAD for a fingerprint, and answers from the cache or    *)
(* counts lines against HEAD.  People and the agent work on meanwhile, and *)
(* each call of git, each stat and each read of a file may fail: what it   *)
(* would have told is then missing, and nothing says so.                   *)
(* The count of a file is the pair of contents it compares.                *)
(***************************************************************************)
EXTENDS Naturals, Sequences, FiniteSets

CONSTANTS
    Tracked,    \* files by number that git may track, ...
    Ignored,    \* ... and those it ignores
    Commits,    \* contents of tracked files by commit, 0 for no file; the first is unborn
    MaxShown,   \* _MAX_FILES
    MaxSaves,   \* bound: saves of one file
    MaxMoves    \* bound: moves of HEAD

ASSUME SummaryAssumption ==
    /\ Commits \in Seq([Tracked -> 0..MaxSaves]) /\ Commits # <<>>
    /\ \A f \in Tracked : Commits[1][f] = 0
    /\ MaxSaves \in Nat \ {0} /\ MaxMoves \in Nat

AllFiles == Tracked \cup Ignored

VARIABLES
    head,       \* index into Commits; 1 if there is no commit yet
    work,       \* contents of the files
    time,       \* st_mtime_ns, st_ctime_ns, st_size
    audited,    \* files the audit trail names in its window
    phase,      \* "idle", "sign", "head", "count" or "answered"
    list,       \* status records: raw by file, "-" when it is not listed
    times,      \* signature of the listed files
    fromHead,       \* HEAD of the fingerprint
    saved,      \* _SUMMARY_CACHE: fingerprint and counts
    counts,     \* what is answered
    moves,
    quiet,      \* history: nobody touched the workspace since the request came
    straddled,  \* history: HEAD moved since the fingerprint was taken
    troubled,   \* history: the list, a signature or HEAD was not what git and the files say
    spoilt      \* history: the cached counts were taken across a move of HEAD, or of a
                \* file that was gone when signed and back when counted, or lack one
repository == <<head, work, time, audited>>
summaryVars == <<repository, phase, list, times, fromHead, saved, counts, moves, quiet, straddled,
                 troubled, spoilt>>

Raws  == {"-", "??", "M", "D", "audit"}
Count == [from : 0..MaxSaves, to : 0..MaxSaves]
Nil   == [from |-> 0, to |-> 0]
Fingerprints == [base : DOMAIN Commits, raws : [AllFiles -> Raws], times : [AllFiles -> 0..MaxSaves]]

SummaryTypeOK ==
    /\ head \in DOMAIN Commits /\ {work, time, times} \subseteq [AllFiles -> 0..MaxSaves]
    /\ audited \subseteq AllFiles /\ phase \in {"idle", "sign", "head", "count", "answered"}
    /\ list \in [AllFiles -> Raws] /\ fromHead \in DOMAIN Commits /\ moves \in 0..MaxMoves
    /\ saved.known \in BOOLEAN /\ saved.print \in Fingerprints
    /\ {counts, saved.counts} \subseteq [AllFiles -> Count]
    /\ {quiet, straddled, troubled, spoilt} \subseteq BOOLEAN

Unlisted == [f \in AllFiles |-> "-"]
NoTimes  == [f \in AllFiles |-> 0]
NoCounts == [f \in AllFiles |-> Nil]

SummaryInit ==
    /\ head \in DOMAIN Commits /\ moves = 0
    /\ work = [f \in AllFiles |-> IF f \in Tracked THEN Commits[head][f] ELSE 1]
    /\ time = work /\ audited = {} /\ phase = "idle" /\ list = Unlisted /\ times = NoTimes
    /\ fromHead = 1 /\ counts = NoCounts
    /\ saved = [known |-> FALSE, print |-> [base |-> 1, raws |-> list, times |-> times],
                counts |-> counts]
    /\ quiet = TRUE /\ straddled = FALSE /\ troubled = FALSE /\ spoilt = FALSE

-----------------------------------------------------------------------------
(* git status, if it works, and what it does not report of the files that  *)
(* the audit trail names.                                                  *)
Raw(f, works, names) ==
    IF works /\ f \in Tracked /\ Commits[head][f] # work[f]
    THEN CASE Commits[head][f] = 0 -> "??"
           [] work[f] = 0 -> "D"
           [] Commits[head][f] # 0 /\ work[f] # 0 -> "M"
    ELSE IF f \in names /\ work[f] # 0 THEN "audit" ELSE "-"
TrueRaw(f) == Raw(f, TRUE, audited)

Status ==
    /\ phase \in {"idle", "answered"} /\ phase' = "sign"
    /\ \E works \in BOOLEAN, names \in {audited, {}} :
         list' = [f \in AllFiles |-> Raw(f, works, names)]
    /\ quiet' = TRUE /\ troubled' = (\E f \in AllFiles : list'[f] # TrueRaw(f))
    /\ UNCHANGED <<repository, times, fromHead, saved, counts, moves, straddled, spoilt>>

Listed == {f \in AllFiles : list[f] # "-"}

(* Mutant of Signed: the files that are shown, the first of them. *)
Shown == {f \in Listed : Cardinality({g \in Listed : g < f}) < MaxShown}

(* Every listed file is, whether it is shown or not. *)
Signed == Listed

(* A file that is gone has no signature, nor has one whose stat fails. *)
Sign ==
    /\ phase = "sign" /\ phase' = "head"
    /\ \E lost \in SUBSET {f \in Signed : work[f] # 0} :
         /\ times' = [f \in AllFiles |-> IF f \in Signed \ lost /\ work[f] # 0 THEN time[f] ELSE 0]
         /\ troubled' = (troubled \/ lost # {})
    /\ UNCHANGED <<repository, list, fromHead, saved, counts, moves, quiet, straddled, spoilt>>

Fingerprint(h) ==
    [base |-> h, raws |-> [f \in AllFiles |-> IF f \in Signed THEN list[f] ELSE "-"],
     times |-> times]

Forget == list' = Unlisted /\ times' = NoTimes /\ fromHead' = 1

(* rev-parse HEAD, which fails as if there were no commit, and the cache.  *)
LookUp ==
    /\ phase = "head"
    /\ \E base \in {head, 1} :
         /\ IF saved.known /\ saved.print = Fingerprint(base)
            THEN /\ phase' = "answered" /\ counts' = saved.counts /\ Forget
            ELSE /\ phase' = "count" /\ fromHead' = base /\ UNCHANGED <<counts, list, times>>
         /\ troubled' = (troubled \/ base # head)
    /\ UNCHANGED <<repository, saved, moves, quiet, straddled, spoilt>>

(* numstat against HEAD for tracked files, the text of untracked ones; and *)
(* all of them by text when there is no HEAD.  Where numstat fails, what   *)
(* is staged takes its place, here nothing.                                *)
Counted(f, numbered, locked) ==
    IF list[f] = "-" THEN Nil
    ELSE IF (list[f] = "??" \/ fromHead = 1) /\ f \notin locked
    THEN [from |-> 0, to |-> work[f]]
    ELSE IF numbered /\ list[f] # "??" /\ f \in Tracked /\ Commits[head][f] # work[f]
         THEN [from |-> Commits[head][f], to |-> work[f]] ELSE Nil
TrueCount(f) == Counted(f, head # 1, {})

CountLines ==
    /\ phase = "count" /\ phase' = "answered"
    /\ \E numbered \in {head # 1, FALSE}, locked \in SUBSET Listed :
         counts' = [f \in AllFiles |-> Counted(f, numbered, locked)]
    /\ saved' = [known |-> TRUE, print |-> Fingerprint(fromHead), counts |-> counts']
    /\ spoilt' = \/ straddled \/ \E f \in Listed : times[f] = 0 /\ work[f] # 0
                 \/ \E f \in AllFiles : counts'[f] # TrueCount(f)
    /\ Forget /\ straddled' = FALSE
    /\ UNCHANGED <<repository, moves, quiet, troubled>>

-----------------------------------------------------------------------------
PanelAside == UNCHANGED <<phase, list, times, fromHead, saved, counts, troubled, spoilt>>

(* The agent or the user saves a file or deletes it; the editor of the     *)
(* agent leaves a line in the audit trail.  The clock is fine enough to    *)
(* give every save a signature of its own.                                 *)
Save(f, byAgent) ==
    /\ time[f] < MaxSaves
    /\ \/ work' = [work EXCEPT ![f] = time[f] + 1] /\ time' = [time EXCEPT ![f] = @ + 1]
       \/ work[f] # 0 /\ work' = [work EXCEPT ![f] = 0] /\ UNCHANGED time
    /\ audited' = IF byAgent THEN audited \cup {f} ELSE audited
    /\ quiet' = FALSE /\ UNCHANGED <<head, moves, straddled>> /\ PanelAside

(* A commit, or a reset that leaves the files. *)
MoveHead(h) ==
    /\ h \notin {1, head} /\ moves < MaxMoves /\ moves' = moves + 1 /\ head' = h
    /\ quiet' = FALSE /\ straddled' = (phase = "count")
    /\ UNCHANGED <<work, time, audited>> /\ PanelAside

SummaryNext ==
    \/ Status \/ Sign \/ LookUp \/ CountLines
    \/ \E f \in AllFiles, byAgent \in BOOLEAN : Save(f, byAgent)
    \/ \E h \in DOMAIN Commits : MoveHead(h)

SummarySpec == SummaryInit /\ [][SummaryNext]_summaryVars

-----------------------------------------------------------------------------
(* What a request answers while nobody works on is the workspace as it is: *)
(* every tracked file that differs from HEAD is counted, shown or not, by  *)
(* what it is now, also from the cache.  That excepts a request for which  *)
(* git or a stat failed, and counts in the cache that were taken across a  *)
(* move of HEAD, of a file that was gone and came back, or while numstat   *)
(* or a read failed.                                                       *)
SummaryIsCurrent ==
    phase = "answered" /\ quiet /\ ~troubled /\ ~spoilt =>
        \A f \in Tracked :
            counts[f] = IF Commits[head][f] = work[f] THEN Nil
                        ELSE [from |-> Commits[head][f], to |-> work[f]]

(* What is counted of a tracked file that is listed, when its text is w.   *)
CountOf(raw, commit, f, w) ==
    IF raw = "??" \/ commit = 1 THEN [from |-> 0, to |-> w]
    ELSE IF Commits[commit][f] # w THEN [from |-> Commits[commit][f], to |-> w] ELSE Nil

(* Counts in the cache are of the text that was signed, unless that text   *)
(* is gone for ever.                                                       *)
CachedInv(f) ==
    LET print == saved.print
    IN IF print.raws[f] = "-" THEN saved.counts[f] = Nil
       ELSE /\ print.times[f] <= time[f]
            /\ \/ saved.counts[f] = CountOf(print.raws[f], print.base, f, print.times[f])
               \/ print.times[f] # 0 /\ (time[f] > print.times[f] \/ work[f] = 0)

(* A signature stands for one text; while nobody works on, and nothing     *)
(* fails, a request has the list and the signatures of what is there.      *)
SummaryInv ==
    /\ SummaryTypeOK
    /\ \A f \in AllFiles : work[f] \in {0, time[f]}
    /\ phase # "count" => ~straddled
    /\ phase = "count" /\ (quiet \/ ~straddled) =>
         fromHead \in {head, 1} /\ (~troubled => fromHead = head)
    /\ phase \in {"sign", "head", "count"} /\ quiet /\ ~troubled =>
         \A f \in AllFiles : list[f] = TrueRaw(f)
    /\ phase \in {"head", "count"} =>
         \A f \in AllFiles :
            /\ times[f] <= time[f]
            /\ quiet /\ ~troubled => times[f] = IF list[f] # "-" THEN work[f] ELSE 0
    /\ saved.known /\ ~spoilt => \A f \in Tracked : CachedInv(f)
    /\ SummaryIsCurrent
=============================================================================
