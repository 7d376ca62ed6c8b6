----------------------------- MODULE EvidenceGate -----------------------------
(***************************************************************************)
(* The completion review of a task as a function of its trail.  The worker *)
(* leaves events; the reviewer sees a bounded packet of them and answers;  *)
(* an answer "complete" is held against the whole trail.  An event says    *)
(* what happened: narration, a look, a fault, a write of code or of prose, *)
(* a check run or only started by the worker, a verdict of the verifier,   *)
(* or that the verifier found nothing to run.                              *)
(***************************************************************************)
EXTENDS Naturals, Sequences, FiniteSets

CONSTANTS
    Checks,   \* identities of commands that check something
    NoCheck,  \* the other events
    MaxEarly, \* MAX_EARLY_EVIDENCE_EVENTS
    MaxPacket,  \* MAX_EVIDENCE_EVENTS
    Fitting,  \* events that fit into MAX_EVIDENCE_CHARS
    MaxTrail  \* bound: events of a task

ASSUME TrailAssumption == NoCheck \notin Checks /\ MaxTrail \in Nat

Plain  == {"trace", "look", "code", "prose", "started", "nothing"}
Writings == {"code", "prose"}
TrailEvents ==
    [what : Plain, check : {NoCheck}, good : {TRUE}]
    \cup [what : {"fault"}, check : {NoCheck}, good : {FALSE}]
    \cup [what : {"run", "verify"}, check : Checks, good : BOOLEAN]
Says   == {"complete", "incomplete", "continue", "blocked", "unknown"}

VARIABLES
    trail,     \* the events
    talk,      \* the packet holds messages of the conversation
    mayWrite,  \* allow_changes
    ruling,    \* of the last review, "none" while the worker works
    red,       \* history: checks whose last outcome is bad
    wroteCode, \* history: something other than prose was written
    since      \* history: best evidence after the last write, "unwritten" before
gateVars == <<trail, talk, mayWrite, ruling, red, wroteCode, since>>

GateTypeOK ==
    /\ trail \in Seq(TrailEvents) /\ Len(trail) <= MaxTrail
    /\ {talk, mayWrite, wroteCode} \subseteq BOOLEAN /\ red \subseteq Checks
    /\ ruling \in {"none", "complete", "continue", "blocked", "unknown"}
    /\ since \in {"unwritten", "none", "look", "check"}

GateInit ==
    /\ trail = <<>> /\ talk \in BOOLEAN /\ mayWrite \in BOOLEAN
    /\ ruling = "none" /\ red = {} /\ wroteCode = FALSE /\ since = "unwritten"

-----------------------------------------------------------------------------
(* The events of some kinds, and the runs of a check, by their place. *)
Of(kinds) == {i \in DOMAIN trail : trail[i].what \in kinds}
RunsOf(c) == {i \in DOMAIN trail : trail[i].check = c}

(* The packet: the earliest important events up to a quota, then the       *)
(* latest; while it is too long first what is unimportant goes, then the   *)
(* oldest.                                                                 *)
Important(i) == trail[i].what \in Writings \cup {"verify", "nothing", "fault"}
                \/ (trail[i].what = "run" /\ ~trail[i].good)
Lowest(n, S)  == {i \in S : Cardinality({j \in S : j < i}) < n}
Highest(n, S) == {i \in S : Cardinality({j \in S : j > i}) < n}
Kept ==
    LET early == Lowest(MaxEarly, {i \in DOMAIN trail : Important(i)})
    IN early \cup Highest(MaxPacket - Cardinality(early), DOMAIN trail \ early)
Packet ==
    LET excess == IF Cardinality(Kept) > Fitting THEN Cardinality(Kept) - Fitting ELSE 0
        minor  == Lowest(excess, {i \in Kept : ~Important(i)})
    IN (Kept \ minor) \ Lowest(excess - Cardinality(minor), Kept \ minor)

(* An event proves something unless it is narration; talk does if nothing  *)
(* had to be written, or something was.  The last four verdicts of the     *)
(* verifier are listed by themselves.                                      *)
Worked  == Of(Writings \cup {"verify", "nothing"}) # {}
Verdicts == Highest(4, Of({"verify", "nothing"}))
TalkItem == Len(trail) + 1
Citable == {i \in Packet : trail[i].what # "trace"} \cup Verdicts
           \cup (IF talk /\ (~mayWrite \/ Worked) THEN {TalkItem} ELSE {})

(* Mutant of IsCheck: a check that was only started counts.                *)
StartedToo(e) == e.what \in {"run", "started"}

(* is_verification_evidence: a backgrounded command has checked nothing.   *)
IsCheck(e) == e.what = "run"

Newest(S) == IF S = {} THEN 0 ELSE CHOOSE i \in S : \A j \in S : j <= i
LatestVerdict == Newest(Of({"verify"}))
LastFailed(c) == RunsOf(c) # {} /\ ~trail[Newest(RunsOf(c))].good

(* The newest verdict of the verifier is that nothing could be run.        *)
NothingToRun ==
    LET verdicts == Of({"verify", "nothing"})
    IN verdicts # {} /\ trail[Newest(verdicts)].what = "nothing"

LastWrite == Newest(Of(Writings))
LookSuffices == NothingToRun \/ Of({"code"}) = {}
Observed ==
    \E i \in (LastWrite + 1)..Len(trail) :
        \/ trail[i].good /\ (IsCheck(trail[i]) \/ trail[i].what = "verify")
        \/ LookSuffices /\ trail[i].what = "look"

(* _enforce_completion_evidence: a failed verdict or check, missing        *)
(* evidence and an unexamined write send the worker on; a reviewer who     *)
(* cites nothing that exists is at fault.  Of the citations only one that  *)
(* exists matters, so there is one, or none.                               *)
Enforce(cite) ==
    IF \/ LatestVerdict # 0 /\ ~trail[LatestVerdict].good
       \/ \E c \in Checks : LastFailed(c)
    THEN "continue"
    ELSE IF cite \notin Citable
    THEN IF Citable = {} THEN "continue" ELSE "unknown"
    ELSE IF LastWrite # 0 /\ ~Observed THEN "continue" ELSE "complete"

(* parse_completion_decision: "complete" with something missing is not.    *)
Understood(says) == IF says = "incomplete" THEN "continue" ELSE says

-----------------------------------------------------------------------------
Work(e) ==
    /\ Len(trail) < MaxTrail /\ ruling \in {"none", "continue"}
    /\ e.what \in Writings => mayWrite
    /\ trail' = Append(trail, e) /\ ruling' = "none"
    /\ red' = IF e.what \in {"run", "verify"}
              THEN IF e.good THEN red \ {e.check} ELSE red \cup {e.check} ELSE red
    /\ wroteCode' = (wroteCode \/ e.what = "code")
    /\ since' = CASE e.what \in Writings -> "none"
                  [] since = "none" /\ e.what = "look" -> "look"
                  [] since \in {"none", "look"} /\ e.good
                         /\ e.what \in {"run", "verify"} -> "check"
                  [] OTHER -> since
    /\ UNCHANGED <<talk, mayWrite>>

(* judge_completion: an unanswered request is "unknown" too. *)
Judge ==
    /\ ruling = "none"
    /\ \E says \in Says, cite \in 0..(TalkItem + 1) :
         ruling' = IF Understood(says) = "complete" THEN Enforce(cite) ELSE Understood(says)
    /\ UNCHANGED <<trail, talk, mayWrite, red, wroteCode, since>>

GateNext == Judge \/ \E e \in TrailEvents : Work(e)
GateSpec == GateInit /\ [][GateNext]_gateVars

-----------------------------------------------------------------------------
(* Whatever the reviewer cites, a task is not certified while a check last *)
(* failed, nor with a last write nobody looked at since: by a check that   *)
(* ran, or by reading when prose is all that was written or nothing can be *)
(* run.                                                                    *)
CertifiedIsProven ==
    ruling = "complete" =>
        /\ red = {}
        /\ since \in {"unwritten", "check"}
           \/ (since = "look" /\ (~wroteCode \/ NothingToRun))

(* What the reviewer derives from the trail is what happened: the checks   *)
(* that last failed, whether code was written, and the best evidence there *)
(* is after every write.                                                   *)
TrailIsTold ==
    /\ \A c \in Checks : c \in red <=> LastFailed(c)
    /\ wroteCode <=> Of({"code"}) # {}
    /\ since = "unwritten" <=> Of(Writings) = {}
    /\ \A i \in DOMAIN trail :
         (Of(Writings) # {} /\ \A w \in Of(Writings) : w < i)
         => /\ trail[i].good /\ trail[i].what \in {"run", "verify"} => since = "check"
            /\ trail[i].what = "look" => since \in {"look", "check"}

GateInv == GateTypeOK /\ TrailIsTold /\ CertifiedIsProven
=============================================================================
