------------------------------ MODULE MCService ------------------------------
(***************************************************************************)
(* Instances for TLC of what happens to one task besides its execution in  *)
(* a worker process: its snapshots are written, its events are streamed to *)
(* a page, and its turns run, are verified and reviewed.  The three meet   *)
(* only through the record, so every behaviour exercises one part, chosen  *)
(* at the start, and the others stay as they are.                          *)
(*                                                                         *)
(* They are extended, so that TLC checks the very definitions the proofs   *)
(* are about.                                                              *)
(***************************************************************************)
EXTENDS SnapshotWriter, TaskRun, EventStream

VARIABLE part

Parts == {"writer", "stream", "run"}
serviceVars == <<part, vars, streamVars, taskVars>>

ServiceInit ==
    /\ part \in Parts
    /\ Init /\ StreamInit /\ TaskInit

butWriter == <<part, streamVars, taskVars>>
butStream == <<part, vars, taskVars>>
butRun    == <<part, vars, streamVars>>

ServiceNext ==
    \/ part = "writer" /\ Next /\ UNCHANGED butWriter
    \/ part = "stream" /\ StreamNext /\ UNCHANGED butStream
    \/ part = "run" /\ TaskNext /\ UNCHANGED butRun

(* What the threads, the page and the turns of a task do by themselves.    *)
ServiceSystem ==
    \/ part = "writer" /\ System /\ UNCHANGED butWriter
    \/ part = "stream" /\ StreamSystem /\ UNCHANGED butStream
    \/ part = "run" /\ TaskStep /\ UNCHANGED butRun

ServiceSpec ==
    ServiceInit /\ [][ServiceNext]_serviceVars /\ WF_serviceVars(ServiceSystem)

-----------------------------------------------------------------------------
(* Every part is well typed, and the inductive invariants of the proofs    *)
(* hold where their part is at work.                                       *)
PartsInv ==
    /\ part \in Parts
    /\ part = "writer" => WriterInv
    /\ part = "stream" => StreamInv
    /\ part = "run" => TaskInv

(* Every task comes to its verdict, and a page that follows it learns it.  *)
VerdictComes ==
    /\ part = "run" => TaskEnds
    /\ PageLearnsVerdict
=============================================================================
