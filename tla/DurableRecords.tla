---------------------------- MODULE DurableRecords ----------------------------
(***************************************************************************)
(* What task persistence promises, without saying how: every record has a  *)
(* row, the row only ever moves to a later version of the record, and the  *)
(* version a caller asked to be saved is in the row in the end, unless     *)
(* the record was excused: its row belongs to a worker process by now, or  *)
(* the service was closed and its writer gave the record up.               *)
(***************************************************************************)
EXTENDS Naturals

CONSTANTS
    Records,
    MaxVersion     \* bound: versions of a record

VARIABLES
    version,       \* the record as it is in memory
    due,           \* the version a caller asked to be saved
    row,           \* the version in the store
    excused        \* records whose promise was withdrawn

vars == <<version, due, row, excused>>

Init ==
    /\ version = [r \in Records |-> 0]
    /\ due = [r \in Records |-> 0]
    /\ row = [r \in Records |-> 0]
    /\ excused = {}

Change(r) ==
    /\ version[r] < MaxVersion
    /\ version' = [version EXCEPT ![r] = @ + 1]
    /\ UNCHANGED <<due, row, excused>>

Ask(r) ==
    /\ due' = [due EXCEPT ![r] = version[r]]
    /\ UNCHANGED <<version, row, excused>>

(* The row moves forward, to any version the record has had since. *)
Land(r) ==
    /\ \E v \in row[r] + 1 .. version[r] : row' = [row EXCEPT ![r] = v]
    /\ UNCHANGED <<version, due, excused>>

Excuse ==
    /\ \E more \in SUBSET Records : excused' = excused \cup more
    /\ UNCHANGED <<version, due, row>>

Next == Excuse \/ \E r \in Records : Change(r) \/ Ask(r) \/ Land(r)

Behind(r) == row[r] < due[r] /\ r \notin excused

CatchUp(r) == Behind(r) /\ Land(r)

Safely == Init /\ [][Next]_vars
Spec == Safely /\ \A r \in Records : WF_vars(CatchUp(r))
=============================================================================
