----------------------------- MODULE SessionLocks -----------------------------
(***************************************************************************)
(* The bounded table of session locks of web.py.  A request of a session   *)
(* is handed the lock of its key, waits for it in slices of 0.25 s, marks  *)
(* the key as used, runs the chat and releases the lock.  Handing out a    *)
(* lock may evict entries that are not locked, not in flight and were held *)
(* before.  The marks "in flight" and "used" belong to the key, while a    *)
(* request keeps the lock object it was given.                             *)
(*                                                                         *)
(* A request occurs once; locks are numbered in the order they are made,   *)
(* which is the order of the table.                                        *)
(***************************************************************************)
EXTENDS Naturals, FiniteSets

CONSTANTS
    Sessions,      \* lock keys: workspace and session id
    Requests,      \* calls of _run_chat
    MaxTable       \* _SESSION_LOCKS_MAX

ASSUME LocksAssumption == IsFiniteSet(Requests) /\ MaxTable \in Nat

None == 0
Locks == 1..Cardinality(Requests)
NoEntries == [k \in {} |-> None]

VARIABLES
    table,         \* _session_locks: lock of each key present
    inflight,      \* _session_locks_inflight
    used,          \* _session_locks_used
    made,          \* locks made so far
    held,          \* locks that are locked
    lockPc,        \* where each request is
    key,           \* its session
    lock           \* the lock it was handed

marks == <<inflight, used>>
locksVars  == <<table, marks, made, held, lockPc, key, lock>>

LockPlaces == {"new", "waiting", "timedout", "acquired", "running", "done"}

LocksTypeOK ==
    /\ DOMAIN table \subseteq Sessions
    /\ \A k \in DOMAIN table : table[k] \in 1..made
    /\ inflight \subseteq Sessions /\ used \subseteq Sessions
    /\ made \in {0} \cup Locks /\ held \subseteq 1..made
    /\ lockPc \in [Requests -> LockPlaces]
    /\ key \in [Requests -> Sessions]
    /\ lock \in [Requests -> 0..made]

LocksInit ==
    /\ table = NoEntries /\ inflight = {} /\ used = {}
    /\ made = 0 /\ held = {}
    /\ lockPc = [r \in Requests |-> "new"]
    /\ key \in [Requests -> Sessions]
    /\ lock = [r \in Requests |-> None]

Reaches(r, place) == lockPc' = [lockPc EXCEPT ![r] = place]

(* Entries of t a request for k may evict. *)
Evictable(t, k) ==
    {c \in DOMAIN t \ {k} :
        t[c] \notin held /\ c \notin inflight \cup {k} /\ c \in used}

(* Mutant of Victims: the entry just made is not counted.                  *)
OneTooFew(t, k) ==
    LET E == Evictable(t, k)
    IN {c \in E : Cardinality({d \in E : t[d] < t[c]})
                      < Cardinality(DOMAIN table) - MaxTable}

(* The oldest of them, as many as the table has too many. *)
Victims(t, k) ==
    LET E == Evictable(t, k)
    IN {c \in E : Cardinality({d \in E : t[d] < t[c]})
                      < Cardinality(DOMAIN t) - MaxTable}

HandOut(r) ==
    LET k     == key[r]
        fresh == k \notin DOMAIN table
        t     == [c \in DOMAIN table \cup {k} |->
                     IF c = k /\ fresh THEN made + 1 ELSE table[c]]
        gone  == Victims(t, k)
    IN /\ lockPc[r] = "new" /\ Reaches(r, "waiting")
       /\ made' = IF fresh THEN made + 1 ELSE made
       /\ lock' = [lock EXCEPT ![r] = t[k]]
       /\ table' = [c \in DOMAIN t \ gone |-> t[c]]
       /\ inflight' = inflight \cup {k}
       /\ used' = used \ gone
       /\ UNCHANGED <<held, key>>

Acquire(r) ==
    /\ lockPc[r] = "waiting" /\ lock[r] \notin held
    /\ held' = held \cup {lock[r]}
    /\ Reaches(r, "acquired")
    /\ UNCHANGED <<table, marks, made, key, lock>>

TimeOut(r) ==
    /\ lockPc[r] = "waiting" /\ lock[r] \in held
    /\ Reaches(r, "timedout")
    /\ UNCHANGED <<table, marks, made, held, key, lock>>

WaitOn(r) ==
    /\ lockPc[r] = "timedout" /\ Reaches(r, "waiting")
    /\ UNCHANGED <<table, marks, made, held, key, lock>>

(* Mutant of GiveBack: a request that gives up leaves its key in flight.   *)
GiveBackMarked(r) ==
    /\ lockPc[r] = "timedout" /\ Reaches(r, "done")
    /\ UNCHANGED <<table, marks, made, held, key, lock>>

(* The request was cancelled; its slice of waiting is over. *)
GiveBack(r) ==
    /\ lockPc[r] = "timedout" /\ Reaches(r, "done")
    /\ inflight' = inflight \ {key[r]}
    /\ UNCHANGED <<table, used, made, held, key, lock>>

MarkUsed(r) ==
    /\ lockPc[r] = "acquired" /\ Reaches(r, "running")
    /\ used' = used \cup {key[r]}
    /\ inflight' = inflight \ {key[r]}
    /\ UNCHANGED <<table, made, held, key, lock>>

Finish(r) ==
    /\ lockPc[r] = "running" /\ Reaches(r, "done")
    /\ held' = held \ {lock[r]}
    /\ UNCHANGED <<table, marks, made, key, lock>>

LocksSystem == \E r \in Requests :
    \/ Acquire(r) \/ TimeOut(r) \/ WaitOn(r) \/ MarkUsed(r) \/ Finish(r)

LocksNext == LocksSystem \/ \E r \in Requests : HandOut(r) \/ GiveBack(r)

LocksSpec == LocksInit /\ [][LocksNext]_locksVars

-----------------------------------------------------------------------------
Active(r) == lockPc[r] \notin {"new", "done"}

(* An entry no request is concerned with can be evicted, however requests  *)
(* of its key were cancelled, timed out or overlapped with an eviction     *)
(* (_release_session_lock_inflight).                                       *)
IdleIsEvictable ==
    \A k \in DOMAIN table :
        (\A r \in Requests : key[r] = k => ~Active(r))
            => k \in used \ inflight /\ table[k] \notin held

(* So the next request cuts the table back to its bound, unless every      *)
(* entry left in it has a request in progress (_get_session_lock).         *)
CutBack == [][\A r \in Requests : HandOut(r) =>
    \/ Cardinality(DOMAIN table') <= MaxTable
    \/ \A k \in DOMAIN table' : \E q \in Requests : key[q] = k /\ Active(q)']_locksVars

(* "The mutual exclusion the table exists to provide": two requests of one *)
(* session never run at once (_session_lock).                              *)
SessionExclusion ==
    \A q, r \in Requests :
        key[q] = key[r] /\ {lockPc[q], lockPc[r]} \subseteq {"acquired", "running"}
            => q = r

(* What makes IdleIsEvictable inductive: a lock belongs to one key,        *)
OneKey ==
    /\ \A k, j \in DOMAIN table : table[k] = table[j] => k = j
    /\ \A k \in DOMAIN table, r \in Requests : table[k] = lock[r] => key[r] = k

(* is numbered by a request that asked for it,                             *)
Handed ==
    /\ made <= Cardinality({r \in Requests : lockPc[r] # "new"})
    /\ \A r \in Requests : lockPc[r] # "new" => lock[r] # None

(* and is locked by a request that will release it; a mark "in flight" has *)
(* a request that will clear it,                                           *)
HeldByActive ==
    \A l \in held : \E r \in Requests :
        lock[r] = l /\ lockPc[r] \in {"acquired", "running"}

InFlightIsActive ==
    \A k \in inflight : \E r \in Requests :
        key[r] = k /\ lockPc[r] \in {"waiting", "timedout", "acquired"}

(* and an entry is marked as used, or a request is on its way to mark it:  *)
(* one that has run on the lock of the entry has marked it.                *)
UsedOrComing ==
    /\ \A k \in DOMAIN table : k \in used \/ \E r \in Requests :
         key[r] = k /\ lock[r] = table[k] /\ lockPc[r] \in {"waiting", "acquired"}
    /\ \A r \in Requests :
         lockPc[r] = "running" /\ key[r] \in DOMAIN table /\ table[key[r]] = lock[r]
             => key[r] \in used

(* The inductive invariant of the table: every mark that protects an entry *)
(* has a request behind it.                                                *)
LocksInv ==
    LocksTypeOK /\ OneKey /\ Handed /\ HeldByActive /\ InFlightIsActive /\ UsedOrComing
=============================================================================
