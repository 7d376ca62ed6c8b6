----------------------------- MODULE EvidenceIndex -----------------------------
(***************************************************************************)
(* The index of a workspace that points the model at files.  A refresh     *)
(* walks the tree up to its budgets, asks the deny rules, and reads a file *)
(* again when its signature differs from that of its record, or when the   *)
(* record is too old; searches in between answer from the records.  A      *)
(* secret, a link or another kind of file is not among the paths.          *)
(***************************************************************************)
EXTENDS Naturals, FiniteSets

CONSTANTS
    Paths,      \* numbered in the order of the walk, ...
    Guidance,   \* ... those of guidance files first, outside the budget
    MaxFiles,   \* file budget of a walk
    MaxAge,     \* RECORD_MAX_AGE_SECONDS, in ticks
    MaxBody,    \* bound: edits of one file
    MaxClock    \* bound

ASSUME IndexAssumption ==
    /\ Paths \subseteq Nat /\ IsFiniteSet(Paths) /\ Guidance \subseteq Paths
    /\ {MaxFiles, MaxAge, MaxBody, MaxClock} \subseteq Nat /\ MaxBody > 0

VARIABLES
    there,      \* paths that are files
    body,       \* contents, numbered as they are made
    mark,       \* st_ino, st_mtime_ns, st_ctime_ns, st_size
    barred,     \* paths the deny rules cover
    clock,
    store,      \* _record_cache: signature and record by path, 0 for none
    builtAt,    \* _record_built
    served,     \* _records: contents by path
    census,     \* _stats: "none", or whether it is complete
    walkStep,       \* "idle", "file" or "body"
    todo,       \* collected paths that are not visited yet
    cut,        \* stopped_early
    missed,     \* skipped
    sign,       \* signature of the file that is read
    now,        \* of this refresh
    next, built, \* the cache and its times being made
    floor,      \* history: contents when the refresh of the records began
    barredAll, openAll, \* history: paths denied, or listed and not denied, throughout
    readAt,     \* history: when a record was really read
    blunt       \* history: files edited under the same signature
tree == <<there, body, mark, barred>>
indexVars == <<tree, clock, store, builtAt, served, census, walkStep, todo, cut,
               missed, sign, now, next, built, floor, barredAll, openAll, readAt, blunt>>

NoRecord == [mark |-> 0, body |-> 0]
Entry == [mark : 0..MaxBody, body : 0..MaxBody]
IndexTypeOK ==
    /\ {body, mark, served, floor} \subseteq [Paths -> 0..MaxBody]
    /\ {there, barred, barredAll, openAll, blunt} \subseteq SUBSET Paths
    /\ {store, next} \subseteq [Paths -> Entry]
    /\ {builtAt, built, readAt} \subseteq [Paths -> 0..MaxClock]
    /\ {clock, now} \subseteq 0..MaxClock /\ sign \in 0..MaxBody
    /\ census \in {"none", "complete", "short"} /\ {cut, missed} \subseteq BOOLEAN
    /\ walkStep \in {"idle", "file", "body"} /\ todo \subseteq Paths

NoTimeYet == [p \in Paths |-> 0]
IndexInit ==
    /\ there \in SUBSET Paths /\ barred \in SUBSET Paths
    /\ body = [p \in Paths |-> 1] /\ mark = body
    /\ clock = 0 /\ store = [p \in Paths |-> NoRecord] /\ builtAt = NoTimeYet /\ served = NoTimeYet
    /\ census = "none" /\ walkStep = "idle" /\ todo = {} /\ cut = FALSE
    /\ missed = FALSE /\ sign = 0 /\ now = 0 /\ next = store /\ built = NoTimeYet
    /\ floor = NoTimeYet /\ barredAll = {} /\ openAll = {} /\ readAt = NoTimeYet /\ blunt = {}

-----------------------------------------------------------------------------
(* A refresh, asked for or due, walks the tree.  The walk stops at the file *)
(* budget, or earlier at the budget of directories, and says so even when  *)
(* no file was left.  What is in a directory that cannot be listed it      *)
(* passes over, and says nothing.                                          *)
Walk ==
    /\ walkStep = "idle"
    /\ \E listed \in SUBSET there :
         /\ \E seen \in SUBSET (listed \ Guidance) :
              /\ \A p \in seen, q \in listed \ Guidance : q < p => q \in seen
              /\ Cardinality(seen) <= MaxFiles
              /\ todo' = (listed \cap Guidance) \cup seen
              /\ cut' \in {TRUE, seen # listed \ Guidance \/ Cardinality(seen) = MaxFiles}
         /\ openAll' = listed \ barred
    /\ walkStep' = "file" /\ now' = clock /\ missed' = FALSE
    /\ next' = [p \in Paths |-> NoRecord] /\ built' = NoTimeYet
    /\ floor' = body /\ barredAll' = barred
    /\ UNCHANGED <<tree, clock, store, builtAt, served, census, sign, readAt,
                   blunt>>

Unread == UNCHANGED <<tree, clock, store, builtAt, served, census, cut, now,
                      floor, barredAll, openAll, blunt>>

(* Files are visited in their order. *)
FirstTodo(p) == p \in todo /\ \A q \in todo : p <= q

FreshRecord(p) == /\ store[p] # NoRecord /\ store[p].mark = mark[p]
                  /\ now - builtAt[p] < MaxAge

(* A denied path is left out by policy; a file that is gone was missed; a  *)
(* record that is used again keeps the time it was built.                  *)
Visit(p) ==
    /\ walkStep = "file" /\ FirstTodo(p)
    /\ \/ /\ p \in barred \/ p \notin there
          /\ todo' = todo \ {p} /\ missed' = (missed \/ p \notin barred)
          /\ UNCHANGED <<walkStep, sign, next, built>>
       \/ /\ p \in there \ barred /\ FreshRecord(p)
          /\ todo' = todo \ {p} /\ next' = [next EXCEPT ![p] = store[p]]
          /\ built' = [built EXCEPT ![p] = builtAt[p]]
          /\ UNCHANGED <<walkStep, sign, missed>>
       \/ /\ p \in there \ barred /\ ~FreshRecord(p)
          /\ walkStep' = "body" /\ sign' = mark[p]
          /\ UNCHANGED <<todo, missed, next, built>>
    /\ Unread /\ UNCHANGED readAt

(* _build_record reads the body after the signature was taken; it may not  *)
(* open.                                                                   *)
ReadBody(p) ==
    /\ walkStep = "body" /\ FirstTodo(p) /\ walkStep' = "file" /\ todo' = todo \ {p}
    /\ \/ /\ p \in there
          /\ next' = [next EXCEPT ![p] = [mark |-> sign, body |-> body[p]]]
          /\ built' = [built EXCEPT ![p] = now] /\ readAt' = [readAt EXCEPT ![p] = clock]
          /\ UNCHANGED missed
       \/ missed' = TRUE /\ UNCHANGED <<next, built, readAt>>
    /\ Unread /\ UNCHANGED sign

(* The new records replace the old at once, unless nothing changed.        *)
Publish ==
    /\ walkStep = "file" /\ todo = {} /\ walkStep' = "idle"
    /\ census' = IF cut \/ missed THEN "short" ELSE "complete"
    /\ builtAt' = built
    /\ IF census # "none" /\ next = store THEN UNCHANGED <<store, served>>
       ELSE store' = next /\ served' = [p \in Paths |-> next[p].body]
    /\ cut' = FALSE /\ missed' = FALSE /\ sign' = 0 /\ built' = NoTimeYet
    /\ next' = [p \in Paths |-> NoRecord]
    /\ UNCHANGED <<tree, clock, todo, now, floor, barredAll, openAll, readAt, blunt>>

-----------------------------------------------------------------------------
WalkAside == UNCHANGED <<store, builtAt, served, census, walkStep, todo, cut, missed, sign,
                     now, next, built, floor, readAt>>

(* Somebody edits, makes or removes a file; the signature may stay.        *)
Edit(p) ==
    /\ body[p] < MaxBody /\ body' = [body EXCEPT ![p] = @ + 1] /\ there' = there \cup {p}
    /\ \/ mark' = [mark EXCEPT ![p] = body'[p]] /\ UNCHANGED blunt
       \/ UNCHANGED mark /\ blunt' = blunt \cup {p}
    /\ UNCHANGED <<barred, clock, barredAll, openAll>> /\ WalkAside

Delete(p) ==
    /\ p \in there /\ there' = there \ {p} /\ openAll' = openAll \ {p}
    /\ UNCHANGED <<body, mark, barred, clock, barredAll, blunt>> /\ WalkAside

Forbid(p) ==
    /\ barred' = (barred \ {p}) \cup ({p} \ barred)
    /\ barredAll' = barredAll \ {p} /\ openAll' = openAll \ {p}
    /\ UNCHANGED <<there, body, mark, clock, blunt>> /\ WalkAside

Tick == /\ clock < MaxClock /\ clock' = clock + 1
        /\ UNCHANGED <<tree, barredAll, openAll, blunt>> /\ WalkAside

IndexNext ==
    \/ Walk \/ Publish \/ Tick
    \/ \E p \in Paths : Visit(p) \/ ReadBody(p) \/ Edit(p) \/ Delete(p) \/ Forbid(p)

IndexSpec == IndexInit /\ [][IndexNext]_indexVars

-----------------------------------------------------------------------------
(* After a refresh a record is not older than the refresh, unless its file *)
(* was edited under the same signature, and then not for longer than the   *)
(* record may be old; a path denied all the while has none; and a census   *)
(* that calls itself complete misses no file that was there throughout, in *)
(* a directory that could be listed.                                       *)
IndexIsCurrent ==
    walkStep = "idle" /\ census # "none" =>
        \A p \in Paths :
            /\ served[p] # 0 /\ served[p] < floor[p]
                 => p \in blunt /\ now - readAt[p] < MaxAge
            /\ p \in barredAll => served[p] = 0
            /\ census = "complete" /\ p \in openAll => served[p] # 0

(* A record holds no later body than its signature, but for edits under    *)
(* the same one, and was read no earlier than its age is counted from.     *)
RecordInv(p, record, since) ==
    record # NoRecord => /\ record.body \in 1..body[p] /\ since <= readAt[p]
                         /\ p \notin blunt => record.mark <= record.body

(* The records being made are allowed, current or excusably old, and none  *)
(* is lacking for a file behind the walk that was there all the while.     *)
WalkInv(p) ==
    /\ RecordInv(p, next[p], built[p])
    /\ next[p] # NoRecord /\ next[p].body < floor[p] => p \in blunt /\ now - readAt[p] < MaxAge
    /\ p \in barredAll => next[p] = NoRecord
    /\ ~cut /\ ~missed /\ p \in openAll => p \in todo \/ next[p] # NoRecord
    /\ walkStep = "body" /\ FirstTodo(p) => /\ p \notin barredAll
                                            /\ p \notin blunt => sign <= body[p]

IndexInv ==
    /\ IndexTypeOK
    /\ barredAll \subseteq barred /\ openAll \subseteq there \ barred /\ now <= clock
    /\ \A p \in Paths :
         /\ body[p] > 0 /\ floor[p] <= body[p] /\ readAt[p] <= clock
         /\ p \notin blunt => mark[p] = body[p]
         /\ served[p] = store[p].body /\ RecordInv(p, store[p], builtAt[p])
         /\ walkStep # "idle" => WalkInv(p)
    /\ IndexIsCurrent
=============================================================================
