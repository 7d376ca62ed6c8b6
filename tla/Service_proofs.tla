---------------------------- MODULE Service_proofs ----------------------------
(* Proofs about what happens to one task besides its execution in a worker: *)
(* the writer of its snapshots (SnapshotWriter), for all records, callers   *)
(* and bounds, its turns (TaskRun), for any budgets and any number of       *)
(* changes, its events on their way to a page (EventStream), for any sizes  *)
(* of the windows and of the log, and all of them as the runs put them      *)
(* together (MCService).                                                    *)
EXTENDS MCService, SequenceTheorems, FiniteSetTheorems, TLAPS

-----------------------------------------------------------------------------
(* Every reachable state is well typed *)

\* The threads of the writer are not callers, and a list belongs to a thread.
LEMMA ThreadNames ==
    /\ Callers \subseteq Threads /\ {"drain", "close"} \subseteq Threads
    /\ "drain" \notin Callers /\ "close" \notin Callers
BY CallersAssumption DEF Threads

\* The initial state is typed.
LEMMA TypeInit == Init => TypeOK
<1> SUFFICES ASSUME Init PROVE TypeOK
  OBVIOUS
<1>1. SomeRecord \in Records
  BY RecordsAssumption DEF SomeRecord
<1>2. /\ job \in [Threads -> Records] /\ pc \in [Threads -> Places]
      /\ seen \in [Threads -> Versions] /\ mark \in [Threads -> Nat]
  BY <1>1, BoundsAssumption DEF Init, Versions, Places
<1>3. batch \in [{"drain", "close"} -> SUBSET Records]
  BY DEF Init
<1>4. /\ version \in [Records -> Versions] /\ version \in [Records -> Nat]
      /\ dirty \in [Records -> BOOLEAN]
  BY BoundsAssumption DEF Init, Versions
<1>5. /\ faults \in 0..MaxFaults /\ attempt \in 0..1
      /\ pending \subseteq Records /\ detached \subseteq Records
      /\ lost \subseteq Records /\ late \subseteq Records
  BY BoundsAssumption DEF Init
<1>6. stop \in BOOLEAN
  BY DEF Init
<1>7. /\ due = version /\ row = version /\ checkpoint = version
      /\ serial = version /\ committed = version
  BY DEF Init
<1>. QED
  BY <1>2, <1>3, <1>4, <1>5, <1>6, <1>7 DEF TypeOK

\* Every step keeps the types, one case per action.
LEMMA TypeStep == TypeOK /\ [Next]_vars => TypeOK'
<1> SUFFICES ASSUME TypeOK, [Next]_vars
             PROVE  TypeOK'
  OBVIOUS
<1> USE ThreadNames, BoundsAssumption
    DEF TypeOK, Versions, Places, Goto, memory, table, disk, thread, drains
<1>1. ASSUME NEW c \in Callers, NEW r \in Records, Change(c, r)
      PROVE  TypeOK'
  BY <1>1 DEF Change
<1>2. ASSUME NEW c \in Callers, Enqueue(c)
      PROVE  TypeOK'
  BY <1>2 DEF Enqueue
<1>3. ASSUME NEW c \in Callers, FlushNow(c) \/ FlushDetached(c)
      PROVE  TypeOK'
  BY <1>3 DEF FlushNow, FlushDetached, Pop
<1>4. ASSUME NEW p \in Threads, Prepare(p)
      PROVE  TypeOK'
  BY <1>4 DEF Prepare, Resume
<1>5. ASSUME NEW p \in Threads, Digest(p)
      PROVE  TypeOK'
  BY <1>5 DEF Digest
<1>6. ASSUME NEW p \in Threads, Read(p)
      PROVE  TypeOK'
  BY <1>6 DEF Read
<1>7. ASSUME NEW p \in Threads, Enter(p)
      PROVE  TypeOK'
  BY <1>7 DEF Enter, Resume
<1>8. ASSUME NEW p \in Threads, Stored(p)
      PROVE  TypeOK'
  BY <1>8 DEF Stored, Resume
<1>9. ASSUME NEW p \in Threads, StoreFails(p)
      PROVE  TypeOK'
  BY <1>9 DEF StoreFails, PutBack, GiveUp
<1>10. CASE DrainTake
  BY <1>10 DEF DrainTake
<1>11. CASE DrainExit
  BY <1>11 DEF DrainExit
<1>12. ASSUME NEW p \in {"drain", "close"}, FlushNext(p)
       PROVE  TypeOK'
  BY <1>12 DEF FlushNext, Pop
<1>13. CASE CloseStop
  BY <1>13 DEF CloseStop
<1>14. CASE CloseTake
  BY <1>14 DEF CloseTake
<1>15. ASSUME NEW r \in Records, HandOver(r)
       PROVE  TypeOK'
  BY <1>15 DEF HandOver
<1>16. CASE UNCHANGED vars
  BY <1>16 DEF vars
<1>. QED
  BY <1>1, <1>2, <1>3, <1>4, <1>5, <1>6, <1>7, <1>8, <1>9, <1>10, <1>11,
     <1>12, <1>13, <1>14, <1>15, <1>16 DEF Next, System, Saving

-----------------------------------------------------------------------------
(* The inductive invariant, part by part *)

\* Only close() is ever at "joining" or at its list.
LEMMA Kinds == \A p \in Threads : p \in Callers \/ p = "drain" \/ p = "close"
BY DEF Threads

\* The initial state satisfies the invariant: nothing is asked for.
LEMMA WriterInit == Init => WriterInv
<1> SUFFICES ASSUME Init PROVE WriterInv
  OBVIOUS
<1>1. TypeOK
  BY TypeInit
<1>2. /\ \A p \in Threads : pc[p] = "idle"
      /\ \A r \in Records : /\ version[r] = 0 /\ row[r] = 0 /\ due[r] = 0
                             /\ serial[r] = 0 /\ committed[r] = 0
                             /\ checkpoint[r] = 0
      /\ batch["close"] = {}
  BY DEF Init
<1>3. InOrder /\ OneStores /\ CloseWaits /\ CleanCheckpoint
  BY <1>2, ThreadNames
     DEF InOrder, OneStores, CloseWaits, CleanCheckpoint, Busy
<1>. QED
  BY <1>1, <1>2, <1>3 DEF WriterInv

\* close() has no list before the drain thread was told to stop.
LEMMA CloseWaitsStep == TypeOK /\ CloseWaits /\ [Next]_vars => CloseWaits'
<1> SUFFICES ASSUME TypeOK, CloseWaits, [Next]_vars
             PROVE  CloseWaits'
  OBVIOUS
<1> USE ThreadNames DEF TypeOK, CloseWaits, Goto, memory, table, disk, thread, drains
<1>1. ASSUME NEW c \in Callers, NEW r \in Records, Change(c, r)
      PROVE  CloseWaits'
  BY <1>1 DEF Change
<1>2. ASSUME NEW c \in Callers, Enqueue(c) \/ FlushNow(c) \/ FlushDetached(c)
      PROVE  CloseWaits'
  BY <1>2 DEF Enqueue, FlushNow, FlushDetached, Pop
<1>3. ASSUME NEW p \in Threads,
             Prepare(p) \/ Digest(p) \/ Read(p) \/ Enter(p) \/ Stored(p)
      PROVE  CloseWaits'
  BY <1>3 DEF Prepare, Digest, Read, Enter, Stored, Resume
<1>4. ASSUME NEW p \in Threads, StoreFails(p)
      PROVE  CloseWaits'
  BY <1>4 DEF StoreFails, PutBack, GiveUp
<1>5. CASE DrainTake \/ DrainExit
  BY <1>5 DEF DrainTake, DrainExit
<1>6. ASSUME NEW p \in {"drain", "close"}, FlushNext(p)
      PROVE  CloseWaits'
  BY <1>6 DEF FlushNext, Pop
<1>7. CASE CloseStop
  BY <1>7 DEF CloseStop
<1>8. CASE CloseTake
  BY <1>8 DEF CloseTake
<1>9. ASSUME NEW r \in Records, HandOver(r)
      PROVE  CloseWaits'
  BY <1>9 DEF HandOver
<1>10. CASE UNCHANGED vars
  BY <1>10 DEF vars
<1>. QED
  BY <1>1, <1>2, <1>3, <1>4, <1>5, <1>6, <1>7, <1>8, <1>9, <1>10
     DEF Next, System, Saving

\* A checkpoint becomes clean only for the evidence its thread has hashed, and
\* new evidence makes it dirty again.
LEMMA CleanStep == TypeOK /\ CleanCheckpoint /\ [Next]_vars => CleanCheckpoint'
<1> SUFFICES ASSUME TypeOK, CleanCheckpoint, [Next]_vars
             PROVE  CleanCheckpoint'
  OBVIOUS
<1> USE ThreadNames DEF TypeOK, CleanCheckpoint, memory
<1>1. ASSUME NEW c \in Callers, NEW r \in Records, Change(c, r)
      PROVE  CleanCheckpoint'
  BY <1>1 DEF Change
<1>2. ASSUME NEW p \in Threads, Digest(p)
      PROVE  CleanCheckpoint'
  BY <1>2 DEF Digest, Unchanged
<1>3. ASSUME NEW p \in Threads, Read(p)
      PROVE  CleanCheckpoint'
  BY <1>3 DEF Read
<1>4. ASSUME UNCHANGED memory
      PROVE  CleanCheckpoint'
  BY <1>4
<1>5. ASSUME NEW p \in Threads,
             Prepare(p) \/ Enter(p) \/ Stored(p) \/ StoreFails(p)
      PROVE  UNCHANGED memory
  BY <1>5 DEF Prepare, Enter, Stored, StoreFails
<1>6. ASSUME \/ \E c \in Callers : Enqueue(c) \/ FlushNow(c) \/ FlushDetached(c)
             \/ DrainTake \/ DrainExit \/ CloseTake \/ CloseStop
             \/ \E p \in {"drain", "close"} : FlushNext(p)
             \/ \E r \in Records : HandOver(r)
             \/ UNCHANGED vars
      PROVE  UNCHANGED memory
  BY <1>6 DEF Enqueue, FlushNow, FlushDetached, DrainTake, DrainExit, CloseTake,
              CloseStop, FlushNext, HandOver, vars
<1>. QED
  BY <1>1, <1>2, <1>3, <1>4, <1>5, <1>6 DEF Next, System, Saving

\* What a step leaves alone: threads that are about to store what they read stay
\* there, with what they read, unless the step is theirs.
LEMMA BusyFrame ==
    ASSUME TypeOK, CloseWaits, [Next]_vars
    PROVE  \/ \E p \in Threads : Read(p) \/ Enter(p) \/ Stored(p) \/ StoreFails(p)
           \/ /\ \A p \in Threads : Busy(p)' <=> Busy(p)
              /\ \A p \in Threads : pc'[p] = "storing" <=> pc[p] = "storing"
              /\ \A p \in Threads : Busy(p) => job'[p] = job[p] /\ seen'[p] = seen[p]
              /\ UNCHANGED <<mark, serial, row, committed>>
              /\ \A r \in Records : version[r] <= version'[r]
<1> USE ThreadNames DEF TypeOK, Busy, Goto, memory, disk, thread
<1> DEFINE Frame ==
             /\ \A p \in Threads : Busy(p)' <=> Busy(p)
             /\ \A p \in Threads : pc'[p] = "storing" <=> pc[p] = "storing"
             /\ \A p \in Threads : Busy(p) => job'[p] = job[p] /\ seen'[p] = seen[p]
             /\ UNCHANGED <<mark, serial, row, committed>>
             /\ \A r \in Records : version[r] <= version'[r]
<1>1. ASSUME NEW c \in Callers, NEW r \in Records, Change(c, r)
      PROVE  Frame
  BY <1>1, BoundsAssumption DEF Change, Versions
<1>2. ASSUME NEW c \in Callers, Enqueue(c) \/ FlushNow(c) \/ FlushDetached(c)
      PROVE  Frame
  BY <1>2, BoundsAssumption DEF Enqueue, FlushNow, FlushDetached, Versions
<1>3. ASSUME NEW p \in Threads, Prepare(p) \/ Digest(p)
      PROVE  Frame
  BY <1>3, BoundsAssumption DEF Prepare, Digest, Resume, Versions
<1>4. CASE DrainTake \/ DrainExit
  BY <1>4, BoundsAssumption DEF DrainTake, DrainExit, Versions
<1>5. ASSUME NEW p \in {"drain", "close"}, FlushNext(p)
      PROVE  Frame
  BY <1>5, BoundsAssumption DEF FlushNext, Versions
<1>6. CASE CloseTake
  BY <1>6, BoundsAssumption DEF CloseTake, Versions
<1>7. CASE CloseStop
  BY <1>7, BoundsAssumption DEF CloseStop, CloseWaits, Versions
<1>8. ASSUME NEW r \in Records, HandOver(r)
      PROVE  Frame
  BY <1>8, BoundsAssumption DEF HandOver, Versions
<1>9. CASE UNCHANGED vars
  BY <1>9, BoundsAssumption DEF vars, Versions
<1>. QED
  BY <1>1, <1>2, <1>3, <1>4, <1>5, <1>6, <1>7, <1>8, <1>9
     DEF Next, System, Saving

\* The write lock lets one thread store at a time, and only with a serial that
\* is newer than the one committed.
LEMMA OneStoresStep ==
    ASSUME TypeOK, CloseWaits, OneStores, [Next]_vars
    PROVE  OneStores'
<1> USE DEF TypeOK, OneStores, Goto, memory, disk
<1>1. ASSUME NEW p \in Threads, Read(p)
      PROVE  OneStores'
  BY <1>1 DEF Read
<1>2. ASSUME NEW p \in Threads, Enter(p)
      PROVE  OneStores'
  BY <1>2 DEF Enter, Resume, Stale
<1>3. ASSUME NEW p \in Threads, Stored(p)
      PROVE  OneStores'
  BY <1>3 DEF Stored, Resume
<1>4. ASSUME NEW p \in Threads, StoreFails(p)
      PROVE  OneStores'
  BY <1>4 DEF StoreFails
<1>5. CASE \A p \in Threads : ~Read(p) /\ ~Enter(p) /\ ~Stored(p) /\ ~StoreFails(p)
  BY <1>5, BusyFrame DEF Busy
<1>. QED
  BY <1>1, <1>2, <1>3, <1>4, <1>5

\* What is asked for is the version of the moment, and versions only grow.
LEMMA DueFrame ==
    ASSUME TypeOK, [Next]_vars, NEW r \in Records
    PROVE  due'[r] \in {due[r], version[r]} /\ version[r] <= version'[r]
<1> USE ThreadNames, BoundsAssumption DEF TypeOK, Versions, memory
<1>1. ASSUME NEW c \in Callers, NEW s \in Records, Change(c, s)
      PROVE  due' = due /\ version[r] <= version'[r]
  BY <1>1 DEF Change
<1>2. ASSUME NEW c \in Callers, Enqueue(c) \/ FlushNow(c)
      PROVE  due'[r] \in {due[r], version[r]} /\ version' = version
  BY <1>2 DEF Enqueue, FlushNow
<1>3. ASSUME NEW p \in Threads,
             \/ Prepare(p) \/ Digest(p) \/ Read(p) \/ Enter(p) \/ Stored(p)
             \/ StoreFails(p)
      PROVE  UNCHANGED <<due, version>>
  BY <1>3 DEF Prepare, Digest, Read, Enter, Stored, StoreFails
<1>4. ASSUME \/ \E c \in Callers : FlushDetached(c)
             \/ DrainTake \/ DrainExit \/ CloseTake \/ CloseStop
             \/ \E p \in {"drain", "close"} : FlushNext(p)
             \/ \E s \in Records : HandOver(s)
             \/ UNCHANGED vars
      PROVE  UNCHANGED <<due, version>>
  BY <1>4 DEF FlushDetached, DrainTake, DrainExit, CloseTake, CloseStop, FlushNext,
              HandOver, vars
<1>. QED
  BY <1>1, <1>2, <1>3, <1>4 DEF Next, System, Saving

\* Serials order what the threads have read and what is in the store.
LEMMA InOrderStep ==
    ASSUME TypeOK, CloseWaits, OneStores, InOrder, [Next]_vars
    PROVE  InOrder'
<1> USE DEF TypeOK, Goto, memory, disk, Versions
<1>1. ASSUME NEW p \in Threads, Read(p)
      PROVE  InOrder'
  BY <1>1 DEF Read, InOrder, Busy
<1>2. ASSUME NEW p \in Threads, Enter(p)
      PROVE  InOrder'
  BY <1>2 DEF Enter, Resume, InOrder, Busy
<1>3. ASSUME NEW p \in Threads, Stored(p)
      PROVE  InOrder'
  BY <1>3 DEF Stored, Resume, InOrder, OneStores, Busy
<1>4. ASSUME NEW p \in Threads, StoreFails(p)
      PROVE  InOrder'
  BY <1>4 DEF StoreFails, InOrder, Busy
<1>5. CASE \A p \in Threads : ~Read(p) /\ ~Enter(p) /\ ~Stored(p) /\ ~StoreFails(p)
  <2>1. \A r \in Records : due'[r] \in {due[r], version[r]} /\ version[r] <= version'[r]
    BY DueFrame
  <2>2. /\ \A p \in Threads : Busy(p)' <=> Busy(p)
        /\ \A p \in Threads : Busy(p) => job'[p] = job[p] /\ seen'[p] = seen[p]
        /\ UNCHANGED <<mark, serial, row, committed>>
    BY <1>5, BusyFrame
  <2>3. \A r \in Records : /\ row[r] <= version'[r] /\ due'[r] <= version'[r]
                           /\ committed[r] <= serial[r]
    <3>1. /\ version \in [Records -> Nat] /\ version' \in [Records -> Nat]
          /\ row \in [Records -> Nat] /\ due \in [Records -> Nat]
      BY TypeStep, BoundsAssumption
    <3>. QED
      BY <2>1, <3>1 DEF InOrder
  <2>4. \A p \in Threads : Busy(p) => seen[p] <= version'[job[p]]
    <3>1. /\ version \in [Records -> Nat] /\ version' \in [Records -> Nat]
          /\ seen \in [Threads -> Nat]
      BY TypeStep, BoundsAssumption
    <3>. QED
      BY <2>1, <3>1 DEF InOrder
  <2>. QED
    BY <2>2, <2>3, <2>4 DEF InOrder
<1>. QED
  BY <1>1, <1>2, <1>3, <1>4, <1>5

\* No step drops the version that was asked for: whoever lets go of a record
\* has stored that version or a later one, or has handed it on.
LEMMA CarriedStep ==
    ASSUME WriterInv, [Next]_vars, NEW r \in Records, row'[r] < due'[r]
    PROVE  Carried(r)'
<1> USE ThreadNames, BoundsAssumption
    DEF WriterInv, TypeOK, Versions, Goto, memory, table, disk, thread, drains
<1>1. ASSUME NEW c \in Callers, NEW s \in Records, Change(c, s)
      PROVE  Carried(r)'
  BY <1>1 DEF Change, Carried, Carries, Busy
<1>2. ASSUME NEW c \in Callers, Enqueue(c)
      PROVE  Carried(r)'
  BY <1>2 DEF Enqueue, Carried, Carries, Busy
<1>3. ASSUME NEW c \in Callers, FlushNow(c)
      PROVE  Carried(r)'
  <2>1. CASE job[c] = r
    <3>1. Carries(c, r)'
      BY <1>3, <2>1 DEF FlushNow, Carries
    <3>. QED
      BY <3>1 DEF Carried
  <2>2. CASE job[c] # r
    BY <1>3, <2>2 DEF FlushNow, Pop, Carried, Carries, Busy
  <2>. QED
    BY <2>1, <2>2
<1>4. ASSUME NEW c \in Callers, FlushDetached(c)
      PROVE  Carried(r)'
  BY <1>4 DEF FlushDetached, Carried, Carries, Busy
<1>5. ASSUME NEW p \in Threads, Prepare(p)
      PROVE  Carried(r)'
  BY <1>5 DEF Prepare, Resume, Carried, Carries, Busy
<1>6. ASSUME NEW p \in Threads, Digest(p)
      PROVE  Carried(r)'
  BY <1>6 DEF Digest, Carried, Carries, Busy
<1>7. ASSUME NEW p \in Threads, Read(p)
      PROVE  Carried(r)'
  BY <1>7 DEF Read, Carried, Carries, Busy, InOrder
<1>8. ASSUME NEW p \in Threads, Enter(p)
      PROVE  Carried(r)'
  <2>1. /\ pc[p] = "entering"
        /\ \/ pc' = [pc EXCEPT ![p] = "idle"] /\ (job[p] \in detached \/ Stale(p))
           \/ pc' = [pc EXCEPT ![p] = "storing"]
        /\ UNCHANGED <<row, pending, detached, batch, job, seen, due>>
    BY <1>8 DEF Enter, Resume
  <2>2. Carried(r)
    BY <2>1
  <2>3. ASSUME NEW q \in Threads, q # p, Carries(q, r)
        PROVE  Carries(q, r)'
    BY <2>1, <2>3 DEF Carries, Busy
  <2>4. ASSUME Carries(p, r), r \notin detached
        PROVE  Carries(p, r)'
    <3>1. job[p] = r /\ due[r] <= seen[p]
      BY <2>1, <2>4 DEF Carries, Busy
    <3>2. ~Stale(p)
      <4>1. /\ row \in [Records -> Nat] /\ due \in [Records -> Nat]
            /\ seen \in [Threads -> Nat] /\ row[r] < due[r]
        BY <2>1
      <4>2. SUFFICES ASSUME Stale(p) PROVE FALSE
        OBVIOUS
      <4>3. seen[p] <= row[r]
        <5>1. /\ mark[p] # committed[job[p]]
              /\ mark[p] < committed[job[p]] => seen[p] <= row[job[p]]
          BY <2>1 DEF InOrder, Busy
        <5>2. mark[p] \in Nat /\ committed[job[p]] \in Nat
          OBVIOUS
        <5>. QED
          BY <3>1, <4>2, <5>1, <5>2 DEF Stale
      <4>. QED
        BY <3>1, <4>1, <4>3
    <3>. QED
      BY <2>1, <2>4, <3>1, <3>2 DEF Carries, Busy
  <2>. QED
    BY <2>1, <2>2, <2>3, <2>4 DEF Carried
<1>9. ASSUME NEW p \in Threads, Stored(p)
      PROVE  Carried(r)'
  <2>1. /\ pc[p] = "storing" /\ pc' = [pc EXCEPT ![p] = "idle"]
        /\ row' = [row EXCEPT ![job[p]] = seen[p]]
        /\ UNCHANGED <<pending, detached, batch, job, seen, due>>
    BY <1>9 DEF Stored, Resume
  <2>2. /\ row[job[p]] <= seen[p]
        /\ row \in [Records -> Nat] /\ due \in [Records -> Nat]
        /\ seen \in [Threads -> Nat]
    BY <2>1 DEF InOrder, OneStores, Busy
  <2>3. row[r] < due[r] /\ (job[p] = r => seen[p] < due[r])
    BY <2>1, <2>2
  <2>4. ~Carries(p, r)
    BY <2>1, <2>2, <2>3 DEF Carries, Busy
  <2>5. Carried(r)
    BY <2>3
  <2>6. ASSUME NEW q \in Threads, Carries(q, r)
        PROVE  Carries(q, r)'
    BY <2>1, <2>4, <2>6 DEF Carries, Busy
  <2>. QED
    BY <2>1, <2>5, <2>6 DEF Carried
<1>10. ASSUME NEW p \in Threads, StoreFails(p)
       PROVE  Carried(r)'
  <2>1. CASE job[p] = r
    BY <1>10, <2>1 DEF StoreFails, PutBack, Carried
  <2>2. CASE job[p] # r
    <3>1. batch["drain"] \cup batch["close"] \subseteq
            batch'["drain"] \cup batch'["close"]
      BY <1>10 DEF StoreFails, GiveUp
    <3>. QED
      BY <1>10, <2>2, <3>1 DEF StoreFails, PutBack, Carried, Carries, Busy
  <2>. QED
    BY <2>1, <2>2
<1>11. CASE DrainTake
  BY <1>11 DEF DrainTake, Carried, Carries, Busy
<1>12. CASE DrainExit
  BY <1>12 DEF DrainExit, Carried, Carries, Busy
<1>13. ASSUME NEW p \in {"drain", "close"}, FlushNext(p)
       PROVE  Carried(r)'
  <2>1. PICK s \in batch[p] : /\ batch' = [batch EXCEPT ![p] = @ \ {s}]
                              /\ job' = [job EXCEPT ![p] = s] /\ Pop(s)
    BY <1>13 DEF FlushNext
  <2>2. CASE s = r
    <3>1. Carries(p, r)'
      BY <1>13, <2>1, <2>2 DEF FlushNext, Carries
    <3>. QED
      BY <3>1 DEF Carried
  <2>3. CASE s # r
    BY <1>13, <2>1, <2>3 DEF FlushNext, Pop, Carried, Carries, Busy
  <2>. QED
    BY <2>2, <2>3
<1>14. CASE CloseStop
  BY <1>14 DEF CloseStop, CloseWaits, Carried, Carries, Busy
<1>15. CASE CloseTake
  BY <1>15 DEF CloseTake, CloseWaits, Carried, Carries, Busy
<1>16. ASSUME NEW s \in Records, HandOver(s)
       PROVE  Carried(r)'
  BY <1>16 DEF HandOver, Carried, Carries, Busy
<1>17. CASE UNCHANGED vars
  BY <1>17 DEF vars, Carried, Carries, Busy
<1>. QED
  BY <1>1, <1>2, <1>3, <1>4, <1>5, <1>6, <1>7, <1>8, <1>9, <1>10, <1>11,
     <1>12, <1>13, <1>14, <1>15, <1>16, <1>17 DEF Next, System, Saving

-----------------------------------------------------------------------------
(* The theorems about the writer *)

\* The invariant is inductive.
LEMMA WriterStep == WriterInv /\ [Next]_vars => WriterInv'
<1> SUFFICES ASSUME WriterInv, [Next]_vars
             PROVE  WriterInv'
  OBVIOUS
<1>1. TypeOK' /\ CloseWaits' /\ CleanCheckpoint' /\ OneStores' /\ InOrder'
  BY TypeStep, CloseWaitsStep, CleanStep, OneStoresStep, InOrderStep DEF WriterInv
<1>2. ASSUME NEW r \in Records, row'[r] < due'[r]
      PROVE  Carried(r)'
  BY <1>2, CarriedStep
<1>. QED
  BY <1>1, <1>2 DEF WriterInv

\* Serials order the saves of a record, one thread stores at a time, and a
\* version that was asked for and is not stored is with somebody who will store
\* it (TaskSnapshotWriter and _write_task_snapshot).
THEOREM WriterInvariant == Spec => []WriterInv
BY WriterInit, WriterStep, PTL DEF Spec

\* Neither a version somebody asked to be saved nor new evidence is passed over,
\* whatever fails and however saves of one record overlap
\* (TaskSnapshotWriter.flush and close, _update_checkpoint).
THEOREM NothingIsPassedOver == Spec => []NothingPassedOver
<1>1. WriterInv => NothingPassedOver
  <2> SUFFICES ASSUME WriterInv
               PROVE  NothingForgotten
    BY DEF WriterInv, NothingPassedOver
  <2>1. ASSUME NEW r \in Records, Carried(r)
        PROVE  r \in pending \cup detached \/ Held(r)
    BY <2>1 DEF Carried, Carries, Busy, Held
  <2>. QED
    BY <2>1 DEF WriterInv, NothingForgotten
<1>. QED
  BY <1>1, WriterInvariant, PTL

-----------------------------------------------------------------------------
(* The refinement of DurableRecords *)

\* The initial state is one of the promise.
LEMMA PromiseInit == Init => Durable!Init
BY DEF Init, Durable!Init

\* Excuses are only added.
LEMMA Excused ==
    ASSUME TypeOK', UNCHANGED <<version, due, row>>,
           detached \cup lost \cup late \subseteq detached' \cup lost' \cup late'
    PROVE  Durable!Next
<1>1. detached' \cup lost' \cup late' \in SUBSET Records
  BY DEF TypeOK
<1>. QED
  BY <1>1 DEF Durable!Next, Durable!Excuse

\* Every step of the writer is one of the promise, or none.
LEMMA PromiseStep == WriterInv /\ [Next]_vars => [Durable!Next]_(Durable!vars)
<1> SUFFICES ASSUME WriterInv, [Next]_vars
             PROVE  Durable!Next \/ UNCHANGED Durable!vars
  OBVIOUS
<1> USE ThreadNames DEF Durable!vars, memory, table, disk, drains
<1>. TypeOK /\ TypeOK'
  BY TypeStep DEF WriterInv
<1>1. ASSUME NEW c \in Callers, NEW r \in Records, Change(c, r)
      PROVE  Durable!Next
  <2>1. Durable!Change(r)
    BY <1>1 DEF Change, Durable!Change
  <2>. QED
    BY <2>1 DEF Durable!Next
<1>2. ASSUME NEW c \in Callers, Enqueue(c) \/ FlushNow(c)
      PROVE  Durable!Next \/ UNCHANGED Durable!vars
  <2>1. job[c] \in Records
    BY DEF TypeOK
  <2>2. CASE UNCHANGED due
    BY <1>2, <2>2 DEF Enqueue, FlushNow
  <2>3. CASE due' = [due EXCEPT ![job[c]] = version[job[c]]]
    <3>1. Durable!Ask(job[c])
      BY <1>2, <2>3 DEF Enqueue, FlushNow, Durable!Ask
    <3>. QED
      BY <2>1, <3>1 DEF Durable!Next
  <2>. QED
    BY <1>2, <2>2, <2>3 DEF Enqueue, FlushNow
<1>3. ASSUME NEW p \in Threads, Prepare(p) \/ Digest(p) \/ Read(p) \/ Enter(p)
      PROVE  UNCHANGED Durable!vars
  BY <1>3 DEF Prepare, Digest, Read, Enter
<1>4. ASSUME NEW p \in Threads, Stored(p)
      PROVE  Durable!Next \/ UNCHANGED Durable!vars
  <2>1. /\ row' = [row EXCEPT ![job[p]] = seen[p]]
        /\ UNCHANGED <<version, due, detached, lost, late>>
    BY <1>4 DEF Stored, Resume
  <2>2. row[job[p]] <= seen[p] /\ seen[p] <= version[job[p]]
    <3>1. /\ mark[p] > committed[job[p]] /\ Busy(p)
      BY <1>4 DEF WriterInv, OneStores, Stored, Busy
    <3>. QED
      BY <3>1 DEF WriterInv, InOrder
  <2>3. /\ job[p] \in Records /\ row \in [Records -> Nat]
        /\ seen[p] \in Nat /\ version[job[p]] \in Nat /\ row[job[p]] \in Nat
    BY BoundsAssumption DEF TypeOK, Versions
  <2>4. CASE row[job[p]] = seen[p]
    <3>1. row' = row
      BY <2>1, <2>3, <2>4
    <3>. QED
      BY <2>1, <3>1
  <2>5. CASE row[job[p]] # seen[p]
    <3>1. seen[p] \in row[job[p]] + 1 .. version[job[p]]
      BY <2>2, <2>3, <2>5
    <3>2. Durable!Land(job[p])
      BY <2>1, <3>1 DEF Durable!Land
    <3>. QED
      BY <2>3, <3>2 DEF Durable!Next
  <2>. QED
    BY <2>4, <2>5
<1>5. ASSUME NEW p \in Threads, StoreFails(p)
      PROVE  Durable!Next
  <2>1. /\ UNCHANGED <<version, due, row, detached>>
        /\ late \subseteq late' /\ lost \subseteq lost'
    BY <1>5 DEF StoreFails, PutBack, GiveUp
  <2>. QED
    BY <2>1, Excused
<1>6. ASSUME NEW r \in Records, HandOver(r)
      PROVE  Durable!Next
  BY <1>6, Excused DEF HandOver
<1>7. ASSUME \/ \E c \in Callers : FlushDetached(c)
             \/ DrainTake \/ DrainExit \/ CloseTake \/ CloseStop
             \/ \E p \in {"drain", "close"} : FlushNext(p)
             \/ UNCHANGED vars
      PROVE  UNCHANGED Durable!vars
  BY <1>7 DEF FlushDetached, DrainTake, DrainExit, CloseTake, CloseStop,
              FlushNext, vars
<1>. QED
  BY <1>1, <1>2, <1>3, <1>4, <1>5, <1>6, <1>7 DEF Next, System, Saving

\* The writer keeps the safety half of its promise: rows only move forward, to
\* versions the record has had (TaskSnapshotWriter, _write_task_snapshot).
THEOREM RowsOnlyMoveForward == Spec => RowsMoveForward
<1>1. Spec => Durable!Init /\ [][Durable!Next]_(Durable!vars)
  BY PromiseInit, PromiseStep, WriterInvariant, PTL DEF Spec
<1>. QED
  BY <1>1 DEF RowsMoveForward, Durable!Safely

-----------------------------------------------------------------------------
(* The turns of a task *)

LEMMA Bounds ==
    MaxChanges \in Nat /\ MaxRecoveries \in Nat /\ MaxRepairs \in Nat /\ MaxContinues \in Nat
BY LimitsAssumption

\* The invariant holds when the task starts.
LEMMA TaskStart == TaskInit => TaskInv
<1>. SUFFICES ASSUME TaskInit PROVE TaskInv
  OBVIOUS
<1>1. /\ {cancelled, wrote, red, skipped, active} \subseteq BOOLEAN
      /\ {workspace, snap, wroteAt, passedAt} \subseteq 0..MaxChanges
  <2>1. {cancelled, wrote, red, skipped, active} \subseteq BOOLEAN
    BY DEF TaskInit
  <2>2. {workspace, snap, wroteAt, passedAt} \subseteq 0..MaxChanges
    BY Bounds DEF TaskInit
  <2>. QED
    BY <2>1, <2>2
<1>2. /\ again \in [{"provider", "agent"} -> 0..MaxRecoveries]
      /\ repairs \in 0..MaxRepairs /\ continues \in 0..MaxContinues
  BY Bounds DEF TaskInit
<1>3. TaskTypeOK
  BY <1>1, <1>2 DEF TaskInit, TaskTypeOK, Evidence
<1>4. ReviewIsVerified /\ CompletionIsVerified
  BY DEF TaskInit, ReviewIsVerified, CompletionIsVerified
<1>. QED
  BY <1>3, <1>4 DEF TaskInv

-----------------------------------------------------------------------------
\* Where a run of the agent leads: never to a completed task, and to a review
\* only when nothing was written.
LEMMA RouteFact ==
    ASSUME TaskTypeOK, ReviewIsVerified, phase = "run", NEW how \in Ends, Route(how)
    PROVE  /\ phase' \in {"run", "verify", "review", "done"}
           /\ status' \in {"running", "failed", "cancelled"}
           /\ phase' # "done" => status' = "running"
           /\ phase' = "review" => ~wrote'
           /\ again' \in [{"provider", "agent"} -> 0..MaxRecoveries]
<1>1. status = "running"
  BY DEF ReviewIsVerified
<1>2. ASSUME NEW who \in {"provider", "agent"}, Recover(who)
      PROVE  /\ \/ phase' = "run" /\ status' = "running"
                \/ phase' = "done" /\ status' = "failed"
             /\ again' \in [{"provider", "agent"} -> 0..MaxRecoveries]
  <2>1. CASE again[who] < MaxRecoveries /\ GoOn("run")
             /\ again' = [again EXCEPT ![who] = @ + 1]
    <3>1. again[who] + 1 \in 0..MaxRecoveries
      BY <2>1, Bounds DEF TaskTypeOK
    <3>. QED
      BY <1>1, <2>1, <3>1 DEF GoOn, TaskTypeOK
  <2>2. CASE Finish("failed") /\ UNCHANGED again
    BY <2>2 DEF Finish, TaskTypeOK
  <2>. QED
    BY <1>2, <2>1, <2>2 DEF Recover
<1>3. CASE how = "transient" /\ Recover("provider")
  BY <1>2, <1>3
<1>4. CASE how = "stuck" /\ Recover("agent")
  BY <1>2, <1>4
<1>5. CASE (Finish("cancelled") \/ Finish("failed")) /\ UNCHANGED again
  BY <1>5 DEF Finish, TaskTypeOK
<1>6. CASE /\ UNCHANGED again
           /\ IF wrote' THEN GoOn("verify")
              ELSE IF how \in Good THEN GoOn("review") ELSE Finish("failed")
  BY <1>1, <1>6 DEF GoOn, Finish, TaskTypeOK
<1>. QED
  BY <1>3, <1>4, <1>5, <1>6 DEF Route

LEMMA RunStep ==
    ASSUME TaskInv, RunAgent
    PROVE  TaskInv'
<1>1. TaskTypeOK /\ ReviewIsVerified /\ phase = "run"
  BY DEF TaskInv, RunAgent
<1>2. PICK how \in Ends, edit \in BOOLEAN, trail \in Evidence, bad \in BOOLEAN :
         /\ edit => workspace < MaxChanges
         /\ red' = bad /\ wrote' = (wrote \/ edit)
         /\ workspace' = IF edit THEN workspace + 1 ELSE workspace
         /\ wroteAt' = IF edit THEN workspace + 1 ELSE wroteAt
         /\ listed' = IF edit \/ trail = "check" \/ listed = "none" THEN trail ELSE listed
         /\ active' = (active \/ edit \/ trail # "none")
         /\ unsettled' = IF how \in {"guard", "stuck"} THEN how ELSE "none"
         /\ Route(how)
  BY DEF RunAgent
<1>3. UNCHANGED <<cancelled, verdict, skipped, snap, repairs, continues, unknowns, passedAt>>
  BY DEF RunAgent, verified
<1>4. /\ phase' \in {"run", "verify", "review", "done"}
      /\ status' \in {"running", "failed", "cancelled"}
      /\ phase' # "done" => status' = "running"
      /\ phase' = "review" => ~wrote'
      /\ again' \in [{"provider", "agent"} -> 0..MaxRecoveries]
  BY <1>1, <1>2, RouteFact
<1>5. /\ workspace' \in 0..MaxChanges /\ wroteAt' \in 0..MaxChanges
      /\ workspace <= workspace' /\ wroteAt' <= workspace' /\ snap' <= workspace'
  BY <1>1, <1>2, <1>3, Bounds DEF TaskTypeOK, ReviewIsVerified
<1>6. {cancelled', wrote', red', skipped', active'} \subseteq BOOLEAN
  <2>1. wrote' \in BOOLEAN /\ active' \in BOOLEAN /\ red' \in BOOLEAN
    BY <1>2
  <2>2. cancelled' \in BOOLEAN /\ skipped' \in BOOLEAN
    BY <1>1, <1>3 DEF TaskTypeOK
  <2>. QED
    BY <2>1, <2>2
<1>7. listed' \in Evidence /\ unsettled' \in {"none", "guard", "stuck"}
  BY <1>1, <1>2 DEF TaskTypeOK
<1>8. TaskTypeOK'
  BY <1>1, <1>3, <1>4, <1>5, <1>6, <1>7 DEF TaskTypeOK
<1>9. ReviewIsVerified' /\ CompletionIsVerified'
  BY <1>4, <1>5 DEF ReviewIsVerified, CompletionIsVerified
<1>. QED
  BY <1>8, <1>9 DEF TaskInv

\* The verifier starts on the workspace as it is, and brings a task that wrote
\* to its review only with a pass on that, or with nothing to run.
LEMMA VerifyStep ==
    ASSUME TaskInv, Verify
    PROVE  TaskInv'
<1>1. /\ TaskTypeOK /\ ReviewIsVerified /\ status = "running"
      /\ wroteAt <= workspace /\ workspace \in Nat
  BY Bounds DEF TaskInv, TaskTypeOK, ReviewIsVerified, Verify
<1>2. /\ snap' = workspace
      /\ UNCHANGED <<cancelled, workspace, wrote, listed, red, verdict, again, repairs,
                     continues, unknowns, wroteAt, passedAt>>
  BY DEF Verify, evidence, counters, history
<1>3. \/ phase' = "done" /\ status' = "cancelled" /\ UNCHANGED <<skipped, active, unsettled>>
      \/ /\ phase' = "checking" /\ status' = "running" /\ skipped' = FALSE
         /\ UNCHANGED <<active, unsettled>>
      \/ /\ phase' = "review" /\ status' = "running" /\ skipped' = TRUE
         /\ active' = TRUE /\ unsettled' = "none"
  BY <1>1 DEF Verify, Finish, GoOn
<1>4. skipped' \in BOOLEAN /\ active' \in BOOLEAN
  BY <1>1, <1>3 DEF TaskTypeOK
<1>5. unsettled' \in {"none", "guard", "stuck"}
  BY <1>1, <1>3 DEF TaskTypeOK
<1>6. TaskTypeOK'
  BY <1>1, <1>2, <1>3, <1>4, <1>5 DEF TaskTypeOK
<1>7. ReviewIsVerified' /\ CompletionIsVerified'
  BY <1>1, <1>2, <1>3 DEF ReviewIsVerified, CompletionIsVerified
<1>. QED
  BY <1>6, <1>7 DEF TaskInv

LEMMA VerdictStep ==
    ASSUME TaskInv, VerifyPasses \/ VerifyFails \/ VerifyStops
    PROVE  TaskInv'
<1>1. TaskTypeOK /\ ReviewIsVerified /\ phase = "checking" /\ status = "running"
  BY DEF TaskInv, ReviewIsVerified, VerifyPasses, VerifyFails, VerifyStops
<1>2. CASE VerifyPasses
  <2>1. /\ phase' = "review" /\ status' = "running" /\ workspace = snap
        /\ verdict' = "passed" /\ passedAt' = snap /\ unsettled' = "none"
        /\ listed' = "check" /\ active' = TRUE /\ red' \in {red, FALSE}
        /\ UNCHANGED <<cancelled, workspace, wrote, skipped, snap, again, repairs, continues,
                       unknowns, wroteAt>>
    BY <1>1, <1>2 DEF VerifyPasses, GoOn, counters
  <2>2. red' \in BOOLEAN /\ active' \in BOOLEAN
    BY <1>1, <2>1 DEF TaskTypeOK
  <2>3. TaskTypeOK'
    BY <1>1, <2>1, <2>2 DEF TaskTypeOK, Evidence
  <2>4. ReviewIsVerified' /\ CompletionIsVerified'
    BY <1>1, <2>1 DEF ReviewIsVerified, CompletionIsVerified
  <2>. QED
    BY <2>3, <2>4 DEF TaskInv
<1>3. CASE VerifyFails
  <2>1. /\ \/ phase' = "run" /\ status' = "running"
           \/ phase' = "done" /\ status' = "failed"
        /\ verdict' = "failed" /\ active' = TRUE
        /\ UNCHANGED <<cancelled, workspace, wrote, listed, red, skipped, snap, unsettled, again,
                       continues, unknowns, wroteAt, passedAt>>
    BY <1>1, <1>3 DEF VerifyFails, GoOn, Finish, evidence, history
  <2>2. repairs' \in 0..MaxRepairs
    BY <1>1, <1>3, Bounds DEF VerifyFails, TaskTypeOK
  <2>3. active' \in BOOLEAN
    BY <2>1
  <2>4. TaskTypeOK'
    BY <1>1, <2>1, <2>2, <2>3 DEF TaskTypeOK
  <2>5. ReviewIsVerified' /\ CompletionIsVerified'
    BY <1>1, <2>1 DEF ReviewIsVerified, CompletionIsVerified
  <2>. QED
    BY <2>4, <2>5 DEF TaskInv
<1>4. CASE VerifyStops
  <2>1. /\ phase' = "done" /\ status' \in {"failed", "cancelled"}
        /\ UNCHANGED <<cancelled, workspace, evidence, verified, unsettled, counters, active,
                       history>>
    BY <1>4 DEF VerifyStops, Finish
  <2>2. TaskTypeOK'
    BY <1>1, <2>1 DEF TaskTypeOK, evidence, verified, counters, history
  <2>3. ReviewIsVerified' /\ CompletionIsVerified'
    BY <1>1, <2>1 DEF ReviewIsVerified, CompletionIsVerified, evidence, verified, history
  <2>. QED
    BY <2>2, <2>3 DEF TaskInv
<1>. QED
  BY <1>2, <1>3, <1>4

\* The reviewer's word completes a task only when the evidence supports it.
LEMMA ReviewStep ==
    ASSUME TaskInv, Review
    PROVE  TaskInv'
<1>1. /\ TaskTypeOK /\ ReviewIsVerified /\ phase = "review" /\ status = "running"
  BY DEF TaskInv, ReviewIsVerified, Review
<1>2. UNCHANGED <<cancelled, workspace, wrote, listed, red, verdict, skipped, snap, unsettled,
                  again, repairs, wroteAt, passedAt>>
  BY DEF Review, evidence, verified, history
<1>3. /\ \/ phase' = "run" /\ status' = "running"
         \/ phase' = "done" /\ status' \in {"failed", "cancelled"}
         \/ phase' = "done" /\ status' = "completed" /\ Enforced = "complete"
      /\ active' \in {active, FALSE} /\ unknowns' \in {unknowns, 1}
      /\ \/ continues' = continues
         \/ continues < MaxContinues /\ continues' = continues + 1
  <2>1. PICK says \in {"complete", "continue", "blocked", "unknown"}, same \in BOOLEAN :
          LET decision == IF says = "complete" THEN Enforced ELSE says
          IN \/ Finish("cancelled") /\ UNCHANGED <<continues, unknowns, active>>
             \/ /\ decision = "complete" /\ Finish("completed")
                /\ UNCHANGED <<continues, unknowns, active>>
             \/ /\ decision = "continue" /\ active' = FALSE /\ UNCHANGED unknowns
                /\ IF continues < MaxContinues /\ ~(same /\ ~active)
                   THEN GoOn("run") /\ continues' = continues + 1
                   ELSE Finish("failed") /\ UNCHANGED continues
             \/ /\ decision = "unknown" /\ UNCHANGED <<continues, active>>
                /\ IF unknowns = 0 THEN GoOn("run") /\ unknowns' = 1
                   ELSE Finish("failed") /\ UNCHANGED unknowns
             \/ Finish("failed") /\ UNCHANGED <<continues, unknowns, active>>
    BY DEF Review
  <2>2. says = "complete" \/ (says # "complete" /\ says \in {"continue", "blocked", "unknown"})
    BY <2>1
  <2>. QED
    BY <1>1, <2>1, <2>2 DEF Finish, GoOn
<1>4. active' \in BOOLEAN /\ unknowns' \in 0..1 /\ continues' \in 0..MaxContinues
  <2>1. active' \in BOOLEAN
    BY <1>1, <1>3 DEF TaskTypeOK
  <2>2. unknowns' \in 0..1 /\ continues' \in 0..MaxContinues
    BY <1>1, <1>3, Bounds DEF TaskTypeOK
  <2>. QED
    BY <2>1, <2>2
<1>5. TaskTypeOK'
  BY <1>1, <1>2, <1>3, <1>4 DEF TaskTypeOK
<1>6. Enforced = "complete" /\ wrote => passedAt >= wroteAt \/ (skipped /\ listed # "none")
  BY <1>1 DEF Enforced, Observed, ReviewIsVerified
<1>7. ReviewIsVerified' /\ CompletionIsVerified'
  BY <1>1, <1>2, <1>3, <1>6 DEF ReviewIsVerified, CompletionIsVerified
<1>. QED
  BY <1>5, <1>7 DEF TaskInv

\* Cancellation and the user's edits take no verdict away and give none.
LEMMA OutsideStep ==
    ASSUME TaskInv, CancelTask \/ UserEdits
    PROVE  TaskInv'
<1>1. TaskTypeOK /\ ReviewIsVerified /\ CompletionIsVerified
  BY DEF TaskInv
<1>2. CASE CancelTask
  <2>1. cancelled' \in BOOLEAN
    BY <1>2 DEF CancelTask
  <2>2. UNCHANGED <<phase, status, workspace, evidence, verified, unsettled, counters, active,
                    history>>
    BY <1>2 DEF CancelTask
  <2>. QED
    BY <1>1, <2>1, <2>2 DEF TaskInv, TaskTypeOK, ReviewIsVerified, CompletionIsVerified,
                            evidence, verified, counters, history
<1>3. CASE UserEdits
  <2>1. /\ workspace < MaxChanges /\ workspace' = workspace + 1 /\ phase # "done"
        /\ UNCHANGED <<phase, status, cancelled, evidence, verified, unsettled, counters,
                       active, history>>
    BY <1>3 DEF UserEdits
  <2>2. workspace' \in 0..MaxChanges /\ workspace <= workspace'
    BY <1>1, <2>1, Bounds DEF TaskTypeOK
  <2>3. TaskTypeOK'
    BY <1>1, <2>1, <2>2 DEF TaskTypeOK, evidence, verified, counters, history
  <2>4. ReviewIsVerified'
    BY <1>1, <2>1, <2>2, Bounds DEF TaskTypeOK, ReviewIsVerified, evidence, verified, history
  <2>5. CompletionIsVerified'
    BY <1>1, <2>1 DEF CompletionIsVerified, evidence, verified, history
  <2>. QED
    BY <2>3, <2>4, <2>5 DEF TaskInv
<1>. QED
  BY <1>2, <1>3

\* Every step keeps the invariant.
LEMMA TaskKeeps == TaskInv /\ [TaskNext]_taskVars => TaskInv'
<1>. SUFFICES ASSUME TaskInv, [TaskNext]_taskVars PROVE TaskInv'
  OBVIOUS
<1>1. CASE TaskNext
  BY <1>1, RunStep, VerifyStep, VerdictStep, ReviewStep, OutsideStep DEF TaskNext, TaskStep
<1>2. CASE UNCHANGED taskVars
  BY <1>2 DEF taskVars, evidence, verified, counters, history, TaskInv, TaskTypeOK,
              ReviewIsVerified, CompletionIsVerified
<1>. QED
  BY <1>1, <1>2

\* A task that wrote meets its reviewer only over a verification of what it
\* wrote, for any budgets of recoveries, repairs and reviews.
THEOREM TaskInvariant == TaskSpec => []TaskInv
<1>. QED
  BY TaskStart, TaskKeeps, PTL DEF TaskSpec

\* And it is completed only on that verification, or on evidence when there was
\* nothing to run.
THEOREM CompletionsAreVerified == TaskSpec => []CompletionIsVerified
<1>1. TaskInv => CompletionIsVerified
  BY DEF TaskInv
<1>. QED
  BY TaskInvariant, <1>1, PTL

-----------------------------------------------------------------------------
\* What the newest n of a sequence are.
LEMMA NewestFact ==
    ASSUME NEW T, NEW s \in Seq(T), NEW n \in Nat
    PROVE  /\ Newest(s, n) \in Seq(T)
           /\ Len(Newest(s, n)) = IF Len(s) > n THEN n ELSE Len(s)
           /\ \A i \in 1..Len(Newest(s, n)) :
                Newest(s, n)[i] = s[Len(s) - Len(Newest(s, n)) + i]
<1>1. CASE Len(s) > n
  <2>1. Newest(s, n) = SubSeq(s, Len(s) - n + 1, Len(s))
    BY <1>1 DEF Newest
  <2>. QED
    BY <1>1, <2>1
<1>2. CASE ~(Len(s) > n)
  <2>1. Newest(s, n) = s
    BY <1>2 DEF Newest
  <2>. QED
    BY <1>2, <2>1
<1>. QED
  BY <1>1, <1>2

\* The window of an output of n positions ends with position n.
LEMMA WindowFact ==
    ASSUME NEW n \in Nat, NEW w \in Nat
    PROVE  LET s == Newest(Positions(n), w)
           IN /\ s \in Seq(Nat) /\ Len(s) = IF n > w THEN w ELSE n
              /\ \A i \in 1..Len(s) : s[i] = n - Len(s) + i
<1>. DEFINE p == Positions(n)
            s == Newest(p, w)
<1>1. /\ p \in Seq(Nat) /\ Len(p) = n
      /\ \A i \in 1..n : p[i] = i
  BY DEF Positions
<1>. HIDE DEF p
<1>2. /\ s \in Seq(Nat) /\ Len(s) = IF n > w THEN w ELSE n
      /\ \A i \in 1..Len(s) : s[i] = p[n - Len(s) + i]
  BY <1>1, NewestFact
<1>. HIDE DEF s
<1>3. ASSUME NEW i \in 1..Len(s) PROVE s[i] = n - Len(s) + i
  <2>1. Len(s) \in Nat /\ Len(s) <= n
    BY <1>2
  <2>2. n - Len(s) + i \in 1..n
    BY <2>1
  <2>. QED
    BY <1>1, <1>2, <2>2
<1>. QED
  BY <1>2, <1>3 DEF s, p

\* Two sequences of one length with the same elements are one.
LEMMA SameSequence ==
    ASSUME NEW T, NEW s \in Seq(T), NEW t \in Seq(T), Len(s) = Len(t),
           \A i \in 1..Len(s) : s[i] = t[i]
    PROVE  s = t
OBVIOUS

LEMMA TailFact ==
    ASSUME NEW T, NEW s \in Seq(T), NEW a \in 1..Len(s)
    PROVE  /\ SubSeq(s, a, Len(s)) \in Seq(T)
           /\ Len(SubSeq(s, a, Len(s))) = Len(s) - a + 1
           /\ \A i \in 1..Len(s) - a + 1 : SubSeq(s, a, Len(s))[i] = s[a + i - 1]
OBVIOUS

\* A window grows by what follows it, or is replaced by a later one.
LEMMA GrowWindow ==
    ASSUME NEW a \in Nat, NEW b \in Nat, a <= b, NEW w \in Nat, NEW c \in Seq(Nat),
           \A i \in 1..Len(c) : c[i] = b - Len(c) + i,
           Len(c) = b - a \/ (Len(c) = w /\ w <= b - a)
    PROVE  Newest(Newest(Positions(a), w) \o c, w) = Newest(Positions(b), w)
<1>. DEFINE s == Newest(Positions(a), w)
            u == s \o c
            t == Newest(Positions(b), w)
<1>1. /\ s \in Seq(Nat) /\ Len(s) = IF a > w THEN w ELSE a
      /\ \A i \in 1..Len(s) : s[i] = a - Len(s) + i
  BY WindowFact
<1>2. /\ t \in Seq(Nat) /\ Len(t) = IF b > w THEN w ELSE b
      /\ \A i \in 1..Len(t) : t[i] = b - Len(t) + i
  BY WindowFact
<1>. HIDE DEF s, t
<1>. DEFINE ls == Len(s)
            lc == Len(c)
            lt == Len(t)
<1>3. /\ ls \in Nat /\ lc \in Nat /\ lt \in Nat
      /\ lc = b - a \/ (lc = w /\ w <= b - a)
  BY <1>1, <1>2
<1>4. /\ u \in Seq(Nat) /\ Len(u) = ls + lc
      /\ \A i \in 1..ls : u[i] = s[i]
      /\ \A i \in 1..lc : u[ls + i] = c[i]
  <2>1. /\ u \in Seq(Nat) /\ Len(u) = ls + lc
        /\ \A i \in 1..ls + lc : u[i] = IF i <= ls THEN s[i] ELSE c[i - ls]
    BY <1>1, ConcatProperties
  <2>. HIDE DEF u, ls, lc
  <2>2. ASSUME NEW i \in 1..lc PROVE u[ls + i] = c[i]
    <3>. DEFINE j == ls + i
    <3>1. j \in 1..ls + lc /\ ~(j <= ls) /\ j - ls = i
      BY <1>3
    <3>. HIDE DEF j
    <3>2. u[j] = c[j - ls]
      BY <2>1, <3>1
    <3>. QED
      BY <3>1, <3>2 DEF j
  <2>3. ASSUME NEW i \in 1..ls PROVE u[i] = s[i]
    <3>1. i \in 1..ls + lc /\ i <= ls
      BY <1>3
    <3>. QED
      BY <2>1, <3>1
  <2>. QED
    BY <2>1, <2>2, <2>3
<1>. HIDE DEF u
<1>. DEFINE n == Newest(u, w)
<1>5. /\ n \in Seq(Nat) /\ Len(n) = IF Len(u) > w THEN w ELSE Len(u)
      /\ \A i \in 1..Len(n) : n[i] = u[Len(u) - Len(n) + i]
  <2>. HIDE DEF ls, lc, lt
  <2>1. u \in Seq(Nat)
    BY <1>4
  <2>. QED
    BY <2>1, NewestFact
<1>. HIDE DEF n
<1>6. ls = (IF a > w THEN w ELSE a) /\ lt = (IF b > w THEN w ELSE b)
  BY <1>1, <1>2
<1>7. /\ \A i \in 1..ls : s[i] = a - ls + i
      /\ \A i \in 1..lc : c[i] = b - lc + i
      /\ \A i \in 1..lt : t[i] = b - lt + i
  BY <1>1, <1>2
<1>. HIDE DEF ls, lc, lt
<1>8. lt = IF ls + lc > w THEN w ELSE ls + lc
  BY <1>3, <1>6
<1>9. Len(n) = lt /\ Len(u) = ls + lc
  BY <1>4, <1>5, <1>8
<1>10. ASSUME NEW i \in 1..lt PROVE n[i] = t[i]
  <2>. DEFINE j == ls + lc - lt + i
  <2>1. n[i] = u[j] /\ t[i] = b - lt + i
    <3>1. j = Len(u) - Len(n) + i
      BY <1>9, <1>3, <1>4, <1>5
    <3>2. n[i] = u[Len(u) - Len(n) + i]
      BY <1>5, <1>9
    <3>. QED
      BY <1>7, <3>1, <3>2
  <2>2. j \in 1..(ls + lc) /\ i \in Nat
    BY <1>3, <1>8
  <2>. HIDE DEF j
  <2>3. CASE j <= ls
    <3>1. u[j] = a - ls + j
      BY <1>3, <1>4, <1>7, <2>2, <2>3
    <3>2. lc = b - a
      BY <1>3, <1>6, <1>8, <2>2, <2>3 DEF j
    <3>. QED
      BY <1>3, <2>1, <2>2, <3>1, <3>2 DEF j
  <2>4. CASE ~(j <= ls)
    <3>1. j - ls \in 1..lc /\ ls + (j - ls) = j
      BY <1>3, <2>2, <2>4
    <3>2. u[j] = b - lc + (j - ls)
      BY <1>4, <1>7, <3>1
    <3>. QED
      BY <1>3, <2>1, <2>2, <3>2 DEF j
  <2>. QED
    BY <2>3, <2>4
<1>11. Len(t) = lt
  BY DEF lt
<1>12. n = t
  BY <1>2, <1>5, <1>9, <1>10, <1>11, SameSequence
<1>. QED
  BY <1>12 DEF s, t, u, n

\* The numbers of an interval in ascending order.
LEMMA AscendingFact ==
    ASSUME NEW lo \in Nat, NEW n \in Nat, lo <= n + 1
    PROVE  Ascending(lo..n) = [k \in 1..(n - lo + 1) |-> lo + k - 1]
<1>1. Cardinality(lo..n) = n - lo + 1
  BY FS_Interval
<1>2. ASSUME NEW i \in lo..n PROVE Cardinality({j \in lo..n : j <= i}) = i - lo + 1
  <2>1. {j \in lo..n : j <= i} = lo..i
    OBVIOUS
  <2>2. Cardinality(lo..i) = i - lo + 1
    BY FS_Interval
  <2>. QED
    BY <2>1, <2>2
<1>3. ASSUME NEW k \in 1..(n - lo + 1)
      PROVE  (CHOOSE i \in lo..n : Cardinality({j \in lo..n : j <= i}) = k) = lo + k - 1
  <2>1. lo + k - 1 \in lo..n
    OBVIOUS
  <2>2. Cardinality({j \in lo..n : j <= lo + k - 1}) = k
    <3>1. Cardinality({j \in lo..n : j <= lo + k - 1}) = (lo + k - 1) - lo + 1
      BY <1>2, <2>1
    <3>. QED
      BY <3>1
  <2>3. ASSUME NEW i \in lo..n, Cardinality({j \in lo..n : j <= i}) = k
        PROVE  i = lo + k - 1
    BY <1>2, <2>3
  <2>. QED
    BY <2>1, <2>2, <2>3
<1>. QED
  BY <1>1, <1>3 DEF Ascending

-----------------------------------------------------------------------------
Logs == [next : Nat, kept : Seq(Entries)]

Numbered(l) ==
    /\ Len(l.kept) <= l.next
    /\ \A k \in DOMAIN l.kept : l.kept[k].seq = l.next - Len(l.kept) + k

LEMMA StampedFact ==
    ASSUME NEW l \in Logs, NEW events \in Seq(Events)
    PROVE  /\ Stamped(l, events) \in Seq(Entries)
           /\ Len(Stamped(l, events)) = Len(events)
           /\ \A k \in 1..Len(events) : /\ Stamped(l, events)[k].seq = l.next + k
                                       /\ Stamped(l, events)[k].event = events[k]
<1>1. \A k \in 1..Len(events) : events[k] \in Events /\ l.next + k \in Nat
  BY DEF Logs
<1>2. Stamped(l, events) = [k \in 1..Len(events) |-> [seq |-> l.next + k, event |-> events[k]]]
  BY DEF Stamped
<1>3. \A k \in 1..Len(events) : [seq |-> l.next + k, event |-> events[k]] \in Entries
  BY <1>1 DEF Entries
<1>. QED
  BY <1>2, <1>3

\* The entries of a log after some more events: the oldest d of all are
\* gone, and the others are numbered without a hole.
LEMMA PublishFact ==
    ASSUME NEW l \in Logs, Numbered(l), Limit \in Nat, NEW events \in Seq(Events)
    PROVE  LET m == Publish(l, events)
           IN /\ m \in Logs /\ Len(m.kept) <= Limit /\ Numbered(m)
              /\ m.next = l.next + Len(events)
              /\ \E d \in Nat :
                   /\ d + Len(m.kept) = Len(l.kept) + Len(events)
                   /\ \A k \in 1..Len(m.kept) :
                        /\ d + k <= Len(l.kept) => m.kept[k] = l.kept[d + k]
                        /\ d + k > Len(l.kept)
                             => m.kept[k].event = events[d + k - Len(l.kept)]
<1>. DEFINE st == Stamped(l, events)
            u == l.kept \o st
            n == Newest(u, Limit)
            p == Len(l.kept)
            q == Len(events)
            r == Len(n)
            d == p + q - r
<1>1. /\ st \in Seq(Entries) /\ Len(st) = q
      /\ \A k \in 1..q : st[k].seq = l.next + k /\ st[k].event = events[k]
  BY StampedFact
<1>2. l.kept \in Seq(Entries) /\ l.next \in Nat
  BY DEF Logs
<1>. HIDE DEF st
<1>3. /\ u \in Seq(Entries) /\ Len(u) = p + q
      /\ \A i \in 1..p + q : u[i] = IF i <= p THEN l.kept[i] ELSE st[i - p]
  <2>. DEFINE k == l.kept
  <2>1. k \in Seq(Entries)
    BY <1>2
  <2>. HIDE DEF k
  <2>2. /\ k \o st \in Seq(Entries) /\ Len(k \o st) = Len(k) + Len(st)
        /\ \A i \in 1..Len(k) + Len(st) :
             (k \o st)[i] = IF i <= Len(k) THEN k[i] ELSE st[i - Len(k)]
    <3>1. st \in Seq(Entries)
      BY <1>1
    <3>. QED
      BY <2>1, <3>1, ConcatProperties, Zenon
  <2>. HIDE DEF q
  <2>3. Len(st) = q
    BY <1>1
  <2>. QED
    BY <2>2, <2>3 DEF k
<1>4. p \in Nat /\ q \in Nat /\ p <= l.next
  BY <1>2 DEF Numbered
<1>5. \A k \in 1..p : l.kept[k].seq = l.next - p + k
  BY <1>2 DEF Numbered
<1>. HIDE DEF u, p, q
<1>6. /\ n \in Seq(Entries) /\ r = (IF Len(u) > Limit THEN Limit ELSE Len(u))
      /\ \A i \in 1..r : n[i] = u[Len(u) - r + i]
  BY <1>3, NewestFact
<1>7. Publish(l, events) = [next |-> l.next + q, kept |-> n]
  BY DEF Publish, n, u, st, q
<1>. HIDE DEF n, r
<1>8. r = Len(n) /\ r \in Nat /\ r <= Limit /\ r <= p + q /\ d \in Nat /\ d + r = p + q
  BY <1>3, <1>4, <1>6 DEF r
<1>9. ASSUME NEW k \in 1..r
      PROVE  /\ n[k].seq = l.next + q - r + k
             /\ d + k <= p => n[k] = l.kept[d + k]
             /\ d + k > p => n[k].event = events[d + k - p]
  <2>. DEFINE i == d + k
  <2>1. i \in 1..p + q /\ i - p \in Int /\ l.next - p + i = l.next + q - r + k
        /\ l.next + (i - p) = l.next + q - r + k
    BY <1>2, <1>4, <1>8
  <2>2. n[k] = u[i]
    <3>1. n[k] = u[Len(u) - r + k]
      BY <1>6
    <3>2. Len(u) - r + k = i
      BY <1>3, <1>4, <1>8
    <3>. QED
      BY <3>1, <3>2
  <2>5. d + k = i
    OBVIOUS
  <2>. HIDE DEF d, i
  <2>3. CASE i <= p
    <3>1. n[k] = l.kept[i]
      BY <1>3, <2>1, <2>2, <2>3
    <3>2. l.kept[i].seq = l.next - p + i
      BY <1>4, <1>5, <2>1, <2>3
    <3>3. ~(i > p)
      BY <1>4, <2>1, <2>3
    <3>. QED
      BY <2>1, <2>5, <3>1, <3>2, <3>3
  <2>4. CASE i > p
    <3>1. n[k] = st[i - p]
      BY <1>3, <1>4, <2>1, <2>2, <2>4
    <3>2. i - p \in 1..q
      BY <1>4, <2>1, <2>4
    <3>3. st[i - p].seq = l.next + (i - p) /\ st[i - p].event = events[i - p]
      BY <1>1, <3>2
    <3>4. ~(i <= p)
      BY <1>4, <2>1, <2>4
    <3>5. n[k].seq = l.next + (i - p) /\ n[k].event = events[i - p]
      BY <3>1, <3>3
    <3>6. n[k].seq = l.next + q - r + k
      BY <2>1, <3>5
    <3>7. n[k].event = events[d + k - p]
      BY <1>4, <1>8, <2>1, <2>5, <3>5
    <3>. QED
      BY <2>5, <3>4, <3>6, <3>7
  <2>. QED
    BY <1>4, <2>1, <2>3, <2>4
<1>. HIDE DEF d
<1>. DEFINE m == Publish(l, events)
<1>10. m \in Logs /\ m.next = l.next + q /\ m.kept = n
  <2>1. [next |-> l.next + q, kept |-> n] \in Logs
    BY <1>2, <1>4, <1>6 DEF Logs
  <2>. QED
    BY <1>7, <2>1
<1>. HIDE DEF m
<1>11. Len(m.kept) = r /\ r <= Limit
  BY <1>8, <1>10
<1>12. Numbered(m)
  <2>1. Len(m.kept) <= m.next
    BY <1>2, <1>4, <1>8, <1>10
  <2>2. ASSUME NEW k \in DOMAIN m.kept PROVE m.kept[k].seq = m.next - Len(m.kept) + k
    <3>1. k \in 1..r
      BY <1>6, <1>8, <1>10, <2>2
    <3>2. n[k].seq = l.next + q - r + k
      BY <1>9, <3>1
    <3>3. l.next + q - r + k = m.next - Len(m.kept) + k
      BY <1>2, <1>4, <1>8, <1>10, <1>11, SMTT(20)
    <3>. QED
      BY <1>10, <3>2, <3>3
  <2>. QED
    BY <2>1, <2>2 DEF Numbered
<1>13. /\ d + Len(m.kept) = Len(l.kept) + Len(events)
       /\ \A k \in 1..Len(m.kept) :
            /\ d + k <= Len(l.kept) => m.kept[k] = l.kept[d + k]
            /\ d + k > Len(l.kept) => m.kept[k].event = events[d + k - Len(l.kept)]
  BY <1>8, <1>9, <1>10, <1>11, Zenon DEF p, q
<1>14. m.next = l.next + Len(events) /\ Len(m.kept) <= Limit /\ d \in Nat
  BY <1>8, <1>10, <1>11 DEF q
<1>. QED
  BY <1>10, <1>12, <1>13, <1>14, Zenon DEF m

-----------------------------------------------------------------------------
LEMMA Bounded ==
    /\ Window \in Nat \ {0} /\ Limit \in Nat \ {0}
    /\ MaxWork \in Nat /\ MaxItems \in Nat /\ MaxAttempts \in Nat /\ MaxBreaks \in Nat
    /\ MaxRestarts \in Nat
BY WindowsAssumption, StreamBoundsAssumption

LEMMA ShownFact ==
    ASSUME NEW n \in Nat
    PROVE  /\ Shown(n) \in Seq(Nat) /\ Len(Shown(n)) = IF n > Window THEN Window ELSE n
           /\ \A i \in 1..Len(Shown(n)) : Shown(n)[i] = n - Len(Shown(n)) + i
BY Bounded, WindowFact DEF Shown

LEMMA ItemsShownFact ==
    ASSUME NEW n \in Nat
    PROVE  /\ ItemsShown(n) \in Seq(Nat)
           /\ Len(ItemsShown(n)) = IF n > Limit THEN Limit ELSE n
           /\ \A i \in 1..Len(ItemsShown(n)) : ItemsShown(n)[i] = n - Len(ItemsShown(n)) + i
           /\ Range(ItemsShown(n)) = (n - Len(ItemsShown(n)) + 1)..n
<1>. DEFINE s == ItemsShown(n)
<1>1. /\ s \in Seq(Nat) /\ Len(s) = IF n > Limit THEN Limit ELSE n
      /\ \A i \in 1..Len(s) : s[i] = n - Len(s) + i
  BY Bounded, WindowFact DEF ItemsShown
<1>. HIDE DEF s
<1>2. Len(s) \in Nat /\ Len(s) <= n /\ DOMAIN s = 1..Len(s)
  BY Bounded, <1>1
<1>3. Range(s) = {s[i] : i \in 1..Len(s)}
  BY <1>2 DEF Range
<1>4. ASSUME NEW i \in (n - Len(s) + 1)..n PROVE i \in Range(s)
  <2>1. i - (n - Len(s)) \in 1..Len(s)
    BY <1>2
  <2>2. s[i - (n - Len(s))] = i
    BY <1>1, <1>2, <2>1
  <2>. QED
    BY <1>3, <2>1, <2>2
<1>5. ASSUME NEW i \in 1..Len(s) PROVE s[i] \in (n - Len(s) + 1)..n
  BY <1>1, <1>2
<1>6. Range(s) = (n - Len(s) + 1)..n
  BY <1>3, <1>4, <1>5
<1>. QED
  BY <1>1, <1>6 DEF s

\* The mirror shows the window of the row, whether it appends the part that
\* follows its own text or has missed too much and starts over.
LEMMA StreamedFact ==
    ASSUME StreamTypeOK, RecordIsWindow, rowAt.length > lastOffset
    PROVE  Streamed = [rec EXCEPT !.text = Shown(rowAt.length), !.length = rowAt.length]
<1>. DEFINE a == lastOffset
            b == rowAt.length
            v == Shown(b)
            lv == Len(v)
            added == SubSeq(v, a - (b - lv) + 1, lv)
<1>1. /\ a \in Nat /\ b \in Nat /\ a < b /\ Window \in Nat \ {0}
      /\ rec.text = Shown(a) /\ rec.length = a
  BY Bounded DEF StreamTypeOK, RecordIsWindow
<1>. HIDE DEF a, b
<1>2. /\ v \in Seq(Nat) /\ lv = IF b > Window THEN Window ELSE b
      /\ \A i \in 1..lv : v[i] = b - lv + i
  BY <1>1, ShownFact
<1>3. Streamed = IF a < b - lv
                 THEN [rec EXCEPT !.text = Newest(v, Window), !.length = b]
                 ELSE [rec EXCEPT !.text = Newest(@ \o added, Window), !.length = @ + Len(added)]
  BY DEF Streamed, a, b
<1>. HIDE DEF v
<1>4. CASE a < b - lv
  <2>1. Newest(v, Window) = v
    BY <1>1, <1>2 DEF Newest
  <2>. QED
    BY <1>3, <1>4, <2>1 DEF v, b
<1>5. CASE ~(a < b - lv)
  <2>1. lv \in Nat /\ a - (b - lv) + 1 \in 1..lv
    BY <1>1, <1>2, <1>5
  <2>2. /\ added \in Seq(Nat) /\ Len(added) = b - a
        /\ \A i \in 1..Len(added) : added[i] = v[a - (b - lv) + 1 + i - 1]
    <3>1. a - (b - lv) + 1 \in 1..Len(v)
      BY <2>1
    <3>2. /\ added \in Seq(Nat) /\ Len(added) = lv - (a - (b - lv) + 1) + 1
          /\ \A i \in 1..lv - (a - (b - lv) + 1) + 1 : added[i] = v[a - (b - lv) + 1 + i - 1]
      BY <1>2, <3>1, TailFact, SMTT(20)
    <3>. HIDE DEF lv, added
    <3>3. lv - (a - (b - lv) + 1) + 1 = b - a
      BY <1>1, <2>1
    <3>. QED
      BY <3>2, <3>3
  <2>. HIDE DEF lv
  <2>3. ASSUME NEW i \in 1..Len(added) PROVE added[i] = b - Len(added) + i
    <3>. DEFINE j == a - (b - lv) + 1 + i - 1
    <3>1. j \in 1..lv /\ b - lv + j = a + i /\ b - (b - a) + i = a + i
      BY <1>1, <2>1, <2>2
    <3>2. added[i] = v[j]
      BY <2>2
    <3>. HIDE DEF j, added
    <3>3. v[j] = b - lv + j
      BY <1>2, <3>1
    <3>. QED
      BY <2>2, <3>1, <3>2, <3>3
  <2>. HIDE DEF added
  <2>4. Newest(Shown(a) \o added, Window) = Shown(b)
    BY <1>1, <2>2, <2>3, GrowWindow DEF Shown
  <2>5. a + Len(added) = b
    BY <1>1, <2>2
  <2>. QED
    BY <1>1, <1>3, <1>5, <2>4, <2>5 DEF b
<1>. QED
  BY <1>4, <1>5

\* What the mirror adds to the timeline makes it the window of the row.
LEMMA NewItemsFact ==
    ASSUME StreamTypeOK, RecordIsWindow
    PROVE  /\ NewItems \in Seq(Nat)
           /\ Newest(rec.items \o NewItems, Limit) = ItemsShown(rowAt.items)
           /\ Range(ItemsShown(rowAt.items)) \subseteq Range(rec.items) \cup Range(NewItems)
<1>. DEFINE n == rowAt.items
<1>1. n \in Nat /\ Limit \in Nat \ {0}
  BY Bounded DEF StreamTypeOK
<1>2. PICK m \in 0..n : rec.items = ItemsShown(m)
  BY DEF RecordIsWindow
<1>. DEFINE ln == Len(ItemsShown(n))
            lm == Len(ItemsShown(m))
            lo == IF m >= n - ln + 1 THEN m + 1 ELSE n - ln + 1
            new == NewItems
<1>. HIDE DEF n
<1>3. m \in Nat /\ m <= n
  BY <1>1, <1>2
<1>4. /\ ln = IF n > Limit THEN Limit ELSE n
      /\ lm = IF m > Limit THEN Limit ELSE m
      /\ Range(ItemsShown(n)) = (n - ln + 1)..n /\ Range(ItemsShown(m)) = (m - lm + 1)..m
  BY <1>1, <1>3, ItemsShownFact
<1>. HIDE DEF ln, lm
<1>5. lo \in Nat /\ lo <= n + 1
  BY <1>1, <1>3, <1>4
<1>6. Range(ItemsShown(n)) \ Range(ItemsShown(m)) = lo..n
  <2>1. ((n - ln + 1)..n) \ ((m - lm + 1)..m) = lo..n
    BY <1>1, <1>3, <1>4
  <2>. QED
    BY <1>4, <2>1
<1>7. new = [k \in 1..(n - lo + 1) |-> lo + k - 1]
  <2>1. new = Ascending(lo..n)
    BY <1>2, <1>6 DEF NewItems, n
  <2>. HIDE DEF new, lo
  <2>. QED
    BY <1>1, <1>5, <2>1, AscendingFact
<1>8. n - lo + 1 \in Nat
  BY <1>1, <1>5
<1>9. Len(new) = n - m \/ (Len(new) = Limit /\ Limit <= n - m)
  <2>1. n - lo + 1 = n - m \/ (n - lo + 1 = Limit /\ Limit <= n - m)
    BY <1>1, <1>3, <1>4
  <2>. HIDE DEF lo, new
  <2>2. Len(new) = n - lo + 1
    BY <1>7, <1>8
  <2>. QED
    BY <2>1, <2>2
<1>. HIDE DEF new, lo
<1>10. /\ new \in Seq(Nat) /\ Len(new) = n - lo + 1
       /\ \A i \in 1..Len(new) : new[i] = n - Len(new) + i
  <2>1. \A k \in 1..(n - lo + 1) : lo + k - 1 \in Nat
    BY <1>5
  <2>2. new \in Seq(Nat) /\ Len(new) = n - lo + 1
    BY <1>7, <1>8, <2>1
  <2>3. ASSUME NEW i \in 1..Len(new) PROVE new[i] = n - Len(new) + i
    <3>1. new[i] = lo + i - 1
      BY <1>7, <2>2
    <3>2. lo + i - 1 = n - (n - lo + 1) + i
      BY <1>1, <1>5
    <3>. QED
      BY <2>2, <3>1, <3>2
  <2>. QED
    BY <2>2, <2>3
<1>11. Newest(ItemsShown(m) \o new, Limit) = ItemsShown(n)
  <2>1. new \in Seq(Nat) /\ \A i \in 1..Len(new) : new[i] = n - Len(new) + i
    BY <1>10
  <2>2. Limit \in Nat
    BY <1>1
  <2>. QED
    BY <1>1, <1>3, <1>9, <2>1, <2>2, GrowWindow, ZenonT(40) DEF ItemsShown
<1>12. ASSUME NEW i \in lo..n PROVE i \in Range(new)
  <2>1. i - lo + 1 \in 1..(n - lo + 1) /\ lo + (i - lo + 1) - 1 = i
    BY <1>1, <1>5
  <2>2. new[i - lo + 1] = i /\ i - lo + 1 \in DOMAIN new
    BY <1>7, <2>1
  <2>. QED
    BY <2>2 DEF Range
<1>13. Range(ItemsShown(n)) \subseteq Range(ItemsShown(m)) \cup Range(new)
  BY <1>6, <1>12
<1>. QED
  BY <1>2, <1>10, <1>11, <1>13 DEF n, new

-----------------------------------------------------------------------------
\* The invariant holds at the start: the page has yet to be told of the task.
LEMMA StreamStart == StreamInit => StreamInv
<1>. SUFFICES ASSUME StreamInit PROVE StreamInv
  OBVIOUS
<1>. DEFINE l == [next |-> 0, kept |-> <<>>]
            events == <<Status("running")>>
<1>1. /\ Shown(0) = <<>> /\ ItemsShown(0) = <<>>
      /\ Fresh \in Data
  <2>1. Shown(0) = <<>> /\ ItemsShown(0) = <<>>
    BY ShownFact, ItemsShownFact, Bounded
  <2>. QED
    BY <2>1 DEF Fresh, Data, Statuses
<1>2. l \in Logs /\ Numbered(l) /\ events \in Seq(Events) /\ l.next = 0 /\ Len(l.kept) = 0
  BY DEF Logs, Numbered, Events, Status, Statuses
<1>3. Len(events) = 1 /\ events[1] = Status("running")
  OBVIOUS
<1>4. log = Publish(l, events)
  BY DEF StreamInit
<1>. HIDE DEF l, events
<1>5. Limit \in Nat /\ Limit # 0
  BY Bounded
<1>6. /\ log \in Logs /\ Len(log.kept) <= Limit /\ Numbered(log)
      /\ log.next = l.next + Len(events)
      /\ \E d \in Nat :
           /\ d + Len(log.kept) = Len(l.kept) + Len(events)
           /\ \A k \in 1..Len(log.kept) :
                /\ d + k <= Len(l.kept) => log.kept[k] = l.kept[d + k]
                /\ d + k > Len(l.kept) => log.kept[k].event = events[d + k - Len(l.kept)]
  <2>1. Limit \in Nat
    BY <1>5
  <2>. QED
    BY <1>2, <1>4, <2>1, PublishFact, Zenon
<1>7. log.next = 1 /\ \A k \in DOMAIN log.kept : log.kept[k].event = Status("running")
  <2>1. PICK d \in Nat :
           /\ d + Len(log.kept) = Len(l.kept) + Len(events)
           /\ \A k \in 1..Len(log.kept) :
                /\ d + k <= Len(l.kept) => log.kept[k] = l.kept[d + k]
                /\ d + k > Len(l.kept) => log.kept[k].event = events[d + k - Len(l.kept)]
    BY <1>6
  <2>2. log.kept \in Seq(Entries)
    BY <1>6 DEF Logs
  <2>3. ASSUME NEW k \in 1..Len(log.kept) PROVE log.kept[k].event = Status("running")
    <3>1. d + k > 0 /\ d + k - 0 = 1
      BY <1>2, <1>3, <2>1, <2>2
    <3>2. log.kept[k].event = events[d + k - 0]
      BY <1>2, <2>1, <3>1
    <3>. QED
      BY <1>3, <3>1, <3>2
  <2>. QED
    BY <1>2, <1>3, <1>6, <2>2, <2>3
<1>8. ASSUME NEW k \in DOMAIN log.kept
      PROVE  log.kept[k].event.kind = "status" /\ log.kept[k].event.status = "running"
  BY <1>7 DEF Status
<1>9. /\ rec = [text |-> <<>>, length |-> 0, items |-> <<>>, status |-> "running"]
      /\ page.data = rec /\ page.cursor = 0 /\ lastOffset = 0 /\ restarts = 0 /\ up
      /\ rowAt.length = 0 /\ rowAt.items = 0 /\ mode = "connecting"
  BY DEF StreamInit, Fresh
<1>10. StreamTypeOK
  <2>1. log \in [next : Nat, kept : Seq(Entries)] /\ Len(log.kept) <= Limit
    BY <1>6 DEF Logs
  <2>2. rec \in Data /\ Len(rec.text) <= Window /\ Len(rec.items) <= Limit
    BY <1>1, <1>9, Bounded DEF Fresh
  <2>3. /\ worker \in [length : 0..MaxWork, items : 0..MaxItems, status : Statuses]
        /\ rowAt \in [length : 0..worker.length, items : 0..worker.items, status : Statuses,
                      cursor : Nat]
    BY Bounded DEF StreamInit, Statuses
  <2>4. page \in [cursor : Nat, data : Data]
    BY <1>1 DEF StreamInit
  <2>5. /\ up \in BOOLEAN /\ lastOffset \in 0..MaxWork
        /\ mode \in Modes /\ sent \in Nat /\ attempts \in 0..MaxAttempts
        /\ breaks \in 0..MaxBreaks /\ restarts \in 0..MaxRestarts
    BY Bounded DEF StreamInit, Modes
  <2>. QED
    BY <2>1, <2>2, <2>3, <2>4, <2>5 DEF StreamTypeOK
<1>11. RecordIsWindow
  BY <1>1, <1>9 DEF RecordIsWindow
<1>12. LogIsConsecutive
  BY <1>6, <1>8 DEF Numbered, LogIsConsecutive, Delivers
<1>13. PageIsBehind
  <2>1. LogIsCurrent
    BY <1>8, <1>9 DEF LogIsCurrent, LastSays, Delivers
  <2>2. RestIsAhead
    BY <1>9 DEF RestIsAhead
  <2>. QED
    BY <1>7, <1>9, <2>1, <2>2 DEF PageIsBehind
<1>. QED
  BY <1>10, <1>11, <1>12, <1>13 DEF StreamInv

-----------------------------------------------------------------------------
\* The worker and its row run ahead of what was mirrored.
LEMMA WorkKeepsStream == ASSUME StreamInv, Work \/ Flush PROVE StreamInv'
<1>. StreamTypeOK /\ RecordIsWindow /\ LogIsConsecutive /\ PageIsBehind
  BY DEF StreamInv
<1>0. /\ worker \in [length : 0..MaxWork, items : 0..MaxItems, status : Statuses]
      /\ worker.length \in 0..MaxWork /\ worker.items \in 0..MaxItems
      /\ rowAt \in [length : 0..worker.length, items : 0..worker.items, status : Statuses,
                    cursor : Nat]
      /\ rowAt.length \in 0..worker.length /\ rowAt.items \in 0..worker.items
      /\ MaxWork \in Nat /\ MaxItems \in Nat
  BY Bounded DEF StreamTypeOK
<1>1. /\ worker' \in [length : 0..MaxWork, items : 0..MaxItems, status : Statuses]
      /\ rowAt' \in [length : 0..worker'.length, items : 0..worker'.items, status : Statuses,
                     cursor : Nat]
      /\ rowAt'.length \in Nat /\ rowAt'.items \in Nat
      /\ rowAt.length <= rowAt'.length /\ rowAt.items <= rowAt'.items
      /\ UNCHANGED <<hostVars, pageVars, breaks, restarts>>
  <2>1. CASE Flush
    BY <1>0, <2>1 DEF Flush
  <2>2. CASE Work
    <3>1. /\ worker' \in [length : 0..MaxWork, items : 0..MaxItems, status : Statuses]
          /\ worker'.length \in Nat /\ worker'.items \in Nat
          /\ worker.length <= worker'.length /\ worker.items <= worker'.items
      <4>1. CASE /\ worker' = [worker EXCEPT !.length = @ + 1]
                 /\ worker.length + worker.items < MaxWork
        <5>1. worker.length + 1 \in 0..MaxWork
          BY <1>0, <4>1
        <5>. QED
          BY <1>0, <4>1, <5>1
      <4>2. CASE worker' = [worker EXCEPT !.items = @ + 1] /\ worker.items < MaxItems
        <5>1. worker.items + 1 \in 0..MaxItems
          BY <1>0, <4>2
        <5>. QED
          BY <1>0, <4>2, <5>1
      <4>3. CASE worker' = [worker EXCEPT !.status = "completed"]
        BY <1>0, <4>3 DEF Statuses
      <4>. QED
        BY <2>2, <4>1, <4>2, <4>3 DEF Work
    <3>2. 0..worker.length \subseteq 0..worker'.length /\ 0..worker.items \subseteq 0..worker'.items
      BY <1>0, <3>1
    <3>3. UNCHANGED <<rowAt, hostVars, pageVars, breaks, restarts>>
      BY <2>2 DEF Work
    <3>. QED
      BY <1>0, <3>1, <3>2, <3>3
  <2>. QED
    BY <2>1, <2>2
<1>2. StreamTypeOK'
  BY <1>1 DEF StreamTypeOK, hostVars, pageVars
<1>3. RecordIsWindow'
  <2>1. PICK m \in 0..rowAt.items : rec.items = ItemsShown(m)
    BY DEF RecordIsWindow
  <2>2. m \in 0..rowAt'.items
    BY <1>0, <1>1
  <2>3. lastOffset <= rowAt'.length
    <3>1. lastOffset \in Nat /\ lastOffset <= rowAt.length /\ rowAt.length \in Nat
      BY <1>0, Bounded DEF RecordIsWindow, StreamTypeOK
    <3>. QED
      BY <1>1, <3>1
  <2>. QED
    BY <1>1, <2>1, <2>2, <2>3 DEF RecordIsWindow, hostVars, pageVars
<1>4. LogIsConsecutive'
  BY <1>1 DEF LogIsConsecutive, Delivers, hostVars
<1>5. PageIsBehind'
  BY <1>1 DEF PageIsBehind, LogIsCurrent, LastSays, Delivers, RestIsAhead, Ahead,
              hostVars, pageVars
<1>. QED
  BY <1>2, <1>3, <1>4, <1>5 DEF StreamInv

\* A crash ends what a cursor is worth, and a restart begins a new log.
LEMMA CrashKeepsStream == ASSUME StreamInv, Crash \/ Restart PROVE StreamInv'
<1>. StreamTypeOK /\ RecordIsWindow /\ LogIsConsecutive /\ PageIsBehind
  BY DEF StreamInv
<1>1. restarts' # 0 /\ restarts' \in 0..MaxRestarts
  <2>1. restarts \in 0..MaxRestarts /\ MaxRestarts \in Nat /\ (restarts = 0 => up)
    BY Bounded DEF StreamTypeOK, PageIsBehind
  <2>2. CASE Crash
    BY <2>1, <2>2 DEF Crash
  <2>3. CASE Restart
    BY <2>1, <2>3 DEF Restart
  <2>. QED
    BY <2>2, <2>3
<1>2. CASE Crash
  <2>1. StreamTypeOK'
    BY <1>1, <1>2 DEF Crash, StreamTypeOK, Modes
  <2>2. RecordIsWindow' /\ LogIsConsecutive'
    BY <1>2 DEF Crash, RecordIsWindow, LogIsConsecutive, Delivers
  <2>. QED
    BY <1>1, <2>1, <2>2 DEF PageIsBehind, StreamInv
<1>3. CASE Restart
  <2>1. rowAt.length \in Nat /\ rowAt.items \in Nat /\ rowAt.status \in Statuses
        /\ rowAt.cursor \in Nat /\ rowAt.length \in 0..MaxWork
    BY Bounded DEF StreamTypeOK
  <2>2. /\ Shown(rowAt.length) \in Seq(Nat) /\ Len(Shown(rowAt.length)) <= Window
        /\ ItemsShown(rowAt.items) \in Seq(Nat) /\ Len(ItemsShown(rowAt.items)) <= Limit
    <3>1. /\ Shown(rowAt.length) \in Seq(Nat)
          /\ Len(Shown(rowAt.length)) = IF rowAt.length > Window THEN Window ELSE rowAt.length
      BY <2>1, ShownFact
    <3>2. /\ ItemsShown(rowAt.items) \in Seq(Nat)
          /\ Len(ItemsShown(rowAt.items)) = IF rowAt.items > Limit THEN Limit ELSE rowAt.items
      BY <2>1, ItemsShownFact
    <3>. QED
      BY <2>1, <3>1, <3>2, Bounded
  <2>3. rec' \in Data /\ Len(rec'.text) <= Window /\ Len(rec'.items) <= Limit
    BY <1>3, <2>1, <2>2 DEF Restart, Data
  <2>4. /\ log' \in [next : Nat, kept : Seq(Entries)] /\ Len(log'.kept) = 0
        /\ DOMAIN log'.kept = {}
    BY <1>3, <2>1 DEF Restart
  <2>5. StreamTypeOK'
    BY <1>1, <1>3, <2>1, <2>3, <2>4, Bounded DEF Restart, StreamTypeOK, pageVars
  <2>6. RecordIsWindow'
    <3>1. rowAt.items \in 0..rowAt.items
      BY <2>1
    <3>. QED
      BY <1>3, <2>1, <3>1 DEF Restart, RecordIsWindow, pageVars
  <2>7. LogIsConsecutive'
    BY <2>4 DEF LogIsConsecutive
  <2>. QED
    BY <1>1, <2>5, <2>6, <2>7 DEF PageIsBehind, StreamInv
<1>. QED
  BY <1>2, <1>3

-----------------------------------------------------------------------------
\* What a step of the page has to keep.
LEMMA PageKeepsStream ==
    ASSUME StreamInv, UNCHANGED <<worker, rowAt, hostVars, restarts>>,
           page' \in [cursor : Nat, data : Data],
           page'.data.text = Shown(page'.data.length),
           mode' \in Modes, sent' \in Nat, attempts' \in 0..MaxAttempts,
           breaks' \in 0..MaxBreaks,
           restarts = 0 =>
               /\ page'.cursor <= log.next /\ page'.data.length <= rec.length
               /\ mode' = "open" => sent' = page'.cursor
               /\ RestIsAhead'
    PROVE  StreamInv'
<1>. USE DEF hostVars
<1>. StreamTypeOK /\ RecordIsWindow /\ LogIsConsecutive /\ PageIsBehind
  BY DEF StreamInv
<1>1. StreamTypeOK'
  BY DEF StreamTypeOK
<1>2. RecordIsWindow'
  BY DEF RecordIsWindow
<1>3. LogIsConsecutive'
  BY DEF LogIsConsecutive, Delivers
<1>4. restarts = 0 => LogIsCurrent'
  BY DEF PageIsBehind, LogIsCurrent, LastSays, Delivers
<1>5. PageIsBehind'
  BY <1>4 DEF PageIsBehind
<1>. QED
  BY <1>1, <1>2, <1>3, <1>5 DEF StreamInv

\* A page that shows the record has nothing more to be told.
LEMMA SnapshotIsAll ==
    ASSUME StreamInv, UNCHANGED <<rec, log>>, page'.data = rec
    PROVE  /\ page'.data \in Data /\ page'.data.text = Shown(page'.data.length)
           /\ page'.data.length <= rec.length /\ RestIsAhead'
<1>1. rec \in Data /\ rec.text = Shown(rec.length)
  BY DEF StreamInv, StreamTypeOK, RecordIsWindow
<1>. QED
  BY <1>1 DEF RestIsAhead, Data

\* A merged snapshot, while the host lives, is the record at its cursor.
LEMMA MergedFact ==
    ASSUME StreamInv, UNCHANGED <<rec, log>>, page' = Merged(page)
    PROVE  /\ page' \in [cursor : Nat, data : Data]
           /\ page'.data.text = Shown(page'.data.length)
           /\ restarts = 0 => /\ page'.cursor = log.next /\ page'.data.length <= rec.length
                              /\ RestIsAhead'
<1>1. /\ page \in [cursor : Nat, data : Data] /\ rec \in Data /\ log.next \in Nat
      /\ page.data.text = Shown(page.data.length)
      /\ restarts = 0 => page.cursor <= log.next
  BY DEF StreamInv, StreamTypeOK, RecordIsWindow, PageIsBehind
<1>2. CASE page' = page /\ page.cursor # 0 /\ log.next < page.cursor
  BY <1>1, <1>2
<1>3. CASE page' = [cursor |-> IF log.next > page.cursor THEN log.next ELSE page.cursor,
                    data |-> rec]
  <2>1. page'.data = rec
    BY <1>3
  <2>2. page'.cursor = IF log.next > page.cursor THEN log.next ELSE page.cursor
    BY <1>3
  <2>3. /\ page'.data \in Data /\ page'.data.text = Shown(page'.data.length)
        /\ page'.data.length <= rec.length /\ RestIsAhead'
    BY <2>1, SnapshotIsAll
  <2>. QED
    BY <1>1, <1>3, <2>2, <2>3
<1>. QED
  BY <1>1, <1>2, <1>3 DEF Merged

\* The steps of the page that take a snapshot.
LEMMA SnapshotKeepsStream ==
    ASSUME StreamInv, (Connect /\ page.cursor = 0) \/ Resync \/ CheckLatest \/ Poll \/ FinishPage
    PROVE  StreamInv'
<1>. USE DEF hostVars
<1>1. /\ UNCHANGED <<worker, rowAt, hostVars, breaks, restarts>>
      /\ breaks \in 0..MaxBreaks /\ restarts \in 0..MaxRestarts /\ log.next \in Nat
      /\ page \in [cursor : Nat, data : Data] /\ sent \in Nat /\ mode \in Modes
      /\ attempts \in 0..MaxAttempts /\ MaxAttempts \in Nat
      /\ rec \in Data /\ (restarts = 0 => page.cursor <= log.next)
  BY Bounded DEF StreamInv, StreamTypeOK, PageIsBehind, Connect, Resync, CheckLatest, Poll,
                 FinishPage
<1>2. CASE (Connect /\ page.cursor = 0) \/ Resync
  <2>1. page' = Merged(page) /\ sent' = log.next /\ attempts' = 0
    BY <1>2 DEF Connect, Resync
  <2>2. mode' \in Modes
    BY <1>2 DEF Connect, Resync, Follow, Modes
  <2>3. /\ page' \in [cursor : Nat, data : Data] /\ page'.data.text = Shown(page'.data.length)
        /\ restarts = 0 => /\ page'.cursor = log.next /\ page'.data.length <= rec.length
                           /\ RestIsAhead'
    BY <1>1, <2>1, MergedFact
  <2>. QED
    BY <1>1, <2>1, <2>2, <2>3, PageKeepsStream
<1>3. CASE CheckLatest \/ (Poll /\ page' = Merged(page))
  <2>1. page' = Merged(page) /\ sent' = sent
    BY <1>3 DEF CheckLatest, Poll
  <2>2. mode' \in Modes /\ mode' # "open" /\ attempts' \in 0..MaxAttempts
    <3>1. CASE CheckLatest
      BY <1>1, <3>1 DEF CheckLatest, Reconnect, Modes
    <3>2. CASE Poll
      BY <1>1, <3>2 DEF Poll, Modes
    <3>. QED
      BY <1>3, <3>1, <3>2
  <2>3. /\ page' \in [cursor : Nat, data : Data] /\ page'.data.text = Shown(page'.data.length)
        /\ restarts = 0 => /\ page'.cursor = log.next /\ page'.data.length <= rec.length
                           /\ RestIsAhead'
    BY <1>1, <2>1, MergedFact
  <2>4. log.next <= log.next
    BY <1>1
  <2>. QED
    BY <1>1, <2>1, <2>2, <2>3, <2>4, PageKeepsStream
<1>4. CASE (Poll \/ FinishPage) /\ page' = [page EXCEPT !.data = rec]
  <2>1. page'.data = rec /\ page'.cursor = page.cursor /\ page' \in [cursor : Nat, data : Data]
    BY <1>1, <1>4
  <2>2. mode' = "done" \/ mode' = "polling"
    BY <1>4 DEF Poll, FinishPage
  <2>3. sent' = sent /\ attempts' = attempts
    BY <1>4 DEF Poll, FinishPage
  <2>4. /\ page'.data.text = Shown(page'.data.length) /\ page'.data.length <= rec.length
        /\ RestIsAhead'
    BY <1>1, <2>1, SnapshotIsAll
  <2>5. mode' \in Modes /\ mode' # "open"
    BY <2>2 DEF Modes
  <2>. QED
    BY <1>1, <2>1, <2>3, <2>4, <2>5, PageKeepsStream
<1>5. CASE FinishPage /\ UNCHANGED page
  <2>1. mode' = "done" /\ sent' = sent /\ attempts' = attempts
    BY <1>5 DEF FinishPage
  <2>2. page.data.text = Shown(page.data.length)
    BY DEF StreamInv, RecordIsWindow
  <2>3. restarts = 0 => page.data.length <= rec.length /\ RestIsAhead
    BY DEF StreamInv, PageIsBehind
  <2>4. restarts = 0 => RestIsAhead'
    BY <1>1, <1>5, <2>3 DEF RestIsAhead, Ahead, Delivers
  <2>5. mode' \in Modes /\ mode' # "open"
    BY <2>1 DEF Modes
  <2>. QED
    BY <1>1, <1>5, <2>1, <2>2, <2>3, <2>4, <2>5, PageKeepsStream
<1>. QED
  BY <1>2, <1>3, <1>4, <1>5 DEF Poll, FinishPage

\* The steps of the page that bring it nothing.
LEMMA WaitKeepsStream ==
    ASSUME StreamInv, (Connect /\ page.cursor # 0) \/ HandlerEnds \/ Break \/ CheckFails
    PROVE  StreamInv'
<1>. USE DEF hostVars
<1>1. /\ UNCHANGED <<worker, rowAt, hostVars, restarts, page>>
      /\ breaks \in 0..MaxBreaks /\ MaxBreaks \in Nat
      /\ page \in [cursor : Nat, data : Data] /\ sent \in Nat /\ page.cursor \in Nat
      /\ attempts \in 0..MaxAttempts /\ MaxAttempts \in Nat
  BY Bounded DEF StreamInv, StreamTypeOK, Connect, HandlerEnds, Break, CheckFails
<1>2. /\ page.data.text = Shown(page.data.length)
      /\ restarts = 0 => /\ page.cursor <= log.next /\ page.data.length <= rec.length
                         /\ RestIsAhead
  BY DEF StreamInv, RecordIsWindow, PageIsBehind
<1>3. restarts = 0 => RestIsAhead'
  BY <1>1, <1>2 DEF RestIsAhead, Ahead, Delivers
<1>4. breaks' \in 0..MaxBreaks
  BY <1>1 DEF Connect, HandlerEnds, Break, CheckFails
<1>5. attempts' \in 0..MaxAttempts
  BY <1>1 DEF Connect, HandlerEnds, Break, CheckFails, Reconnect
<1>6. mode' \in Modes /\ sent' \in Nat
  BY <1>1 DEF Connect, HandlerEnds, Break, CheckFails, Reconnect, Modes
<1>7. mode' = "open" => sent' = page'.cursor
  BY <1>1 DEF Connect, HandlerEnds, Break, CheckFails, Reconnect
<1>. QED
  BY <1>1, <1>2, <1>3, <1>4, <1>5, <1>6, <1>7, PageKeepsStream

LEMMA AppendRange ==
    ASSUME NEW s \in Seq(Nat), NEW x \in Nat
    PROVE  Append(s, x) \in Seq(Nat) /\ Range(s) \cup {x} \subseteq Range(Append(s, x))
<1>. DEFINE t == Append(s, x)
<1>1. /\ t \in Seq(Nat) /\ DOMAIN s = 1..Len(s) /\ DOMAIN t = 1..Len(s) + 1
      /\ \A i \in 1..Len(s) : t[i] = s[i] /\ i \in 1..Len(s) + 1
      /\ t[Len(s) + 1] = x /\ Len(s) + 1 \in 1..Len(s) + 1
  OBVIOUS
<1>. HIDE DEF t
<1>. QED
  BY <1>1 DEF Range, t

\* The next entry of a log without a gap is the one after the cursor: the page
\* takes it, and what it still lacks is among the later ones.
LEMMA DeliverKeepsStream == ASSUME StreamInv, Deliver PROVE StreamInv'
<1>. USE DEF hostVars
<1>1. PICK k \in DOMAIN log.kept :
        /\ log.kept[k].seq > sent
        /\ \A j \in 1..k - 1 : log.kept[j].seq <= sent
        /\ sent' = log.kept[k].seq
        /\ page' = Reduced(page, log.kept[k])
  BY DEF Deliver
<1>. DEFINE e == log.kept[k]
<1>2. e \in Entries /\ k \in 1..Len(log.kept)
  BY SMTT(20) DEF StreamInv, StreamTypeOK
<1>3. /\ UNCHANGED <<worker, rowAt, hostVars, breaks, restarts>>
      /\ breaks \in 0..MaxBreaks
      /\ page \in [cursor : Nat, data : Data] /\ page.data \in Data /\ page.cursor \in Nat
      /\ attempts \in 0..MaxAttempts /\ MaxAttempts \in Nat /\ mode \in Modes
      /\ mode = "open" /\ page.data.text = Shown(page.data.length)
      /\ e.seq \in Nat /\ e.event \in Events /\ sent \in Nat
  BY <1>2, Bounded DEF StreamInv, StreamTypeOK, RecordIsWindow, Deliver, Entries
<1>4. mode' \in Modes /\ attempts' \in 0..MaxAttempts
  BY <1>3 DEF Deliver, Follow, Modes
<1>5. e.event.kind = "delta" =>
        /\ e.event.length \in Nat /\ e.event.text \in Seq(Nat)
        /\ e.event.text = Shown(e.event.length) /\ e.event.length <= rec.length
  BY <1>2, <1>3 DEF Events, StreamInv, LogIsConsecutive, Delivers
<1>6. /\ e.event.kind = "item" => e.event.item \in Nat /\ e.event = Item(e.event.item)
      /\ e.event.kind = "status" => e.event.status \in Statuses
      /\ e.event.kind \in {"delta", "item", "status"}
  BY <1>3 DEF Events, Item
<1>7. ASSUME e.seq > page.cursor
      PROVE  /\ page' \in [cursor : Nat, data : Data] /\ page'.cursor = e.seq
             /\ page'.data.text = Shown(page'.data.length)
             /\ \/ e.event.kind = "delta" /\ e.event.length >= page.data.length
                   /\ page'.data.length = e.event.length
                \/ page'.data.length = page.data.length
                   /\ (e.event.kind = "delta" => e.event.length < page.data.length)
             /\ page'.data.status = IF e.event.kind = "status" THEN e.event.status
                                    ELSE page.data.status
             /\ Range(page.data.items) \subseteq Range(page'.data.items)
             /\ e.event.kind = "item" => e.event.item \in Range(page'.data.items)
  <2>. HIDE DEF e
  <2>. DEFINE data == page'.data
  <2>1. ~(e.seq <= page.cursor)
    BY <1>3, <1>7
  <2>2. page.data = [text |-> page.data.text, length |-> page.data.length,
                     items |-> page.data.items, status |-> page.data.status]
        /\ page.data.length \in Nat /\ page.data.items \in Seq(Nat)
    BY <1>3 DEF Data
  <2>3. CASE e.event.kind = "delta" /\ e.event.length < page.data.length
    <3>1. page' = [cursor |-> e.seq, data |-> page.data]
      BY <1>1, <2>1, <2>3 DEF Reduced, e
    <3>. QED
      BY <1>3, <2>3, <3>1
  <2>4. CASE e.event.kind = "delta" /\ ~(e.event.length < page.data.length)
    <3>1. page' = [cursor |-> e.seq, data |-> [page.data EXCEPT !.text = e.event.text,
                                                               !.length = e.event.length]]
      BY <1>1, <2>1, <2>4 DEF Reduced, e
    <3>2. e.event.length >= page.data.length
      BY <1>5, <2>2, <2>4
    <3>. QED
      BY <1>3, <1>5, <2>4, <3>1, <3>2 DEF Data
  <2>5. CASE e.event.kind = "item"
    <3>. DEFINE x == e.event.item
                items == IF x \in Range(page.data.items) THEN page.data.items
                         ELSE Append(page.data.items, x)
    <3>1. page' = [cursor |-> e.seq, data |-> [page.data EXCEPT !.items = items]]
      BY <1>1, <2>1, <2>5 DEF Reduced, e
    <3>2. /\ items \in Seq(Nat) /\ Range(page.data.items) \subseteq Range(items)
          /\ x \in Range(items)
      BY <1>6, <2>2, <2>5, AppendRange
    <3>. HIDE DEF items
    <3>. QED
      BY <1>3, <2>5, <3>1, <3>2 DEF Data
  <2>6. CASE e.event.kind = "status"
    <3>1. page' = [cursor |-> e.seq, data |-> [page.data EXCEPT !.status = e.event.status]]
      BY <1>1, <2>1, <2>6 DEF Reduced, e
    <3>. QED
      BY <1>3, <1>6, <2>6, <3>1 DEF Data
  <2>. QED
    BY <1>6, <2>3, <2>4, <2>5, <2>6
<1>8. page' \in [cursor : Nat, data : Data] /\ page'.data.text = Shown(page'.data.length)
  <2>1. CASE e.seq <= page.cursor
    BY <1>1, <1>3, <2>1 DEF Reduced
  <2>. QED
    BY <1>3, <1>7, <2>1
<1>9. ASSUME restarts = 0
      PROVE  /\ page'.cursor <= log.next /\ page'.data.length <= rec.length
             /\ mode' = "open" => sent' = page'.cursor
             /\ RestIsAhead'
  <2>. DEFINE n == Len(log.kept)
  <2>1. /\ sent = page.cursor /\ page.data.length <= rec.length /\ LogIsCurrent
        /\ RestIsAhead /\ log.next \in Nat /\ n \in Nat /\ rec \in Data
        /\ n <= log.next /\ \A j \in 1..n : log.kept[j].seq = log.next - n + j
        /\ DOMAIN log.kept = 1..n /\ rec.length \in Nat /\ page.data.length \in Nat
    <3>1. log \in [next : Nat, kept : Seq(Entries)] /\ rec \in Data
      BY DEF StreamInv, StreamTypeOK
    <3>2. log.next \in Nat /\ log.kept \in Seq(Entries)
      BY <3>1
    <3>3. n \in Nat /\ DOMAIN log.kept = 1..n
      BY <3>2
    <3>4. n <= log.next /\ \A j \in 1..n : log.kept[j].seq = log.next - n + j
      BY <3>3 DEF StreamInv, LogIsConsecutive
    <3>5. /\ sent = page.cursor /\ page.data.length <= rec.length /\ LogIsCurrent
          /\ RestIsAhead
      BY <1>3, <1>9 DEF StreamInv, PageIsBehind
    <3>6. rec.length \in Nat /\ page.data.length \in Nat
      BY <1>3, <3>1 DEF Data
    <3>. QED
      BY <3>1, <3>2, <3>3, <3>4, <3>5, <3>6
  <2>2. e.seq > page.cursor /\ e.seq = log.next - n + k
    BY <1>1, <1>2, <2>1
  <2>3. log.next <= page.cursor + n
    <3>1. log.kept # <<>> /\ ~(sent < log.kept[1].seq - 1)
      BY <1>2, <1>3 DEF Deliver, Gap
    <3>2. 1 \in 1..n
      BY <1>2, <2>1
    <3>3. log.kept[1].seq = log.next - n + 1
      BY <2>1, <3>2
    <3>. QED
      BY <1>3, <2>1, <3>1, <3>3, SMTT(20)
  <2>4. ASSUME NEW j \in Ahead, j # k PROVE j \in Ahead'
    <3>1. j \in 1..n /\ log.kept[j].seq > page.cursor
      BY <2>1, <2>4 DEF Ahead
    <3>2. ~(j \in 1..k - 1)
      <4>1. sent = page.cursor /\ sent \in Nat /\ log.kept[j].seq \in Int
        BY <1>3, <2>1, <3>1
      <4>2. j \in 1..k - 1 => log.kept[j].seq <= sent
        BY <1>1
      <4>. QED
        BY ONLY <3>1, <4>1, <4>2
    <3>3. j > k
      BY <1>2, <2>4, <3>1, <3>2
    <3>4. log.kept[j].seq > e.seq
      BY <1>2, <2>1, <2>2, <3>1, <3>3
    <3>. QED
      BY <1>3, <1>7, <2>1, <2>2, <3>1, <3>4 DEF Ahead
  <2>5. ASSUME NEW j \in k+1..n PROVE j \in Ahead'
    <3>1. j \in 1..n /\ log.kept[j].seq > e.seq
      BY <1>2, <2>1, <2>2
    <3>. QED
      BY <1>3, <1>7, <2>1, <2>2, <3>1 DEF Ahead
  <2>6. \A j \in 1..n : log'.kept[j] = log.kept[j]
    BY <1>3
  <2>7. page'.data.length = rec.length \/ \E j \in Ahead' : Delivers(j, "delta")'
    <3>1. CASE e.event.kind = "delta" /\ LastSays(k, "delta")
      BY <1>2, <1>5, <1>7, <2>1, <2>2, <3>1 DEF LogIsCurrent
    <3>2. CASE e.event.kind = "delta" /\ ~LastSays(k, "delta")
      <4>1. PICK j \in k+1..n : Delivers(j, "delta")
        BY <3>2 DEF LastSays, Delivers
      <4>. QED
        BY <1>3, <2>5, <4>1 DEF Delivers
    <3>3. CASE e.event.kind # "delta"
      <4>1. page'.data.length = page.data.length
        BY <1>7, <2>2, <3>3
      <4>2. CASE page.data.length = rec.length
        BY <4>1, <4>2
      <4>3. CASE \E j \in Ahead : Delivers(j, "delta")
        <5>1. PICK j \in Ahead : Delivers(j, "delta")
          BY <4>3
        <5>2. j # k
          BY <3>3, <5>1 DEF Delivers
        <5>. QED
          BY <1>3, <2>4, <5>1, <5>2 DEF Delivers
      <4>. QED
        BY <2>1, <2>3, <4>2, <4>3 DEF RestIsAhead
    <3>. QED
      BY <3>1, <3>2, <3>3
  <2>8. page'.data.status = rec.status \/ \E j \in Ahead' : Delivers(j, "status")'
    <3>1. CASE e.event.kind = "status" /\ LastSays(k, "status")
      BY <1>2, <1>7, <2>1, <2>2, <3>1 DEF LogIsCurrent
    <3>2. CASE e.event.kind = "status" /\ ~LastSays(k, "status")
      <4>1. PICK j \in k+1..n : Delivers(j, "status")
        BY <3>2 DEF LastSays, Delivers
      <4>. QED
        BY <1>3, <2>5, <4>1 DEF Delivers
    <3>3. CASE e.event.kind # "status"
      <4>1. page'.data.status = page.data.status
        BY <1>7, <2>2, <3>3
      <4>2. CASE page.data.status = rec.status
        BY <4>1, <4>2
      <4>3. CASE \E j \in Ahead : Delivers(j, "status")
        <5>1. PICK j \in Ahead : Delivers(j, "status")
          BY <4>3
        <5>2. j # k
          BY <3>3, <5>1 DEF Delivers
        <5>. QED
          BY <1>3, <2>4, <5>1, <5>2 DEF Delivers
      <4>. QED
        BY <2>1, <2>3, <4>2, <4>3 DEF RestIsAhead
    <3>. QED
      BY <3>1, <3>2, <3>3
  <2>9. ASSUME NEW i \in Range(rec.items)
        PROVE  \/ i \in Range(page'.data.items)
               \/ \E j \in Ahead' : log.kept[j].event = Item(i)
    <3>1. CASE i \in Range(page.data.items)
      BY <1>7, <2>2, <3>1
    <3>2. CASE \E j \in Ahead : log.kept[j].event = Item(i)
      <4>1. PICK j \in Ahead : log.kept[j].event = Item(i)
        BY <3>2
      <4>2. CASE j = k
        <5>1. e.event.kind = "item" /\ e.event.item = i
          BY <4>1, <4>2 DEF Item
        <5>. QED
          BY <1>7, <2>2, <5>1
      <4>. QED
        BY <2>4, <4>1, <4>2
    <3>. QED
      BY <2>1, <2>3, <3>1, <3>2 DEF RestIsAhead
  <2>10. RestIsAhead'
    BY <1>3, <2>7, <2>8, <2>9 DEF RestIsAhead
  <2>11. page'.cursor <= log.next /\ sent' = page'.cursor
    BY <1>1, <1>2, <1>7, <2>1, <2>2
  <2>12. page'.data.length <= rec.length
    BY <1>5, <1>7, <2>1, <2>2
  <2>. QED
    BY <2>10, <2>11, <2>12
<1>10. sent' \in Nat /\ breaks' \in 0..MaxBreaks
  BY <1>1, <1>3
<1>. QED
  BY <1>3, <1>4, <1>8, <1>9, <1>10, PageKeepsStream
-----------------------------------------------------------------------------
LEMMA ConcatRange ==
    ASSUME NEW T, NEW s \in Seq(T), NEW t \in Seq(T)
    PROVE  s \o t \in Seq(T) /\ Range(s \o t) = Range(s) \cup Range(t)
<1>. DEFINE u == s \o t
            p == Len(s)
            q == Len(t)
<1>1. /\ u \in Seq(T) /\ Len(u) = p + q
      /\ \A i \in 1..p + q : u[i] = IF i <= p THEN s[i] ELSE t[i - p]
  BY ConcatProperties
<1>2. p \in Nat /\ q \in Nat /\ DOMAIN s = 1..p /\ DOMAIN t = 1..q
  OBVIOUS
<1>. HIDE DEF u, p, q
<1>3. DOMAIN u = 1..p + q
  BY <1>1
<1>4. ASSUME NEW i \in 1..p PROVE s[i] \in Range(u)
  <2>1. i \in 1..p + q /\ i <= p
    BY <1>2
  <2>. QED
    BY <1>1, <1>3, <2>1 DEF Range
<1>5. ASSUME NEW i \in 1..q PROVE t[i] \in Range(u)
  <2>. DEFINE j == p + i
  <2>1. j \in 1..p + q /\ ~(j <= p) /\ j - p = i
    BY <1>2
  <2>. HIDE DEF j
  <2>2. u[j] = t[i]
    BY <1>1, <2>1
  <2>. QED
    BY <1>3, <2>1, <2>2 DEF Range
<1>6. ASSUME NEW i \in 1..p + q PROVE u[i] \in Range(s) \cup Range(t)
  <2>1. CASE i <= p
    <3>1. i \in 1..p
      BY <1>2, <2>1
    <3>. QED
      BY <1>1, <1>2, <2>1, <3>1 DEF Range
  <2>2. CASE ~(i <= p)
    <3>1. i - p \in 1..q
      BY <1>2, <2>2
    <3>. QED
      BY <1>1, <1>2, <2>2, <3>1 DEF Range
  <2>. QED
    BY <2>1, <2>2
<1>7. Range(u) = Range(s) \cup Range(t)
  BY <1>2, <1>3, <1>4, <1>5, <1>6 DEF Range
<1>. QED
  BY <1>1, <1>7 DEF u

\* A pass of the mirror makes the record the window of the row, and publishes
\* each thing in it that the record did not show.
LEMMA MirrorFact ==
    ASSUME StreamInv, Mirror
    PROVE  /\ rec' = [text |-> Shown(rowAt.length), length |-> rowAt.length,
                      items |-> ItemsShown(rowAt.items), status |-> rowAt.status]
           /\ \E events \in Seq(Events) :
                /\ log' = Publish(log, events)
                /\ \A e \in Range(events) :
                     /\ e.kind = "delta" =>
                          e.text = Shown(rowAt.length) /\ e.length = rowAt.length
                     /\ e.kind = "status" => e.status = rowAt.status
                /\ rec.length = rowAt.length \/ \E e \in Range(events) : e.kind = "delta"
                /\ rec.status = rowAt.status \/ \E e \in Range(events) : e.kind = "status"
                /\ \A i \in Range(ItemsShown(rowAt.items)) :
                     i \in Range(rec.items) \/ Item(i) \in Range(events)
<1>. DEFINE grown == rowAt.length > lastOffset
            ended == rowAt.status # "running"
            text == IF grown THEN Streamed ELSE rec
            new == NewItems
            a == IF grown THEN <<Delta(text.text, text.length)>> ELSE <<>>
            b == [k \in DOMAIN new |-> Item(new[k])]
            c == IF ended THEN <<Status(rowAt.status)>> ELSE <<>>
            events == a \o b \o c
<1>1. /\ rec' = [text EXCEPT !.items = Newest(@ \o new, Limit), !.status = rowAt.status]
      /\ log' = Publish(log, events)
      /\ rec.status = "running"
  BY DEF Mirror
<1>2. /\ rec = [text |-> rec.text, length |-> rec.length, items |-> rec.items,
                status |-> rec.status]
      /\ rec.text = Shown(rec.length) /\ rec.length = lastOffset
      /\ lastOffset \in Nat /\ rowAt.length \in Nat /\ lastOffset <= rowAt.length
      /\ rowAt.status \in Statuses
  BY Bounded DEF StreamInv, StreamTypeOK, RecordIsWindow, Data
<1>3. text = [text |-> Shown(rowAt.length), length |-> rowAt.length, items |-> rec.items,
              status |-> rec.status]
  <2>1. CASE grown
    <3>1. Streamed = [rec EXCEPT !.text = Shown(rowAt.length), !.length = rowAt.length]
      BY <2>1, StreamedFact DEF StreamInv
    <3>. QED
      BY <1>2, <2>1, <3>1
  <2>2. CASE ~grown
    <3>1. rowAt.length = rec.length
      BY <1>2, <2>2
    <3>. QED
      BY <1>2, <2>2, <3>1
  <2>. QED
    BY <2>1, <2>2
<1>4. /\ new \in Seq(Nat) /\ Newest(rec.items \o new, Limit) = ItemsShown(rowAt.items)
      /\ Range(ItemsShown(rowAt.items)) \subseteq Range(rec.items) \cup Range(new)
  BY NewItemsFact DEF StreamInv
<1>. HIDE DEF text, new
<1>5. rec' = [text |-> Shown(rowAt.length), length |-> rowAt.length,
              items |-> ItemsShown(rowAt.items), status |-> rowAt.status]
  BY <1>1, <1>3, <1>4
<1>6. a \in Seq(Events) /\ Range(a) = IF grown THEN {Delta(text.text, text.length)} ELSE {}
  <2>1. Shown(rowAt.length) \in Seq(Nat)
    BY <1>2, ShownFact
  <2>2. Delta(text.text, text.length) \in Events
    BY <1>2, <1>3, <2>1 DEF Delta, Events
  <2>. QED
    BY <2>2 DEF Range
<1>7. b \in Seq(Events) /\ Range(b) = {Item(i) : i \in Range(new)}
  <2>1. ASSUME NEW k \in 1..Len(new) PROVE Item(new[k]) \in Events
    BY <1>4 DEF Item, Events
  <2>2. DOMAIN new = 1..Len(new) /\ Len(new) \in Nat
    BY <1>4
  <2>. QED
    BY <2>1, <2>2 DEF Range
<1>8. c \in Seq(Events) /\ Range(c) = IF ended THEN {Status(rowAt.status)} ELSE {}
  <2>1. Status(rowAt.status) \in Events
    BY <1>2 DEF Status, Events
  <2>. QED
    BY <2>1 DEF Range
<1>. HIDE DEF a, b, c
<1>9. a \o b \in Seq(Events) /\ Range(a \o b) = Range(a) \cup Range(b)
  BY <1>6, <1>7, ConcatRange
<1>10. events \in Seq(Events) /\ Range(events) = Range(a) \cup Range(b) \cup Range(c)
  <2>. DEFINE ab == a \o b
  <2>1. ab \in Seq(Events) /\ c \in Seq(Events)
    BY <1>8, <1>9
  <2>. HIDE DEF ab
  <2>2. ab \o c \in Seq(Events) /\ Range(ab \o c) = Range(ab) \cup Range(c)
    BY <2>1, ConcatRange
  <2>. QED
    BY <1>9, <2>2 DEF ab
<1>. HIDE DEF events
<1>11. ASSUME NEW e \in Range(events)
       PROVE  /\ e.kind = "delta" => e.text = Shown(rowAt.length) /\ e.length = rowAt.length
              /\ e.kind = "status" => e.status = rowAt.status
  <2>1. CASE e = Delta(text.text, text.length)
    BY <1>3, <2>1 DEF Delta
  <2>2. CASE \E i \in Range(new) : e = Item(i)
    BY <2>2 DEF Item
  <2>3. CASE e = Status(rowAt.status)
    BY <2>3 DEF Status
  <2>. QED
    BY <1>6, <1>7, <1>8, <1>10, <2>1, <2>2, <2>3
<1>12. rec.length = rowAt.length \/ \E e \in Range(events) : e.kind = "delta"
  <2>1. CASE grown
    <3>1. Delta(text.text, text.length) \in Range(events)
      BY <1>6, <1>10, <2>1
    <3>2. Delta(text.text, text.length).kind = "delta"
      BY DEF Delta
    <3>. QED
      BY <3>1, <3>2
  <2>2. CASE ~grown
    BY <1>2, <2>2
  <2>. QED
    BY <2>1, <2>2
<1>13. rec.status = rowAt.status \/ \E e \in Range(events) : e.kind = "status"
  <2>1. CASE ended
    <3>1. Status(rowAt.status) \in Range(events)
      BY <1>8, <1>10, <2>1
    <3>2. Status(rowAt.status).kind = "status"
      BY DEF Status
    <3>. QED
      BY <3>1, <3>2
  <2>. QED
    BY <1>1, <2>1
<1>14. \A i \in Range(ItemsShown(rowAt.items)) :
         i \in Range(rec.items) \/ Item(i) \in Range(events)
  BY <1>4, <1>7, <1>10
<1>. QED
  BY <1>1, <1>5, <1>10, <1>11, <1>12, <1>13, <1>14

\* The number of the x-th event, once the oldest d entries are gone.
LEMMA ShiftFact ==
    ASSUME NEW a \in Nat, NEW b \in Nat, NEW d \in Nat, NEW p \in Nat, NEW q \in Nat,
           NEW r \in Nat, d + r = p + q, b = a + q, NEW x \in Nat
    PROVE  b - r + (p + x - d) = a + x
<1>1. r = p + q - d
  OBVIOUS
<1>. QED
  BY <1>1

\* A pass of the mirror: what a page without a gap lacks is among the entries
\* it had ahead of it, or is said again by the new ones.
LEMMA MirrorKeepsStream == ASSUME StreamInv, Mirror PROVE StreamInv'
<1>. StreamTypeOK /\ RecordIsWindow /\ LogIsConsecutive /\ PageIsBehind
  BY DEF StreamInv
<1>. DEFINE n == rowAt.length
<1>1. PICK events \in Seq(Events) :
        /\ log' = Publish(log, events)
        /\ \A e \in Range(events) :
             /\ e.kind = "delta" => e.text = Shown(n) /\ e.length = n
             /\ e.kind = "status" => e.status = rowAt.status
        /\ rec.length = n \/ \E e \in Range(events) : e.kind = "delta"
        /\ rec.status = rowAt.status \/ \E e \in Range(events) : e.kind = "status"
        /\ \A i \in Range(ItemsShown(rowAt.items)) :
             i \in Range(rec.items) \/ Item(i) \in Range(events)
  BY MirrorFact
<1>2. rec' = [text |-> Shown(n), length |-> n, items |-> ItemsShown(rowAt.items),
              status |-> rowAt.status]
  BY MirrorFact
<1>3. /\ UNCHANGED <<worker, up, pageVars, breaks, restarts>> /\ lastOffset' = n
      /\ rowAt' \in {rowAt, [rowAt EXCEPT !.cursor = log'.next]}
  BY DEF Mirror
<1>4. /\ rowAt \in [length : 0..worker.length, items : 0..worker.items, status : Statuses,
                    cursor : Nat]
      /\ n \in 0..MaxWork /\ rowAt.items \in Nat /\ MaxWork \in Nat
      /\ rec.length \in Nat /\ rec.length <= n
      /\ log \in Logs /\ Limit \in Nat /\ page.cursor \in Nat /\ page.data.length \in Nat
  <2>1. /\ rowAt \in [length : 0..worker.length, items : 0..worker.items, status : Statuses,
                      cursor : Nat]
        /\ worker.length \in 0..MaxWork /\ worker.items \in 0..MaxItems
        /\ MaxWork \in Nat /\ MaxItems \in Nat /\ Limit \in Nat
    BY Bounded DEF StreamTypeOK
  <2>2. log \in Logs
    BY DEF StreamTypeOK, Logs
  <2>3. rec \in Data /\ page \in [cursor : Nat, data : Data]
    BY DEF StreamTypeOK
  <2>4. rec.length \in Nat /\ page.cursor \in Nat /\ page.data.length \in Nat
    BY <2>3 DEF Data
  <2>5. rec.length = lastOffset /\ lastOffset <= n
    BY DEF RecordIsWindow
  <2>6. n \in 0..worker.length /\ rowAt.items \in 0..worker.items
    BY <2>1
  <2>7. n \in 0..MaxWork /\ rowAt.items \in Nat
    BY <2>1, <2>6
  <2>. QED
    BY <2>1, <2>2, <2>4, <2>5, <2>7
<1>. DEFINE p == Len(log.kept)
            q == Len(events)
            r == Len(log'.kept)
<1>5. /\ log.next \in Nat /\ p \in Nat /\ DOMAIN log.kept = 1..p
      /\ q \in Nat /\ DOMAIN events = 1..q
  BY <1>4 DEF Logs
<1>6. Numbered(log)
  BY DEF LogIsConsecutive, Numbered
<1>7. /\ log' \in Logs /\ Len(log'.kept) <= Limit /\ Numbered(log')
      /\ log'.next = log.next + Len(events)
      /\ \E d \in Nat :
           /\ d + Len(log'.kept) = Len(log.kept) + Len(events)
           /\ \A k \in 1..Len(log'.kept) :
                /\ d + k <= Len(log.kept) => log'.kept[k] = log.kept[d + k]
                /\ d + k > Len(log.kept)
                     => log'.kept[k].event = events[d + k - Len(log.kept)]
  <2>1. log \in Logs /\ Limit \in Nat /\ events \in Seq(Events)
    BY <1>4
  <2>. QED
    BY <1>1, <1>6, <2>1, PublishFact, Zenon
<1>8. PICK d \in Nat :
        /\ d + r = p + q
        /\ \A k \in 1..r :
             /\ d + k <= p => log'.kept[k] = log.kept[d + k]
             /\ d + k > p => log'.kept[k].event = events[d + k - p]
  BY <1>7
<1>9. /\ r \in Nat /\ DOMAIN log'.kept = 1..r /\ log'.next \in Nat /\ r <= log'.next
      /\ log'.next = log.next + q
      /\ \A k \in 1..r : log'.kept[k].seq = log'.next - r + k
  BY <1>7 DEF Logs, Numbered
<1>. HIDE DEF p, q, r
<1>15. d \in Nat /\ p \in Nat /\ q \in Nat /\ r \in Nat /\ d + r = p + q
  BY <1>5, <1>8, <1>9
<1>16. log.next \in Nat /\ log'.next = log.next + q /\ page.cursor \in Nat
  BY <1>4, <1>5, <1>9
\* An entry of the new log is an old one or a new event.
<1>10. ASSUME NEW k \in 1..r
       PROVE  \/ /\ d + k \in 1..p /\ log'.kept[k] = log.kept[d + k]
              \/ log'.kept[k].event \in Range(events)
  <2>1. CASE d + k <= p
    <3>1. d + k \in 1..p
      BY <1>5, <2>1
    <3>. QED
      BY <1>8, <2>1, <3>1
  <2>2. CASE d + k > p
    <3>1. d + k - p \in 1..q
      BY <1>5, <1>8, <1>9, <2>2
    <3>2. log'.kept[k].event = events[d + k - p]
      BY <1>8, <2>2
    <3>. QED
      BY <1>5, <3>1, <3>2 DEF Range
  <2>. QED
    BY <1>5, <1>8, <1>9, <2>1, <2>2
<1>11. StreamTypeOK'
  <2>1. /\ Shown(n) \in Seq(Nat) /\ Len(Shown(n)) <= Window
        /\ ItemsShown(rowAt.items) \in Seq(Nat) /\ Len(ItemsShown(rowAt.items)) <= Limit
    <3>1. n \in Nat
      BY <1>4
    <3>2. /\ Shown(n) \in Seq(Nat) /\ Len(Shown(n)) = IF n > Window THEN Window ELSE n
      BY <3>1, ShownFact
    <3>3. /\ ItemsShown(rowAt.items) \in Seq(Nat)
          /\ Len(ItemsShown(rowAt.items))
               = IF rowAt.items > Limit THEN Limit ELSE rowAt.items
      BY <1>4, ItemsShownFact
    <3>. QED
      BY <1>4, <3>1, <3>2, <3>3, Bounded
  <2>2. rowAt.status \in Statuses
    BY <1>4
  <2>3. rec' \in Data /\ Len(rec'.text) <= Window /\ Len(rec'.items) <= Limit
    BY <1>2, <1>4, <2>1, <2>2 DEF Data
  <2>4. rowAt' \in [length : 0..worker.length, items : 0..worker.items, status : Statuses,
                    cursor : Nat]
    BY <1>3, <1>4, <1>9
  <2>5. lastOffset' \in 0..MaxWork
    BY <1>3, <1>4
  <2>6. log' \in [next : Nat, kept : Seq(Entries)] /\ Len(log'.kept) <= Limit
    BY <1>7 DEF Logs
  <2>. QED
    BY <1>3, <2>3, <2>4, <2>5, <2>6 DEF StreamTypeOK, pageVars
<1>12. RecordIsWindow'
  <2>1. rowAt'.length = n /\ rowAt'.items = rowAt.items
    BY <1>3, <1>4
  <2>2. rowAt.items \in 0..rowAt.items /\ n <= n
    BY <1>4
  <2>3. page'.data = page.data
    BY <1>3 DEF pageVars
  <2>. QED
    BY <1>2, <1>3, <2>1, <2>2, <2>3 DEF RecordIsWindow
<1>13. LogIsConsecutive'
  <2>1. ASSUME NEW k \in 1..r, log'.kept[k].event.kind = "delta"
        PROVE  /\ log'.kept[k].event.length <= n
               /\ log'.kept[k].event.text = Shown(log'.kept[k].event.length)
    <3>1. CASE log'.kept[k].event \in Range(events)
      BY <1>1, <1>4, <2>1, <3>1
    <3>2. CASE d + k \in 1..p /\ log'.kept[k] = log.kept[d + k]
      <4>. DEFINE e == log.kept[d + k]
      <4>1. e.event.length <= rec.length /\ e.event.text = Shown(e.event.length)
        BY <1>5, <2>1, <3>2 DEF LogIsConsecutive, Delivers
      <4>2. e.event.length \in Nat
        <5>1. e \in Entries
          BY <1>4, <1>5, <3>2 DEF Logs, p
        <5>. QED
          BY <2>1, <3>2, <5>1 DEF Entries, Events
      <4>3. rec.length <= n /\ rec.length \in Nat /\ n \in Nat
        BY <1>4
      <4>4. e.event.length <= n
        <5>. HIDE DEF e
        <5>. QED
          BY ONLY <4>1, <4>2, <4>3, n \in Nat
      <4>5. log'.kept[k] = e
        BY <3>2
      <4>. QED
        BY ONLY <4>1, <4>4, <4>5
    <3>. QED
      BY <1>10, <3>1, <3>2
  <2>2. Len(log'.kept) <= log'.next /\ Len(log'.kept) = r
    BY <1>9 DEF r
  <2>. QED
    BY <1>2, <1>9, <2>1, <2>2 DEF LogIsConsecutive, Delivers
<1>14. PageIsBehind'
  <2>. SUFFICES ASSUME restarts = 0 PROVE PageIsBehind'
    BY <1>3 DEF PageIsBehind
  <2>1. /\ up /\ log.next > 0 /\ page.cursor <= log.next
        /\ mode = "open" => sent = page.cursor
        /\ page.data.length <= rec.length
        /\ LogIsCurrent /\ RestIsAhead
    BY DEF PageIsBehind
  <2>2. /\ up' /\ log'.next > 0 /\ page'.cursor <= log'.next
        /\ mode' = "open" => sent' = page'.cursor
        /\ page'.data.length <= rec'.length
        /\ page' = page
    <3>1. page' = page /\ mode' = mode /\ sent' = sent /\ up' = up
      BY <1>3 DEF pageVars
    <3>2. log'.next > 0 /\ page.cursor <= log'.next
      BY <1>4, <1>5, <1>9, <2>1, SMTT(20)
    <3>3. rec'.length = n
      BY <1>2
    <3>4. page.data.length <= n
      BY <1>4, <2>1
    <3>. QED
      BY <2>1, <3>1, <3>2, <3>3, <3>4
  \* The last of a kind is new, or it was the last and no event is of the kind.
  <2>3. ASSUME NEW kind, NEW k \in 1..r, LastSays(k, kind)',
               log'.kept[k].event \notin Range(events)
        PROVE  /\ \A e \in Range(events) : e.kind # kind
               /\ d + k \in 1..p /\ log'.kept[k] = log.kept[d + k]
               /\ LastSays(d + k, kind)
    <3>1. d + k \in 1..p /\ log'.kept[k] = log.kept[d + k]
      BY <1>10, <2>3
    <3>2. log'.kept[k].event.kind = kind /\ \A j \in k+1..r : log'.kept[j].event.kind # kind
      BY <2>3 DEF LastSays, Delivers, r
    <3>3. ASSUME NEW x \in 1..q PROVE events[x].kind # kind
      <4>. DEFINE j == p + x - d
      <4>1. j \in k+1..r /\ j \in 1..r /\ d + j > p /\ d + j - p = x
        <5>1. d + k <= p /\ k \in Nat /\ k > 0 /\ x \in Nat /\ x > 0 /\ x <= q
          BY <1>15, <3>1
        <5>2. j \in Int /\ j >= k + 1 /\ j <= r
          BY <1>15, <5>1
        <5>. QED
          BY <1>15, <5>1, <5>2
      <4>. HIDE DEF j
      <4>2. log'.kept[j].event = events[x]
        BY <1>8, <4>1
      <4>. QED
        BY <3>2, <4>1, <4>2
    <3>4. ASSUME NEW j \in d+k+1..p PROVE log.kept[j].event.kind # kind
      <4>. DEFINE i == j - d
      <4>1. i \in k+1..r /\ i \in 1..r /\ d + i <= p /\ d + i = j
        BY <1>5, <1>8, <1>9, <3>1
      <4>. HIDE DEF i
      <4>2. log'.kept[i] = log.kept[j]
        BY <1>8, <4>1
      <4>. QED
        BY <3>2, <4>1, <4>2
    <3>5. LastSays(d + k, kind)
      BY <3>1, <3>2, <3>4 DEF LastSays, Delivers, p
    <3>. QED
      BY <1>5, <3>1, <3>3, <3>5 DEF Range
  <2>4. LogIsCurrent'
    <3>1. ASSUME NEW k \in 1..r, LastSays(k, "delta")' PROVE log'.kept[k].event.length = n
      <4>1. log'.kept[k].event.kind = "delta"
        BY <3>1 DEF LastSays, Delivers
      <4>2. CASE log'.kept[k].event \in Range(events)
        BY <1>1, <4>1, <4>2
      <4>3. CASE log'.kept[k].event \notin Range(events)
        <5>1. /\ \A e \in Range(events) : e.kind # "delta"
              /\ d + k \in 1..p /\ log'.kept[k] = log.kept[d + k] /\ LastSays(d + k, "delta")
          BY <2>3, <3>1, <4>3
        <5>2. rec.length = n
          BY <1>1, <5>1
        <5>3. log.kept[d + k].event.length = rec.length
          BY <1>5, <2>1, <5>1 DEF LogIsCurrent
        <5>. QED
          BY <5>1, <5>2, <5>3
      <4>. QED
        BY <4>2, <4>3
    <3>2. ASSUME NEW k \in 1..r, LastSays(k, "status")'
          PROVE  log'.kept[k].event.status = rowAt.status
      <4>1. log'.kept[k].event.kind = "status"
        BY <3>2 DEF LastSays, Delivers
      <4>2. CASE log'.kept[k].event \in Range(events)
        BY <1>1, <4>1, <4>2
      <4>3. CASE log'.kept[k].event \notin Range(events)
        <5>1. /\ \A e \in Range(events) : e.kind # "status"
              /\ d + k \in 1..p /\ log'.kept[k] = log.kept[d + k] /\ LastSays(d + k, "status")
          BY <2>3, <3>2, <4>3
        <5>2. rec.status = rowAt.status
          BY <1>1, <5>1
        <5>3. log.kept[d + k].event.status = rec.status
          BY <1>5, <2>1, <5>1 DEF LogIsCurrent
        <5>. QED
          BY <5>1, <5>2, <5>3
      <4>. QED
        BY <4>2, <4>3
    <3>3. rec'.length = n /\ rec'.status = rowAt.status
      BY <1>2
    <3>. QED
      BY <1>9, <3>1, <3>2, <3>3 DEF LogIsCurrent
  <2>5. RestIsAhead'
    <3>. SUFFICES ASSUME log'.next <= page'.cursor + r PROVE RestIsAhead'
      BY DEF RestIsAhead, r
    <3>1. /\ log.next <= page.cursor + p - d /\ d <= p /\ log.next <= page.cursor + p
      <4>1. /\ log.next \in Nat /\ page.cursor \in Nat /\ page.cursor <= log.next
            /\ log.next + q <= page.cursor + r
        BY <1>16, <2>1, <2>2
      <4>. QED
        BY ONLY <1>15, <4>1
    <3>2. ASSUME NEW k \in 1..r, log'.next - r + k > page.cursor PROVE k \in Ahead'
      BY <1>9, <2>2, <3>2 DEF Ahead
    \* Nothing the page still waits for was dropped, and all new is after it.
    <3>3. ASSUME NEW e \in Range(events) PROVE \E k \in Ahead' : log'.kept[k].event = e
      <4>1. PICK x \in 1..q : events[x] = e
        BY <1>5 DEF Range
      <4>. DEFINE k == p + x - d
      <4>2. /\ k \in 1..r /\ d + k > p /\ d + k - p = x
            /\ log'.next - r + k > page.cursor
        <5>1. x \in Nat /\ x > 0 /\ x <= q /\ d <= p
          BY <1>15, <3>1
        <5>2. k \in Nat /\ k > 0 /\ k <= r /\ d + k = p + x
          BY <1>15, <5>1
        <5>3. log'.next - r + k = log.next + x
          BY <1>15, <1>16, <5>1, ShiftFact
        <5>4. page.cursor <= log.next
          BY <2>1
        <5>. QED
          BY <1>15, <1>16, <5>1, <5>2, <5>3, <5>4
      <4>. HIDE DEF k
      <4>3. log'.kept[k].event = e
        BY <1>8, <4>1, <4>2
      <4>. QED
        BY <3>2, <4>2, <4>3
    <3>4. ASSUME NEW j \in Ahead
          PROVE  \E k \in Ahead' : log'.kept[k].event = log.kept[j].event
      <4>1. j \in 1..p /\ log.kept[j].seq > page.cursor
        BY <1>5 DEF Ahead
      <4>2. log.kept[j].seq = log.next - p + j
        BY <1>5, <1>6, <4>1 DEF Numbered, p
      <4>. DEFINE k == j - d
      <4>3. /\ k \in 1..r /\ d + k <= p /\ d + k = j
            /\ log'.next - r + k > page.cursor
        <5>1. j \in Nat /\ j <= p /\ log.next - p + j > page.cursor
          BY <1>15, <4>1, <4>2
        <5>2. j > d
          BY <1>15, <1>16, <3>1, <5>1
        <5>3. k \in Nat /\ k > 0 /\ k <= r /\ d + k = j
          BY <1>15, <5>1, <5>2
        <5>4. log'.next - r + k = log.next - p + j
          <6>1. j \in Nat /\ log'.next \in Nat
            BY <1>9, <5>1
          <6>2. r = p + q - d /\ j \in Nat
            BY <1>15, <6>1
          <6>3. log'.next = log.next + q
            BY <1>16
          <6>4. log.next \in Nat
            BY <1>16
          <6>5. \A x \in Nat : (log.next + q) - (p + q - d) + (x - d) = log.next - p + x
            BY <1>15, <6>4
          <6>6. (log.next + q) - (p + q - d) + (j - d) = log.next - p + j
            BY <6>2, <6>5
          <6>. QED
            BY <6>2, <6>3, <6>6
        <5>. QED
          BY <1>15, <5>1, <5>3, <5>4
      <4>. HIDE DEF k
      <4>4. log'.kept[k] = log.kept[j]
        BY <1>8, <4>3
      <4>. QED
        BY <3>2, <4>3, <4>4
    <3>5. /\ page.data.length = rec.length \/ \E k \in Ahead : Delivers(k, "delta")
          /\ page.data.status = rec.status \/ \E k \in Ahead : Delivers(k, "status")
          /\ \A i \in Range(rec.items) :
               \/ i \in Range(page.data.items)
               \/ \E k \in Ahead : log.kept[k].event = Item(i)
      BY <2>1, <3>1 DEF RestIsAhead, p
    <3>6. page.data.length = n \/ \E k \in Ahead' : log'.kept[k].event.kind = "delta"
      <4>1. CASE \E e \in Range(events) : e.kind = "delta"
        BY <3>3, <4>1
      <4>2. CASE \E k \in Ahead : Delivers(k, "delta")
        BY <3>4, <4>2 DEF Delivers
      <4>. QED
        BY <1>1, <3>5, <4>1, <4>2
    <3>7. page.data.status = rowAt.status
            \/ \E k \in Ahead' : log'.kept[k].event.kind = "status"
      <4>1. CASE \E e \in Range(events) : e.kind = "status"
        BY <3>3, <4>1
      <4>2. CASE \E k \in Ahead : Delivers(k, "status")
        BY <3>4, <4>2 DEF Delivers
      <4>. QED
        BY <1>1, <3>5, <4>1, <4>2
    <3>8. ASSUME NEW i \in Range(ItemsShown(rowAt.items))
          PROVE  \/ i \in Range(page.data.items)
                 \/ \E k \in Ahead' : log'.kept[k].event = Item(i)
      <4>1. CASE Item(i) \in Range(events)
        BY <3>3, <4>1
      <4>2. CASE \E k \in Ahead : log.kept[k].event = Item(i)
        BY <3>4, <4>2
      <4>. QED
        BY <1>1, <3>5, <4>1, <4>2
    <3>9. /\ rec'.length = n /\ rec'.status = rowAt.status
          /\ rec'.items = ItemsShown(rowAt.items)
      BY <1>2
    <3>. QED
      BY <2>2, <3>6, <3>7, <3>8, <3>9 DEF RestIsAhead, Delivers
  <2>. QED
    BY <2>2, <2>4, <2>5 DEF PageIsBehind
<1>. QED
  BY <1>11, <1>12, <1>13, <1>14 DEF StreamInv

-----------------------------------------------------------------------------
LEMMA StreamStep == ASSUME StreamInv, [StreamNext]_streamVars PROVE StreamInv'
<1>1. CASE Work \/ Flush
  BY <1>1, WorkKeepsStream
<1>2. CASE Mirror
  BY <1>2, MirrorKeepsStream
<1>3. CASE Crash \/ Restart
  BY <1>3, CrashKeepsStream
<1>4. CASE Connect
  <2>1. CASE page.cursor = 0
    BY <1>4, <2>1, SnapshotKeepsStream
  <2>2. CASE page.cursor # 0
    BY <1>4, <2>2, WaitKeepsStream
  <2>. QED
    BY <2>1, <2>2
<1>5. CASE Resync \/ CheckLatest \/ Poll \/ FinishPage
  BY <1>5, SnapshotKeepsStream
<1>6. CASE HandlerEnds \/ Break \/ CheckFails
  BY <1>6, WaitKeepsStream
<1>7. CASE Deliver
  BY <1>7, DeliverKeepsStream
<1>8. CASE UNCHANGED streamVars
  <2>1. UNCHANGED <<worker, rowAt, up, rec, lastOffset, log, page, mode, sent, attempts,
                    breaks, restarts>>
    BY <1>8 DEF streamVars, hostVars, pageVars
  <2>2. StreamTypeOK' /\ RecordIsWindow' /\ LogIsConsecutive'
    BY <2>1 DEF StreamInv, StreamTypeOK, RecordIsWindow, LogIsConsecutive, Delivers
  <2>3. PageIsBehind'
    BY <2>1 DEF StreamInv, PageIsBehind, LogIsCurrent, LastSays, Delivers, RestIsAhead, Ahead
  <2>. QED
    BY <2>2, <2>3 DEF StreamInv
<1>. QED
  BY <1>1, <1>2, <1>3, <1>4, <1>5, <1>6, <1>7, <1>8
     DEF StreamNext, StreamSystem, Server, Page

\* The invariant of the event stream, of every behaviour: types, the record as
\* the window of the worker's output (WorkerSnapshotMirror.apply), the log as
\* the numbered end of what was published (EventLog.append), and, while the
\* host lives, what a page lacks as part of what it will be sent.
THEOREM StreamInvariant == StreamSpec => []StreamInv
<1>1. StreamInit => StreamInv
  BY StreamStart
<1>2. StreamInv /\ [StreamNext]_streamVars => StreamInv'
  BY StreamStep
<1>. QED
  BY <1>1, <1>2, PTL DEF StreamSpec

\* A window of an output is one stretch that ends with its last position.
LEMMA ShownIsWhole ==
    ASSUME NEW n \in Nat
    PROVE  Consecutive(Shown(n)) /\ (n > 0 => Shown(n) # <<>> /\ Shown(n)[Len(Shown(n))] = n)
<1>. DEFINE s == Shown(n)
<1>1. /\ s \in Seq(Nat) /\ Len(s) = IF n > Window THEN Window ELSE n
      /\ \A i \in 1..Len(s) : s[i] = n - Len(s) + i
  BY ShownFact
<1>. HIDE DEF s
<1>2. Len(s) \in Nat /\ Window \in Nat \ {0}
  BY <1>1, Bounded
<1>3. Consecutive(s)
  BY <1>1, <1>2, SMTT(20) DEF Consecutive
<1>4. ASSUME n > 0 PROVE s # <<>> /\ s[Len(s)] = n
  <2>1. Len(s) \in 1..Len(s)
    BY <1>1, <1>2, <1>4
  <2>2. s[Len(s)] = n - Len(s) + Len(s) /\ s # <<>>
    BY <1>1, <1>2, <2>1
  <2>. QED
    BY <1>2, <2>2
<1>. QED
  BY <1>3, <1>4 DEF s

\* A page whose cursor is the newest of the log has nothing ahead of it.
LEMMA InvariantShowsFaithful == StreamInv => PageIsFaithful
<1>. SUFFICES ASSUME StreamInv PROVE PageIsFaithful
  OBVIOUS
<1>1. NoSplice
  <2>1. /\ rec.length \in Nat /\ rec.text = Shown(rec.length)
        /\ page.data.length \in Nat /\ page.data.text = Shown(page.data.length)
    <3>1. rec \in Data /\ page \in [cursor : Nat, data : Data]
      BY DEF StreamInv, StreamTypeOK
    <3>. QED
      BY <3>1 DEF StreamInv, RecordIsWindow, Data
  <2>. QED
    BY <2>1, ShownIsWhole DEF NoSplice
<1>2. ASSUME restarts = 0, page.cursor = log.next PROVE UpToDate
  <2>1. /\ log.next \in Nat /\ log.kept \in Seq(Entries) /\ Len(log.kept) \in Nat
        /\ DOMAIN log.kept = 1..Len(log.kept)
    BY DEF StreamInv, StreamTypeOK
  <2>2. \A k \in DOMAIN log.kept : log.kept[k].seq = log.next - Len(log.kept) + k
    BY DEF StreamInv, LogIsConsecutive
  <2>3. Ahead = {}
    BY <1>2, <2>1, <2>2 DEF Ahead
  <2>4. log.next <= page.cursor + Len(log.kept)
    BY <1>2, <2>1
  <2>5. /\ page.data.length = rec.length /\ page.data.status = rec.status
        /\ \A i \in Range(rec.items) : i \in Range(page.data.items)
    BY <1>2, <2>3, <2>4 DEF StreamInv, PageIsBehind, RestIsAhead
  <2>6. page.data.text = rec.text
    BY <2>5 DEF StreamInv, RecordIsWindow
  <2>. QED
    BY <2>5, <2>6 DEF UpToDate
<1>. QED
  BY <1>1, <1>2 DEF PageIsFaithful, CursorIsReceipt

\* In every behaviour a page shows one stretch of the output, and the record
\* itself when its cursor is the newest of the living host's log, whatever was
\* skipped, dropped from the log or sent twice (reduceTaskEvent,
\* applyTaskSnapshot, _stream_task).
THEOREM PagesAreFaithful == StreamSpec => []PageIsFaithful
<1>1. StreamInv => PageIsFaithful
  BY InvariantShowsFaithful
<1>. QED
  BY <1>1, StreamInvariant, PTL

-----------------------------------------------------------------------------
\* What the three parts keep, they keep side by side.
THEOREM ServiceInvariant == ServiceSpec => []PartsInv
<1>1. ServiceInit => PartsInv
  BY WriterInit, StreamStart, TaskStart DEF ServiceInit, PartsInv
<1>2. PartsInv /\ [ServiceNext]_serviceVars => PartsInv'
  <2>. SUFFICES ASSUME PartsInv, [ServiceNext]_serviceVars PROVE PartsInv'
    OBVIOUS
  <2>1. part' = part
    BY DEF ServiceNext, serviceVars, butWriter, butStream, butRun
  <2>2. CASE part = "writer"
    <3>1. WriterInv /\ [Next]_vars
      BY <2>2 DEF PartsInv, ServiceNext, serviceVars
    <3>. QED
      BY <2>1, <2>2, <3>1, WriterStep DEF PartsInv, Parts
  <2>3. CASE part = "stream"
    <3>1. StreamInv /\ [StreamNext]_streamVars
      BY <2>3 DEF PartsInv, ServiceNext, serviceVars
    <3>. QED
      BY <2>1, <2>3, <3>1, StreamStep DEF PartsInv, Parts
  <2>4. CASE part = "run"
    <3>1. TaskInv /\ [TaskNext]_taskVars
      BY <2>4 DEF PartsInv, ServiceNext, serviceVars
    <3>. QED
      BY <2>1, <2>4, <3>1, TaskKeeps DEF PartsInv, Parts
  <2>. QED
    BY <2>2, <2>3, <2>4 DEF PartsInv, Parts
<1>. QED
  BY <1>1, <1>2, PTL DEF ServiceSpec
=============================================================================
