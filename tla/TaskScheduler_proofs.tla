------------------------ MODULE TaskScheduler_proofs ------------------------
(* Proofs about TaskScheduler, for any number of tasks, sessions, workers   *)
(* and places in a queue.                                                   *)
EXTENDS TaskScheduler, TLAPS, FunctionTheorems, FiniteSetTheorems,
        SequenceTheorems

-----------------------------------------------------------------------------
(* Numbers in order *)

\* A non-empty set of naturals has a least one: of the sets 0..m for its m, one
\* has no proper subset among them.
LEMMA Least ==
    ASSUME NEW T \in SUBSET Nat, T # {}
    PROVE  \E m \in T : \A n \in T : m <= n
<1>. DEFINE Below(m) == 0..m
            F == {Below(m) : m \in T}
<1>1. F \subseteq FiniteSubsetsOf(Nat)
  <2>1. \A m \in T : Below(m) \in SUBSET Nat /\ IsFiniteSet(Below(m))
    BY FS_Interval
  <2>. QED
    BY <2>1 DEF FiniteSubsetsOf
<1>2. PICK D \in F : \A C \in F : ~ (<<C, D>> \in StrictSubsetOrdering(Nat))
  <2>1. F # {}
    OBVIOUS
  <2>. QED
    BY <1>1, <2>1, FS_StrictSubsetOrderingWellFounded, WFMin
<1>3. PICK m \in T : D = Below(m)
  OBVIOUS
<1>4. ASSUME NEW n \in T, n < m PROVE FALSE
  <2>1. Below(n) \in F /\ Below(n) \subseteq Below(m) /\ m \in Below(m) /\ m \notin Below(n)
    BY <1>4
  <2>2. <<Below(n), Below(m)>> \in StrictSubsetOrdering(Nat)
    BY <2>1 DEF StrictSubsetOrdering
  <2>. QED
    BY <1>2, <1>3, <2>1, <2>2
<1>. QED
  BY <1>4

\* A set of numbers up to n is finite.
LEMMA FiniteUpTo ==
    ASSUME NEW n \in Nat, NEW T \in SUBSET (1..n)
    PROVE  IsFiniteSet(T) /\ Cardinality(T) \in Nat
<1>1. IsFiniteSet(1..n)
  BY FS_Interval
<1>2. IsFiniteSet(T)
  BY <1>1, FS_Subset
<1>. QED
  BY <1>2, FS_CardinalityType

Orders(T) == {f \in [1..Cardinality(T) -> T] : \A i, j \in DOMAIN f : i < j => f[i] < f[j]}

\* Every set of numbers up to n can be enumerated in ascending order.
LEMMA CanBeOrdered ==
    ASSUME NEW n \in Nat
    PROVE  \A T \in SUBSET (1..n) : Orders(T) # {}
<1>. DEFINE Bad == {m \in Nat : \E T \in SUBSET (1..m) : Orders(T) = {}}
<1>1. SUFFICES ASSUME Bad # {} PROVE FALSE
  OBVIOUS
<1>2. PICK m \in Bad : \A k \in Bad : m <= k
  <2>. HIDE DEF Bad
  <2>1. Bad \in SUBSET Nat
    BY DEF Bad
  <2>. QED
    BY <1>1, <2>1, Least
<1>3. PICK T \in SUBSET (1..m) : Orders(T) = {}
  OBVIOUS
<1>. m \in Nat
  OBVIOUS
<1>4. IsFiniteSet(T) /\ Cardinality(T) \in Nat
  BY FiniteUpTo
<1>5. T # {}
  <2>1. SUFFICES ASSUME T = {} PROVE FALSE
    OBVIOUS
  <2>2. Cardinality(T) = 0
    BY <2>1, FS_EmptySet
  <2>3. [i \in 1..0 |-> 0] \in [1..Cardinality(T) -> T]
    BY <2>2
  <2>4. [i \in 1..0 |-> 0] \in Orders(T)
    BY <2>3 DEF Orders
  <2>. QED
    BY <1>3, <2>4
<1>6. m \in Nat \ {0} /\ m - 1 \in Nat /\ m - 1 \notin Bad
  <2>1. m # 0
    <3>1. 1..0 = {}
      OBVIOUS
    <3>. QED
      BY <1>5, <3>1
  <2>. QED
    BY <1>2, <2>1
<1>7. m \in T
  <2>1. SUFFICES ASSUME m \notin T PROVE FALSE
    OBVIOUS
  <2>2. T \in SUBSET (1..(m - 1))
    BY <1>6, <2>1
  <2>. QED
    BY <1>3, <1>6, <2>2
<1>8. PICK f : f \in Orders(T \ {m})
  <2>1. T \ {m} \in SUBSET (1..(m - 1))
    BY <1>6
  <2>. QED
    BY <1>6, <2>1
<1>. DEFINE c == Cardinality(T)
            g == [i \in 1..c |-> IF i < c THEN f[i] ELSE m]
<1>9. c \in Nat \ {0} /\ Cardinality(T \ {m}) = c - 1
  BY <1>4, <1>5, <1>7, FS_RemoveElement, FS_EmptySet
<1>10. /\ f \in [1..(c - 1) -> T \ {m}]
       /\ \A i, j \in 1..(c - 1) : i < j => f[i] < f[j]
  BY <1>8, <1>9 DEF Orders
<1>11. g \in [1..c -> T]
  BY <1>7, <1>9, <1>10
<1>12. \A i, j \in 1..c : i < j => g[i] < g[j]
  <2>1. SUFFICES ASSUME NEW i \in 1..c, NEW j \in 1..c, i < j PROVE g[i] < g[j]
    OBVIOUS
  <2>2. i \in 1..(c - 1) /\ g[i] = f[i]
    BY <1>9, <2>1
  <2>3. CASE j < c
    BY <1>9, <1>10, <2>1, <2>2, <2>3
  <2>4. CASE j = c
    <3>1. f[i] \in T \ {m}
      BY <1>10, <2>2
    <3>2. f[i] \in 1..m /\ f[i] # m
      BY <3>1
    <3>3. f[i] < m
      BY <3>2
    <3>. QED
      BY <1>9, <2>2, <2>4, <3>3
  <2>. QED
    BY <1>9, <2>1, <2>3, <2>4
<1>13. g \in Orders(T)
  BY <1>11, <1>12 DEF Orders
<1>. QED
  BY <1>3, <1>13

\* What InOrder promises: every element once.
LEMMA InOrderFact ==
    ASSUME NEW n \in Nat, NEW ns \in SUBSET (1..n)
    PROVE  /\ Cardinality(ns) \in Nat
           /\ InOrder(ns) \in [1..Cardinality(ns) -> ns]
           /\ \A i, j \in 1..Cardinality(ns) : InOrder(ns)[i] = InOrder(ns)[j] => i = j
           /\ \A k \in ns : \E i \in 1..Cardinality(ns) : InOrder(ns)[i] = k
<1>. DEFINE c == Cardinality(ns)
            f == InOrder(ns)
<1>1. IsFiniteSet(ns) /\ c \in Nat
  BY FiniteUpTo
<1>2. \E h \in [1..c -> ns] : \A i, j \in DOMAIN h : i < j => h[i] < h[j]
  BY CanBeOrdered DEF Orders
<1>3. f \in [1..c -> ns] /\ \A i, j \in DOMAIN f : i < j => f[i] < f[j]
  BY <1>2 DEF InOrder
<1>. HIDE DEF f, c
<1>4. \A i, j \in 1..c : f[i] = f[j] => i = j
  <2>1. SUFFICES ASSUME NEW i \in 1..c, NEW j \in 1..c, f[i] = f[j] PROVE i = j
    OBVIOUS
  <2>2. f[i] \in ns /\ f[i] \in Nat
    <3>1. f[i] \in ns
      BY <1>3
    <3>2. f[i] \in 1..n
      BY <3>1
    <3>. QED
      BY <3>1, <3>2
  <2>3. ~ (i < j) /\ ~ (j < i)
    BY <1>3, <2>1, <2>2
  <2>. QED
    BY <1>1, <2>3
<1>5. f \in Injection(1..c, ns)
  BY <1>3, <1>4, Fun_IsInj
<1>6. f \in Surjection(1..c, ns)
  <2>1. IsFiniteSet(1..c) /\ Cardinality(1..c) = c
    BY <1>1, FS_Interval
  <2>. QED
    BY <1>1, <1>5, <2>1, FS_Injection DEF c
<1>7. \A k \in ns : \E i \in 1..c : f[i] = k
  BY <1>6 DEF Surjection
<1>. QED
  BY <1>1, <1>3, <1>4, <1>7 DEF f, c

\* What is left of a queue: its entries in ts, each as often as before.
LEMMA OnlyFact ==
    ASSUME NEW q \in Seq(Ids), NEW ts
    PROVE  /\ Only(q, ts) \in Seq(Ids)
           /\ \A i \in DOMAIN Only(q, ts) : \E k \in DOMAIN q :
                Only(q, ts)[i] = q[k] /\ q[k] \in ts
           /\ (\A i, j \in DOMAIN q : q[i] = q[j] => i = j)
                => \A i, j \in DOMAIN Only(q, ts) :
                     Only(q, ts)[i] = Only(q, ts)[j] => i = j
<1>. DEFINE at == {i \in DOMAIN q : q[i] \in ts}
            c == Cardinality(at)
            f == InOrder(at)
<1>1. Len(q) \in Nat /\ DOMAIN q = 1..Len(q) /\ at \in SUBSET (1..Len(q))
  OBVIOUS
<1>2. /\ c \in Nat
      /\ f \in [1..c -> at]
      /\ \A i, j \in 1..c : f[i] = f[j] => i = j
  <2>. HIDE DEF at
  <2>. QED
    BY <1>1, InOrderFact
<1>3. Only(q, ts) = [i \in 1..c |-> q[f[i]]]
  <2>1. DOMAIN f = 1..c
    BY <1>2
  <2>2. Only(q, ts) = [i \in DOMAIN f |-> q[f[i]]]
    BY DEF Only
  <2>. QED
    BY <2>1, <2>2
<1>. HIDE DEF f, c
<1>4. \A i \in 1..c : f[i] \in DOMAIN q /\ q[f[i]] \in ts
  BY <1>2
<1>5. \A i \in 1..c : q[f[i]] \in Ids
  BY <1>4
<1>6. Only(q, ts) \in Seq(Ids) /\ DOMAIN Only(q, ts) = 1..c
  BY <1>2, <1>3, <1>5
<1>. QED
  BY <1>2, <1>3, <1>4, <1>6

\* The rest of a sequence after its k-th entry.
LEMMA RestFact ==
    ASSUME NEW q \in Seq(Ids), NEW k \in 1..Len(q)
    PROVE  /\ SubSeq(q, k + 1, Len(q)) \in Seq(Ids)
           /\ DOMAIN SubSeq(q, k + 1, Len(q)) = 1..(Len(q) - k)
           /\ \A i \in 1..(Len(q) - k) :
                k + i \in DOMAIN q /\ SubSeq(q, k + 1, Len(q))[i] = q[k + i]
<1>. DEFINE n == Len(q)
            rest == SubSeq(q, k + 1, n)
<1>1. n \in Nat /\ DOMAIN q = 1..n /\ k + 1 \in Int /\ n \in Int /\ k \in 1..n
  OBVIOUS
<1>2. \A i \in (k + 1)..n : q[i] \in Ids
  <2>1. \A i \in (k + 1)..n : i \in 1..n
    BY <1>1
  <2>. QED
    BY <2>1
<1>. HIDE DEF n
<1>3. /\ rest \in Seq(Ids)
      /\ Len(rest) = IF k + 1 <= n THEN n - (k + 1) + 1 ELSE 0
      /\ \A i \in 1..(n - (k + 1) + 1) : rest[i] = q[k + 1 + i - 1]
  BY <1>1, <1>2, SubSeqProperties
<1>4. Len(rest) = n - k /\ n - (k + 1) + 1 = n - k
  BY <1>1, <1>3
<1>. HIDE DEF rest
<1>5. DOMAIN rest = 1..(n - k)
  BY <1>3, <1>4
<1>6. \A i \in 1..(n - k) : k + i \in 1..n /\ k + 1 + i - 1 = k + i
  BY <1>1
<1>7. \A i \in 1..(n - k) : rest[i] = q[k + i]
  BY <1>3, <1>4, <1>6
<1>. QED
  BY <1>1, <1>3, <1>5, <1>6, <1>7 DEF n, rest

\* A sequence with t at its end.
LEMMA AppendFact ==
    ASSUME NEW q \in Seq(Ids), NEW t \in Ids,
           \A i, j \in 1..Len(q) : q[i] = q[j] => i = j,
           \A i \in 1..Len(q) : q[i] # t
    PROVE  /\ Append(q, t) \in Seq(Ids)
           /\ \A i, j \in 1..Len(Append(q, t)) :
                Append(q, t)[i] = Append(q, t)[j] => i = j
           /\ \A i \in 1..Len(Append(q, t)) :
                Append(q, t)[i] = t \/ \E j \in 1..Len(q) : Append(q, t)[i] = q[j]
           /\ \A u \in Ids : (\E i \in 1..Len(Append(q, t)) : Append(q, t)[i] = u)
                               <=> u = t \/ \E i \in 1..Len(q) : q[i] = u
<1>. DEFINE n == Len(q)
            r == Append(q, t)
<1>1. /\ n \in Nat /\ r \in Seq(Ids) /\ Len(r) = n + 1 /\ r[n + 1] = t
      /\ \A i \in 1..n : r[i] = q[i]
  BY AppendProperties
<1>. HIDE DEF n, r
<1>2. \A i \in 1..(n + 1) : i = n + 1 \/ i \in 1..n
  BY <1>1
<1>3. \A i \in 1..n : i \in 1..(n + 1) /\ q[i] # t
  BY <1>1 DEF n
<1>4. n + 1 \in 1..(n + 1)
  BY <1>1
<1>5. \A i, j \in 1..(n + 1) : r[i] = r[j] => i = j
  BY <1>1, <1>2, <1>3 DEF n
<1>6. \A u \in Ids : (\E i \in 1..(n + 1) : r[i] = u)
                         <=> u = t \/ \E i \in 1..n : q[i] = u
  BY <1>1, <1>2, <1>3, <1>4
<1>7. \A i \in 1..(n + 1) : r[i] = t \/ \E j \in 1..n : r[i] = q[j]
  BY <1>1, <1>2
<1>. QED
  BY <1>1, <1>5, <1>6, <1>7 DEF n, r

-----------------------------------------------------------------------------
(* The scheduler *)

\* How Dispatch leaves the slot of s: as it was, or with an entry t of q that
\* can still run.
Dispatched(s, q, act, p, k) ==
    LET t == q[k]
    IN /\ act[s] = 0 /\ Startable(t)
       /\ queue' = [queue EXCEPT ![s] = SubSeq(q, k + 1, Len(q))]
       /\ active' = [act EXCEPT ![s] = t]
       /\ \/ /\ pool' = pool /\ pc' = [p EXCEPT ![t] = "starting"]
             /\ kind'[t] \in Batches
          \/ pool' = Append(pool, t) /\ pc' = [p EXCEPT ![t] = "submitted"]

\* _schedule_session_locked leaves everything, empties a queue that has nothing to
\* start, or starts its first startable entry.
LEMMA DispatchFact ==
    ASSUME NEW s, NEW q \in Seq(Ids), NEW act, NEW p, Dispatch(s, q, act, p)
    PROVE  \/ /\ queue' = [queue EXCEPT ![s] = q] \/ queue' = [queue EXCEPT ![s] = <<>>]
              /\ active' = act /\ pool' = pool /\ pc' = p
           \/ \E k \in 1..Len(q) : Dispatched(s, q, act, p, k)
<1>1. CASE act[s] # 0 \/ ~ \E t \in Range(q) : Startable(t)
  BY <1>1 DEF Dispatch
<1>2. CASE ~ (act[s] # 0 \/ ~ \E t \in Range(q) : Startable(t))
  <2>. DEFINE I == {i \in 1..Len(q) : Startable(q[i])}
              k == SelectInSeq(q, Startable)
  <2>1. I # {} /\ I \in SUBSET Nat
    BY <1>2 DEF Range
  <2>2. k = Min(I)
    BY <2>1 DEF SelectInSeq
  <2>3. k \in I
    <3>. HIDE DEF I, k
    <3>1. \E m \in I : \A n \in I : m <= n
      BY <2>1, Least
    <3>. QED
      BY <2>2, <3>1 DEF Min
  <2>4. Dispatched(s, q, act, p, k)
    <3>. DEFINE batch == kind'[q[k]] \in Batches /\ q[k] \in pending'
    <3>1. /\ queue' = [queue EXCEPT ![s] = SubSeq(q, k + 1, Len(q))]
          /\ active' = [act EXCEPT ![s] = q[k]]
          /\ pool' = IF batch THEN pool ELSE Append(pool, q[k])
          /\ pc' = [p EXCEPT ![q[k]] = IF batch THEN "starting" ELSE "submitted"]
      BY <1>2 DEF Dispatch
    <3>2. batch => kind'[q[k]] \in Batches
      OBVIOUS
    <3>. HIDE DEF k, batch
    <3>. QED
      BY <1>2, <2>3, <3>1, <3>2 DEF Dispatched
  <2>. HIDE DEF k
  <2>. QED
    BY <2>3, <2>4
<1>. QED
  BY <1>1, <1>2

\* Ids are numbers, and none of them is the mark of a free slot.
LEMMA NumberFact == N \in Nat /\ Ids \subseteq Nat /\ 0 \notin Ids /\ Ids \subseteq 0..N
BY BoundsAssumption DEF Ids

\* Every task is a key, and no key is both a session and a child.
LEMMA KeyFact == Ids \subseteq Keys /\ Sessions \subseteq Keys /\ Sessions \cap Ids = {}
BY SessionsAssumption, NumberFact DEF Keys

(* The invariants of the slots, of queues q, slots act, pool po and threads p; *)
(* all else is what it is after the step.                                      *)
SlotTypes(q, act, po, p) ==
    /\ q \in [Keys -> Seq(Ids)] /\ act \in [Keys -> 0..N]
    /\ po \in Seq(Ids) /\ p \in [Ids -> Pcs]

Waits(q, p) ==
    \A s \in Keys :
        /\ \A i, j \in DOMAIN q[s] : q[s][i] = q[s][j] => i = j
        /\ \A i \in DOMAIN q[s] :
             /\ session'[q[s][i]] = s /\ p[q[s][i]] = "none"
             /\ kind'[q[s][i]] \in {"task"} \cup Batches /\ q[s][i] \notin building'

Holds(act, p) ==
    \A s \in Keys : act[s] # 0 =>
        session'[act[s]] = s /\ p[act[s]] \notin {"none", "done"}

Excludes(act, p) ==
    \A t \in Ids :
        /\ p[t] \notin {"none", "done"}
        /\ status'[t] \notin Terminal \/ kind'[t] \notin Batches
        => act[session'[t]] = t

Once(po, p) ==
    /\ \A i, j \in 1..Len(po) : po[i] = po[j] => i = j
    /\ \A t \in Ids : (\E i \in 1..Len(po) : po[i] = t) <=> p[t] = "submitted"

Starts(act, p) ==
    \A t \in Ids : p[t] = "starting" =>
        /\ kind'[t] \in Batches
        /\ act[session'[t]] = t => t \in known' /\ row'[t] \notin Terminal

Slots(q, act, po, p) ==
    /\ SlotTypes(q, act, po, p) /\ Waits(q, p) /\ Holds(act, p)
    /\ Excludes(act, p) /\ Once(po, p) /\ Starts(act, p)

\* What Dispatch does to the threads p: a task that waited starts.
Wakes(p) ==
    \A t \in Ids :
        \/ pc'[t] = p[t]
        \/ /\ p[t] = "none" /\ pc'[t] \in {"starting", "submitted"}
           /\ kind'[t] \in {"task"} \cup Batches /\ t \notin building'

\* A dispatch keeps the invariants of the slots.
LEMMA DispatchSlots ==
    ASSUME NEW s \in Keys, NEW q, NEW act, NEW p, queue \in [Keys -> Seq(Ids)],
           session' \in [Ids -> Keys],
           Dispatch(s, q, act, p), Slots([queue EXCEPT ![s] = q], act, pool, p),
           \A t \in Ids : row'[t] \in Terminal => status'[t] = row'[t]
    PROVE  Slots(queue', active', pool', pc') /\ Wakes(p)
<1>. DEFINE qs == [queue EXCEPT ![s] = q]
<1>1. SlotTypes(qs, act, pool, p) /\ q \in Seq(Ids) /\ qs[s] = q
  BY DEF Slots, SlotTypes
<1>2. Waits(qs, p) /\ Holds(act, p) /\ Excludes(act, p) /\ Once(pool, p) /\ Starts(act, p)
  BY DEF Slots
<1>3. CASE /\ queue' = qs \/ queue' = [queue EXCEPT ![s] = <<>>]
           /\ active' = act /\ pool' = pool /\ pc' = p
  <2>1. SlotTypes(queue', active', pool', pc')
    <3>1. [queue EXCEPT ![s] = <<>>] \in [Keys -> Seq(Ids)]
      BY EmptySeq
    <3>. HIDE DEF qs
    <3>. QED
      BY <1>1, <1>3, <3>1 DEF SlotTypes
  <2>2. Waits(queue', pc')
    <3>1. CASE queue' = qs
      BY <1>2, <1>3, <3>1
    <3>2. CASE queue' = [queue EXCEPT ![s] = <<>>]
      <4>1. ASSUME NEW x \in Keys, x # s PROVE queue'[x] = qs[x]
        BY <3>2, <4>1
      <4>2. queue'[s] = <<>> /\ DOMAIN queue'[s] = {}
        BY <3>2
      <4>. QED
        BY <1>2, <1>3, <4>1, <4>2 DEF Waits
    <3>. QED
      BY <1>3, <3>1, <3>2
  <2>. QED
    BY <1>2, <1>3, <2>1, <2>2 DEF Slots, Wakes
<1>4. ASSUME NEW k \in 1..Len(q), Dispatched(s, q, act, p, k)
      PROVE  Slots(queue', active', pool', pc') /\ Wakes(p)
  <2>. DEFINE t == q[k]
              rest == SubSeq(q, k + 1, Len(q))
  <2>1. /\ t \in Ids /\ act[s] = 0 /\ t \in known' /\ status'[t] \notin Terminal
        /\ queue' = [queue EXCEPT ![s] = rest] /\ active' = [act EXCEPT ![s] = t]
        /\ \/ /\ pool' = pool /\ pc' = [p EXCEPT ![t] = "starting"]
              /\ kind'[t] \in Batches
           \/ pool' = Append(pool, t) /\ pc' = [p EXCEPT ![t] = "submitted"]
    BY <1>1, <1>4 DEF Dispatched, Startable
  <2>2. /\ session'[t] = s /\ p[t] = "none" /\ t \notin building'
        /\ kind'[t] \in {"task"} \cup Batches
    BY <1>1, <1>2 DEF Waits
  <2>3. /\ rest \in Seq(Ids) /\ DOMAIN rest = 1..(Len(q) - k)
        /\ \A i \in DOMAIN rest : k + i \in DOMAIN q /\ rest[i] = q[k + i]
    BY <1>1, RestFact
  <2>. HIDE DEF t, rest, qs
  <2>4. \A u \in Ids : u # t => pc'[u] = p[u]
    BY <1>1, <2>1 DEF SlotTypes
  <2>5. pc'[t] \in {"starting", "submitted"} /\ p[t] = "none"
    BY <1>1, <2>1, <2>2 DEF SlotTypes
  <2>6. Wakes(p)
    BY <2>2, <2>4, <2>5 DEF Wakes
  <2>7. SlotTypes(queue', active', pool', pc')
    <3>1. queue' \in [Keys -> Seq(Ids)] /\ active' \in [Keys -> 0..N]
      BY <1>1, <2>1, <2>3, NumberFact DEF SlotTypes
    <3>2. pool \in Seq(Ids) /\ Append(pool, t) \in Seq(Ids)
      BY <1>1, <2>1 DEF SlotTypes
    <3>3. "starting" \in Pcs /\ "submitted" \in Pcs
      BY DEF Pcs, BatchPcs
    <3>4. pc' \in [Ids -> Pcs]
      BY <1>1, <2>1, <3>3 DEF SlotTypes
    <3>. QED
      BY <2>1, <3>1, <3>2, <3>4 DEF SlotTypes
  <2>8. Waits(queue', pc')
    <3>1. ASSUME NEW x \in Keys, x # s
          PROVE  /\ queue'[x] = qs[x]
                 /\ \A i \in DOMAIN qs[x] : qs[x][i] \in Ids /\ qs[x][i] # t
      <4>1. queue'[x] = qs[x]
        BY <2>1, <3>1 DEF qs
      <4>2. ASSUME NEW i \in DOMAIN qs[x] PROVE qs[x][i] \in Ids /\ qs[x][i] # t
        <5>1. session'[qs[x][i]] = x
          BY <1>2 DEF Waits
        <5>2. qs[x] \in Seq(Ids)
          BY <1>1 DEF SlotTypes
        <5>. QED
          BY <2>2, <3>1, <5>1, <5>2
      <4>. QED
        BY <4>1, <4>2
    <3>2. ASSUME NEW x \in Keys, x # s
          PROVE  /\ \A i, j \in DOMAIN queue'[x] : queue'[x][i] = queue'[x][j] => i = j
                 /\ \A i \in DOMAIN queue'[x] :
                      /\ session'[queue'[x][i]] = x /\ pc'[queue'[x][i]] = "none"
                      /\ kind'[queue'[x][i]] \in {"task"} \cup Batches
                      /\ queue'[x][i] \notin building'
      <4>1. /\ \A i, j \in DOMAIN qs[x] : qs[x][i] = qs[x][j] => i = j
            /\ \A i \in DOMAIN qs[x] :
                 /\ session'[qs[x][i]] = x /\ p[qs[x][i]] = "none"
                 /\ kind'[qs[x][i]] \in {"task"} \cup Batches
                 /\ qs[x][i] \notin building'
        BY <1>2 DEF Waits
      <4>2. queue'[x] = qs[x] /\ \A i \in DOMAIN qs[x] : pc'[qs[x][i]] = p[qs[x][i]]
        BY <2>4, <3>1, <3>2
      <4>. QED
        BY <4>1, <4>2
    <3>3. queue'[s] = rest
      BY <2>1
    <3>4. \A i \in DOMAIN q : q[i] = t => i = k
      BY <1>1, <1>2 DEF Waits, t
    <3>5. \A i \in DOMAIN rest : rest[i] \in Ids /\ rest[i] # t
      BY <1>1, <2>3, <3>4
    <3>6. /\ \A i, j \in DOMAIN rest : rest[i] = rest[j] => i = j
          /\ \A i \in DOMAIN rest :
               /\ session'[rest[i]] = s /\ pc'[rest[i]] = "none"
               /\ kind'[rest[i]] \in {"task"} \cup Batches /\ rest[i] \notin building'
      <4>1. \A i, j \in DOMAIN q : q[i] = q[j] => i = j
        BY <1>1, <1>2 DEF Waits
      <4>2. \A i, j \in DOMAIN rest : rest[i] = rest[j] => i = j
        BY <2>3, <4>1
      <4>3. \A i \in DOMAIN q : /\ session'[q[i]] = s /\ p[q[i]] = "none"
                                /\ kind'[q[i]] \in {"task"} \cup Batches
                                /\ q[i] \notin building'
        BY <1>1, <1>2 DEF Waits
      <4>4. ASSUME NEW i \in DOMAIN rest
            PROVE  /\ session'[rest[i]] = s /\ pc'[rest[i]] = "none"
                   /\ kind'[rest[i]] \in {"task"} \cup Batches
                   /\ rest[i] \notin building'
        <5>1. k + i \in DOMAIN q /\ rest[i] = q[k + i]
          BY <2>3
        <5>2. pc'[rest[i]] = p[rest[i]]
          BY <2>4, <3>5
        <5>. QED
          BY <4>3, <5>1, <5>2
      <4>. QED
        BY <4>2, <4>4
    <3>. QED
      BY <3>2, <3>3, <3>6 DEF Waits
  <2>9. \A x \in Keys : active'[x] = IF x = s THEN t ELSE act[x]
    BY <1>1, <2>1 DEF SlotTypes
  <2>10. Holds(active', pc')
    <3>1. ASSUME NEW x \in Keys, active'[x] # 0
          PROVE  session'[active'[x]] = x /\ pc'[active'[x]] \notin {"none", "done"}
      <4>1. CASE x = s
        BY <2>2, <2>5, <2>9, <4>1
      <4>2. CASE x # s
        <5>1. active'[x] = act[x] /\ act[x] \in Ids
          BY <1>1, <2>9, <3>1, <4>2 DEF SlotTypes, Ids
        <5>2. session'[act[x]] = x /\ p[act[x]] \notin {"none", "done"}
          BY <1>2, <3>1, <5>1 DEF Holds
        <5>. QED
          BY <2>4, <2>5, <5>1, <5>2
      <4>. QED
        BY <4>1, <4>2
    <3>. QED
      BY <3>1 DEF Holds
  <2>11. Excludes(active', pc')
    <3>1. ASSUME NEW u \in Ids, pc'[u] \notin {"none", "done"},
                 status'[u] \notin Terminal \/ kind'[u] \notin Batches
          PROVE  active'[session'[u]] = u
      <4>1. CASE u = t
        BY <2>2, <2>9, <4>1
      <4>2. CASE u # t
        <5>1. act[session'[u]] = u
          BY <1>2, <2>4, <3>1, <4>2 DEF Excludes
        <5>2. session'[u] # s
          BY <2>1, <5>1, NumberFact
        <5>. QED
          BY <2>9, <5>1, <5>2
      <4>. QED
        BY <4>1, <4>2
    <3>. QED
      BY <3>1 DEF Excludes
  <2>12. Once(pool', pc')
    <3>1. CASE pool' = pool /\ pc' = [p EXCEPT ![t] = "starting"]
      <4>1. pc'[t] = "starting"
        BY <1>1, <2>1, <3>1 DEF SlotTypes
      <4>. QED
        BY <1>2, <2>4, <2>5, <3>1, <4>1 DEF Once
    <3>2. CASE pool' = Append(pool, t) /\ pc' = [p EXCEPT ![t] = "submitted"]
      <4>1. pool \in Seq(Ids) /\ pc'[t] = "submitted"
        BY <1>1, <2>1, <3>2 DEF SlotTypes
      <4>2. ~ \E i \in 1..Len(pool) : pool[i] = t
        BY <1>2, <2>1, <2>5 DEF Once
      <4>3. \A i, j \in 1..Len(pool) : pool[i] = pool[j] => i = j
        BY <1>2 DEF Once
      <4>4. \A i, j \in 1..Len(pool') : pool'[i] = pool'[j] => i = j
        BY <2>1, <3>2, <4>1, <4>2, <4>3, AppendFact
      <4>5. \A u \in Ids : (\E i \in 1..Len(pool') : pool'[i] = u)
                              <=> u = t \/ \E i \in 1..Len(pool) : pool[i] = u
        <5>1. \A i \in 1..Len(pool) : pool[i] # t
          BY <4>2
        <5>2. \A u \in Ids : (\E i \in 1..Len(Append(pool, t)) : Append(pool, t)[i] = u)
                              <=> u = t \/ \E i \in 1..Len(pool) : pool[i] = u
          BY <2>1, <4>1, <4>3, <5>1, AppendFact
        <5>. QED
          BY <3>2, <5>2
      <4>. QED
        BY <1>2, <2>4, <4>1, <4>4, <4>5 DEF Once
    <3>. QED
      BY <2>1, <3>1, <3>2
  <2>13. Starts(active', pc')
    <3>1. ASSUME NEW u \in Ids, pc'[u] = "starting"
          PROVE  /\ kind'[u] \in Batches
                 /\ active'[session'[u]] = u => u \in known' /\ row'[u] \notin Terminal
      <4>1. CASE u = t
        <5>1. pc'[t] # "submitted"
          BY <3>1, <4>1
        <5>2. kind'[t] \in Batches
          BY <1>1, <2>1, <5>1 DEF SlotTypes
        <5>. QED
          BY <2>1, <4>1, <5>2
      <4>2. CASE u # t
        <5>1. active'[session'[u]] = u => act[session'[u]] = u
          BY <2>9, <4>2
        <5>. QED
          BY <1>2, <2>4, <3>1, <4>2, <5>1 DEF Starts
      <4>. QED
        BY <4>1, <4>2
    <3>. QED
      BY <3>1 DEF Starts
  <2>. QED
    BY <2>6, <2>7, <2>8, <2>10, <2>11, <2>12, <2>13 DEF Slots
<1>. QED
  BY <1>1, <1>3, <1>4, DispatchFact

-----------------------------------------------------------------------------
(* What a step does to the tasks, their verdicts and the records *)

\* How the sets of statuses relate.
LEMMA StatusFact ==
    /\ "none" \notin Terminal /\ "none" \notin Active /\ Active \cap Terminal = {}
    /\ {"queued", "running"} = Active
    /\ {"completed", "failed", "cancelled"} \subseteq Terminal
BY DEF Terminal, Active

\* All state but the slots.
DataTypes ==
    /\ kind \in [Ids -> {"none", "task", "child"} \cup Batches]
    /\ session \in [Ids -> Keys]
    /\ status \in [Ids -> {"none"} \cup Active \cup Terminal]
    /\ token \in [Ids -> BOOLEAN]
    /\ parent \in [Ids -> 0..N]
    /\ kids \in [Ids -> SUBSET Ids]
    /\ row \in [Ids -> {"none"} \cup Active \cup Terminal]
    /\ known \subseteq Created
    /\ pending \subseteq Ids
    /\ toAdd \in [Ids -> 0..MaxKids]
    /\ fresh \in [Ids -> 0..N]
    /\ building \subseteq Ids
    /\ kidsLeft \in [Ids -> SUBSET Ids]
    /\ stopLeft \in [Ids -> SUBSET Ids]
    /\ dropping \subseteq Callers \X Ids
    /\ cancels \in 0..MaxCancels

\* The type invariant in the two halves the steps are proved in.
LEMMA TypeSplit == TypeOK <=> DataTypes /\ SlotTypes(queue, active, pool, pc)
BY DEF TypeOK, DataTypes, SlotTypes

\* The next id is that of no task yet.
LEMMA NextIdFact ==
    ASSUME Numbered, NextId \in Ids
    PROVE  /\ kind[NextId] = "none"
           /\ Created \cup {NextId} = 1..NextId
<1>1. PICK m \in 0..N : Created = 1..m
  BY DEF Numbered
<1>2. m \in Nat /\ Cardinality(1..m) = m
  BY <1>1, NumberFact, FS_Interval
<1>3. NextId = m + 1
  BY <1>1, <1>2 DEF NextId
<1>4. m + 1 \notin 1..m
  BY <1>2
<1>5. NextId \notin Created
  BY <1>1, <1>3, <1>4
<1>6. (1..m) \cup {m + 1} = 1..(m + 1)
  BY <1>2
<1>. QED
  BY <1>1, <1>3, <1>5, <1>6 DEF Created

\* What request_cancel does to statuses and tokens.
LEMMA RequestFact ==
    ASSUME DataTypes, NEW ts \in SUBSET Ids, RequestCancel(ts)
    PROVE  /\ status' \in [Ids -> {"none"} \cup Active \cup Terminal]
           /\ token' \in [Ids -> BOOLEAN]
           /\ \A t \in Ids : status'[t] = status[t] \/ (status[t] \in Active /\ status'[t] \in Terminal)
           /\ \A t \in ts : status[t] # "none" => status'[t] \in Terminal
<1>. USE StatusFact
<1>1. /\ status' = [t \in Ids |-> IF t \in ts /\ status[t] \in Active
                                  THEN "cancelled" ELSE status[t]]
      /\ token' = [t \in Ids |-> token[t] \/ (t \in ts /\ status[t] \in Active)]
  BY DEF RequestCancel
<1>2. \A t \in Ids : status[t] \in {"none"} \cup Active \cup Terminal
  BY DEF DataTypes
<1>3. token' \in [Ids -> BOOLEAN]
  <2>1. \A t \in Ids : (token[t] \/ (t \in ts /\ status[t] \in Active)) \in BOOLEAN
    OBVIOUS
  <2>. QED
    BY <1>1, <2>1
<1>. QED
  BY <1>1, <1>2, <1>3

\* What a verdict does.
LEMMA FinishFact ==
    ASSUME DataTypes, NEW t \in Ids, NEW verdict \in {"completed", "failed", "cancelled"},
           Finish(t, verdict)
    PROVE  /\ status' \in [Ids -> {"none"} \cup Active \cup Terminal]
           /\ \A u \in Ids : status'[u] = status[u] \/ (u = t /\ status[u] \notin Terminal)
           /\ status'[t] \in Terminal
<1>. USE StatusFact
<1>1. status'[t] \in Terminal /\ (status[t] \in Terminal => status'[t] = status[t])
  BY DEF Finish, DataTypes
<1>. QED
  BY <1>1 DEF Finish, DataTypes

\* What _queue_task_locked does to the verdict and the row.
LEMMA QueueFact ==
    ASSUME DataTypes, NEW t \in Ids, NEW s, NEW st, NEW rows,
           st \in [Ids -> {"none"} \cup Active \cup Terminal],
           rows \in [Ids -> {"none"} \cup Active \cup Terminal],
           QueueTask(t, s, st, rows)
    PROVE  /\ status' \in [Ids -> {"none"} \cup Active \cup Terminal]
           /\ row' \in [Ids -> {"none"} \cup Active \cup Terminal]
           /\ \A u \in Ids : u # t => status'[u] = st[u] /\ row'[u] = rows[u]
           /\ row'[t] = status'[t]
           /\ status'[t] = st[t] \/ (st[t] \notin Terminal /\ status'[t] \in Terminal)
<1>. DEFINE v == IF Len(LiveQueue(s)) >= QueueLimit /\ st[t] \notin Terminal
                 THEN "failed" ELSE st[t]
<1>1. status' = [st EXCEPT ![t] = v] /\ row' = [rows EXCEPT ![t] = status'[t]]
  BY DEF QueueTask
<1>2. v \in {"none"} \cup Active \cup Terminal /\ (v = st[t] \/ (st[t] \notin Terminal /\ v \in Terminal))
  BY StatusFact
<1>. HIDE DEF v
<1>. QED
  BY <1>1, <1>2

\* What prune leaves.
LEMMA KeptFact ==
    ASSUME DataTypes
    PROVE  /\ Kept \in [Ids -> {"none"} \cup Active \cup Terminal]
           /\ \A t \in Ids : Kept[t] = row[t] \/ (Kept[t] = "none" /\ t \in Pruned)
           /\ \A t \in Pruned : row[t] \in Terminal
BY DEF DataTypes, Kept, Pruned

\* Every step keeps the types of the data; those of the slots are in SlotsStep.
LEMMA TypeStep ==
    ASSUME DataTypes, Next
    PROVE  DataTypes'
<1>1. ASSUME NEW t \in Ids, Cancel(t) PROVE DataTypes'
  <2>1. {t} \in SUBSET Ids /\ cancels' \in 0..MaxCancels
    BY <1>1, BoundsAssumption DEF Cancel, DataTypes
  <2>2. status' \in [Ids -> {"none"} \cup Active \cup Terminal] /\ token' \in [Ids -> BOOLEAN]
    BY <1>1, <2>1, RequestFact DEF Cancel
  <2>3. kidsLeft' \in [Ids -> SUBSET Ids] /\ dropping' \subseteq Callers \X Ids
    BY <1>1 DEF Cancel, DataTypes, Callers
  <2>4. UNCHANGED <<kind, session, parent, kids, row, known, pending, toAdd, fresh, building,
                    stopLeft>>
    BY <1>1 DEF Cancel, taskVars, buildVars
  <2>. QED
    BY <2>1, <2>2, <2>3, <2>4 DEF DataTypes, Created
<1>2. ASSUME NEW t \in Ids, NEW s \in Sessions, Submit(t, s) PROVE DataTypes'
  <2>1. kind' \in [Ids -> {"none", "task", "child"} \cup Batches] /\ session' \in [Ids -> Keys]
    BY <1>2, KeyFact DEF Submit, Create, DataTypes, Batches
  <2>2. \A u \in Created : u \in Created'
    BY <1>2 DEF Submit, Create, DataTypes, Created, Batches
  <2>3. t \in Created' /\ known' \subseteq Created'
    BY <1>2, <2>2 DEF Submit, Create, DataTypes, Created, Batches
  <2>4. /\ [status EXCEPT ![t] = "queued"] \in [Ids -> {"none"} \cup Active \cup Terminal]
        /\ QueueTask(t, s, [status EXCEPT ![t] = "queued"], Kept)
    BY <1>2, StatusFact DEF Submit, DataTypes
  <2>5. /\ status' \in [Ids -> {"none"} \cup Active \cup Terminal]
        /\ row' \in [Ids -> {"none"} \cup Active \cup Terminal]
    BY <2>4, KeptFact, QueueFact
  <2>. QED
    BY <1>2, <2>1, <2>3, <2>5 DEF Submit, DataTypes, buildVars, cancelVars
<1>3. ASSUME NEW t \in Ids, NEW s \in Sessions, NEW mode \in Batches, NEW k \in 1..MaxKids,
             BatchOpen(t, s, mode, k) PROVE DataTypes'
  <2>1. kind' \in [Ids -> {"none", "task", "child"} \cup Batches] /\ session' \in [Ids -> Keys]
    BY <1>3, KeyFact DEF BatchOpen, Create, DataTypes, Batches
  <2>2. \A u \in Created : u \in Created'
    BY <1>3 DEF BatchOpen, Create, DataTypes, Created, Batches
  <2>3. t \in Created' /\ known' \subseteq Created'
    BY <1>3, <2>2 DEF BatchOpen, Create, DataTypes, Created, Batches
  <2>4. /\ status' \in [Ids -> {"none"} \cup Active \cup Terminal]
        /\ row' \in [Ids -> {"none"} \cup Active \cup Terminal]
    BY <1>3, StatusFact DEF BatchOpen, DataTypes
  <2>5. toAdd' \in [Ids -> 0..MaxKids] /\ building' \subseteq Ids
    BY <1>3, BoundsAssumption DEF BatchOpen, DataTypes
  <2>. QED
    BY <1>3, <2>1, <2>3, <2>4, <2>5 DEF BatchOpen, DataTypes, cancelVars
<1>4. ASSUME NEW p \in Ids, BatchLink(p) PROVE DataTypes'
  <2>1. fresh[p] \in Ids
    BY <1>4 DEF BatchLink, DataTypes, Ids
  <2>2. parent' \in [Ids -> 0..N] /\ token' \in [Ids -> BOOLEAN]
    <3>1. CASE fresh[p] \in known
      <4>1. /\ parent' = [parent EXCEPT ![fresh[p]] = p]
            /\ token' = [token EXCEPT ![fresh[p]] = FALSE]
        BY <1>4, <3>1 DEF BatchLink
      <4>. QED
        BY <2>1, <4>1, NumberFact DEF DataTypes
    <3>2. CASE fresh[p] \notin known
      BY <1>4, <3>2 DEF BatchLink, DataTypes
    <3>. QED
      BY <3>1, <3>2
  <2>3. row' \in [Ids -> {"none"} \cup Active \cup Terminal]
    BY <1>4 DEF BatchLink, DataTypes
  <2>4. kids' \in [Ids -> SUBSET Ids] /\ fresh' \in [Ids -> 0..N]
    BY <1>4, <2>1, NumberFact DEF BatchLink, DataTypes
  <2>. QED
    BY <1>4, <2>2, <2>3, <2>4 DEF BatchLink, DataTypes, Created, cancelVars
<1>5. ASSUME NEW p \in Ids, BatchQueue(p) PROVE DataTypes'
  <2>1. /\ status' \in [Ids -> {"none"} \cup Active \cup Terminal]
        /\ row' \in [Ids -> {"none"} \cup Active \cup Terminal]
    BY <1>5, QueueFact DEF BatchQueue, DataTypes
  <2>. QED
    BY <1>5, <2>1 DEF BatchQueue, DataTypes, Created, taskVars, cancelVars
<1>6. ASSUME NEW p \in Ids, NEW c \in Ids, BatchChild(p, c) PROVE DataTypes'
  <2>1. kind' \in [Ids -> {"none", "task", "child"} \cup Batches] /\ session' \in [Ids -> Keys]
    BY <1>6, KeyFact DEF BatchChild, Create, DataTypes, Batches
  <2>2. \A u \in Created : u \in Created'
    BY <1>6 DEF BatchChild, Create, DataTypes, Created, Batches
  <2>3. c \in Created' /\ known' \subseteq Created'
    BY <1>6, <2>2 DEF BatchChild, Create, DataTypes, Created, Batches
  <2>4. /\ status' \in [Ids -> {"none"} \cup Active \cup Terminal]
        /\ row' \in [Ids -> {"none"} \cup Active \cup Terminal]
    BY <1>6, StatusFact, KeptFact DEF BatchChild, DataTypes
  <2>5. toAdd' \in [Ids -> 0..MaxKids] /\ fresh' \in [Ids -> 0..N]
    BY <1>6, BoundsAssumption, NumberFact DEF BatchChild, DataTypes
  <2>. QED
    BY <1>6, <2>1, <2>3, <2>4, <2>5 DEF BatchChild, DataTypes, cancelVars
<1>7. ASSUME NEW t \in Ids, RunStart(t) PROVE DataTypes'
  <2>1. status' \in [Ids -> {"none"} \cup Active \cup Terminal] /\ token' \in [Ids -> BOOLEAN]
    <3>1. CASE RequestCancel({t})
      BY <3>1, RequestFact
    <3>2. CASE status' = [status EXCEPT ![t] = "running"] /\ UNCHANGED token
      BY <3>2, StatusFact DEF DataTypes
    <3>. QED
      BY <1>7, <3>1, <3>2 DEF RunStart
  <2>. QED
    BY <1>7, <2>1 DEF RunStart, DataTypes, Created, taskVars, buildVars, cancelVars
<1>8. ASSUME NEW t \in Ids, RunEnds(t) PROVE DataTypes'
  <2>1. status' \in [Ids -> {"none"} \cup Active \cup Terminal]
    BY <1>8, FinishFact DEF RunEnds
  <2>. QED
    BY <1>8, <2>1 DEF RunEnds, DataTypes, Created, taskVars, stateVars, slotVars, buildVars, cancelVars
<1>9. ASSUME NEW t \in Ids, RunLeaves(t) PROVE DataTypes'
  BY <1>9 DEF RunLeaves, Leave, DataTypes, Created, taskVars, buildVars, cancelVars
<1>10. ASSUME NEW p \in Ids, StartGivesUp(p) PROVE DataTypes'
  BY <1>10 DEF StartGivesUp, DataTypes, Created, taskVars, stateVars, slotVars, buildVars, cancelVars
<1>11. ASSUME NEW p \in Ids, StartBatch(p) PROVE DataTypes'
  <2>1. /\ status' \in [Ids -> {"none"} \cup Active \cup Terminal]
        /\ row' \in [Ids -> {"none"} \cup Active \cup Terminal]
    BY <1>11, StatusFact DEF StartBatch, DataTypes
  <2>. QED
    BY <1>11, <2>1 DEF StartBatch, DataTypes, Created, taskVars, cancelVars
<1>12. ASSUME NEW p \in Ids, WatchStops(p) PROVE DataTypes'
  BY <1>12 DEF WatchStops, DataTypes, Created, taskVars, stateVars, slotVars, buildVars, cancelVars
<1>13. ASSUME NEW p \in Ids, WatchHandsOff(p) PROVE DataTypes'
  BY <1>13 DEF WatchHandsOff, DataTypes, Created, taskVars, stateVars, slotVars, buildVars, cancelVars
<1>14. ASSUME NEW p \in Ids, WatchFails(p) PROVE DataTypes'
  <2>1. status' \in [Ids -> {"none"} \cup Active \cup Terminal]
    BY <1>14, FinishFact DEF WatchFails
  <2>. QED
    BY <1>14, <2>1 DEF WatchFails, DataTypes, Created, taskVars, stateVars, slotVars, buildVars, cancelVars
<1>15. ASSUME NEW p \in Ids, WatchMerges(p) PROVE DataTypes'
  BY <1>15 DEF WatchMerges, DataTypes, Created, taskVars, stateVars, slotVars, buildVars, cancelVars
<1>16. ASSUME NEW p \in Ids, WatchCancels(p) PROVE DataTypes'
  <2>. DEFINE c == First(stopLeft[p])
  <2>1. {c} \cap known \in SUBSET Ids
    BY DEF DataTypes, Created
  <2>2. status' \in [Ids -> {"none"} \cup Active \cup Terminal] /\ token' \in [Ids -> BOOLEAN]
    BY <1>16, <2>1, RequestFact DEF WatchCancels
  <2>. HIDE DEF c
  <2>3. /\ stopLeft' = [stopLeft EXCEPT ![p] = stopLeft[p] \ {c}]
        /\ dropping' = dropping \cup {<<"watcher", u>> : u \in {c} \cap known}
        /\ UNCHANGED <<taskVars, row, known, slotVars, buildVars, kidsLeft, cancels>>
    BY <1>16 DEF WatchCancels, c
  <2>. QED
    BY <2>1, <2>2, <2>3 DEF DataTypes, Created, Callers, taskVars, stateVars, slotVars, buildVars, cancelVars
<1>17. ASSUME NEW p \in Ids, WatchStopped(p) PROVE DataTypes'
  <2>1. status' \in [Ids -> {"none"} \cup Active \cup Terminal]
    BY <1>17, FinishFact DEF WatchStopped
  <2>. QED
    BY <1>17, <2>1 DEF WatchStopped, DataTypes, Created, taskVars, stateVars, slotVars, buildVars, cancelVars
<1>18. ASSUME NEW p \in Ids, MergeEnds(p) PROVE DataTypes'
  <2>1. status' \in [Ids -> {"none"} \cup Active \cup Terminal]
    BY <1>18, FinishFact DEF MergeEnds
  <2>. QED
    BY <1>18, <2>1 DEF MergeEnds, DataTypes, Created, taskVars, stateVars, slotVars, buildVars, cancelVars
<1>19. ASSUME NEW p \in Ids, WatchLeaves(p) PROVE DataTypes'
  BY <1>19 DEF WatchLeaves, Leave, DataTypes, Created, taskVars, buildVars, cancelVars
<1>20. ASSUME NEW who \in Callers, NEW t \in Ids, CancelDrops(who, t) PROVE DataTypes'
  BY <1>20 DEF CancelDrops, DataTypes, Created, taskVars, stateVars, slotVars, buildVars, cancelVars
<1>21. ASSUME NEW t \in Ids, CancelChild(t) PROVE DataTypes'
  <2>. DEFINE c == First(kidsLeft[t])
  <2>1. {c} \cap known \in SUBSET Ids
    BY DEF DataTypes, Created
  <2>2. status' \in [Ids -> {"none"} \cup Active \cup Terminal] /\ token' \in [Ids -> BOOLEAN]
    BY <1>21, <2>1, RequestFact DEF CancelChild
  <2>. HIDE DEF c
  <2>3. /\ kidsLeft' = [kidsLeft EXCEPT ![t] = kidsLeft[t] \ {c}]
        /\ dropping' = dropping \cup {<<"parent", u>> : u \in {c} \cap known}
        /\ UNCHANGED <<taskVars, row, known, slotVars, buildVars, stopLeft, cancels>>
    BY <1>21 DEF CancelChild, c
  <2>. QED
    BY <2>1, <2>2, <2>3 DEF DataTypes, Created, Callers, taskVars, stateVars, slotVars, buildVars, cancelVars
<1>. QED
  BY <1>1, <1>2, <1>3, <1>4, <1>5, <1>6, <1>7, <1>8, <1>9, <1>10, <1>11,
     <1>12, <1>13, <1>14, <1>15, <1>16, <1>17, <1>18, <1>19, <1>20, <1>21
     DEF Next, User, System, Builder, Runner, Batch, Canceller

\* What no step does: a created task keeps its kind and session, a verdict
\* stays, a row is a status the task has or had, and the table forgets only
\* tasks whose row is terminal.
KeepsTasks ==
    /\ \A t \in Created : kind'[t] = kind[t] /\ session'[t] = session[t]
    /\ building' \subseteq building \cup (Ids \ Created)

KeepsVerdicts ==
    \A t \in Ids : /\ status[t] \in Terminal => status'[t] = status[t]
                   /\ status[t] # "none" => status'[t] # "none"

KeepsRows ==
    /\ \A t \in Ids : \/ row'[t] \in {row[t], status[t], status'[t]}
                      \/ row'[t] = "none" /\ t \notin known'
    /\ \A t \in known' : t \in known \/ t \notin Created
    /\ \A t \in known : row[t] \notin Terminal => t \in known'

MarksDropped ==
    \A d \in dropping' : d \in dropping \/ status'[d[2]] \in Terminal

Frame == KeepsTasks /\ KeepsVerdicts /\ KeepsRows /\ MarksDropped

\* Every step leaves the identity of tasks, verdicts and stored verdicts alone.
LEMMA FrameStep ==
    ASSUME DataTypes, Numbered, Next
    PROVE  Frame
<1>1. ASSUME NEW t \in Ids, Cancel(t) PROVE Frame
  <2>1. KeepsTasks
    BY <1>1 DEF Cancel, KeepsTasks, taskVars, buildVars
  <2>5. {t} \in SUBSET Ids /\ status[t] # "none"
    BY <1>1 DEF Cancel, DataTypes, Created, Numbered
  <2>6. RequestCancel({t})
    BY <1>1 DEF Cancel
  <2>2. KeepsVerdicts
    BY <2>5, <2>6, RequestFact, StatusFact DEF KeepsVerdicts
  <2>3. KeepsRows
    BY <1>1 DEF Cancel, KeepsRows, DataTypes
  <2>4. MarksDropped
    BY <1>1, <2>5, <2>6, RequestFact DEF Cancel, MarksDropped
  <2>. QED
    BY <2>1, <2>2, <2>3, <2>4 DEF Frame
<1>2. ASSUME NEW t \in Ids, NEW s \in Sessions, Submit(t, s) PROVE Frame
  <2>0. t \notin Created /\ status[t] = "none" /\ row[t] = "none" /\ t \in Ids
    <3>1. kind[t] = "none"
      BY <1>2, NextIdFact DEF Submit, Create
    <3>. QED
      BY <3>1 DEF Created, Numbered
  <2>1. KeepsTasks
    BY <1>2, <2>0 DEF Submit, Create, KeepsTasks, DataTypes, buildVars
  <2>5. /\ [status EXCEPT ![t] = "queued"] \in [Ids -> {"none"} \cup Active \cup Terminal]
        /\ QueueTask(t, s, [status EXCEPT ![t] = "queued"], Kept)
    BY <1>2, StatusFact DEF Submit, DataTypes
  <2>6. /\ \A u \in Ids : u # t => status'[u] = status[u] /\ row'[u] = Kept[u]
        /\ row'[t] = status'[t] /\ status'[t] # "none"
    <3>1. [status EXCEPT ![t] = "queued"][t] = "queued"
      BY DEF DataTypes
    <3>2. \A u \in Ids : u # t => [status EXCEPT ![t] = "queued"][u] = status[u]
      BY DEF DataTypes
    <3>3. Kept \in [Ids -> {"none"} \cup Active \cup Terminal]
      BY KeptFact
    <3>. DEFINE st == [status EXCEPT ![t] = "queued"]
    <3>4. st \in [Ids -> {"none"} \cup Active \cup Terminal] /\ QueueTask(t, s, st, Kept)
      BY <2>5
    <3>. HIDE DEF st
    <3>5. /\ \A u \in Ids : u # t => status'[u] = st[u] /\ row'[u] = Kept[u]
          /\ row'[t] = status'[t]
          /\ status'[t] = st[t] \/ (st[t] \notin Terminal /\ status'[t] \in Terminal)
      BY <3>3, <3>4, QueueFact
    <3>. QED
      BY <3>1, <3>2, <3>5, StatusFact DEF st
  <2>2. KeepsVerdicts
    BY <2>0, <2>6, StatusFact DEF KeepsVerdicts
  <2>3. KeepsRows
    <3>1. t \notin Pruned
      BY <2>0, KeptFact, StatusFact
    <3>2. known' = (known \ Pruned) \cup {t}
      BY <1>2 DEF Submit
    <3>. QED
      BY <2>0, <2>6, <3>1, <3>2, KeptFact DEF KeepsRows
  <2>4. MarksDropped
    BY <1>2 DEF Submit, MarksDropped, cancelVars
  <2>. QED
    BY <2>1, <2>2, <2>3, <2>4 DEF Frame
<1>3. ASSUME NEW t \in Ids, NEW s \in Sessions, NEW mode \in Batches, NEW k \in 1..MaxKids,
             BatchOpen(t, s, mode, k) PROVE Frame
  <2>0. t \notin Created /\ status[t] = "none" /\ row[t] = "none" /\ t \in Ids
    <3>1. kind[t] = "none"
      BY <1>3, NextIdFact DEF BatchOpen, Create
    <3>. QED
      BY <3>1 DEF Created, Numbered
  <2>1. KeepsTasks
    BY <1>3, <2>0 DEF BatchOpen, Create, KeepsTasks, DataTypes, buildVars
  <2>2. KeepsVerdicts
    BY <1>3, <2>0, StatusFact DEF BatchOpen, KeepsVerdicts, DataTypes
  <2>3. KeepsRows
    BY <1>3, <2>0 DEF BatchOpen, KeepsRows, DataTypes
  <2>4. MarksDropped
    BY <1>3 DEF BatchOpen, MarksDropped, cancelVars
  <2>. QED
    BY <2>1, <2>2, <2>3, <2>4 DEF Frame
<1>4. ASSUME NEW p \in Ids, BatchLink(p) PROVE Frame
  <2>1. KeepsTasks
    BY <1>4 DEF BatchLink, KeepsTasks, taskVars, buildVars
  <2>2. KeepsVerdicts
    BY <1>4 DEF BatchLink, KeepsVerdicts
  <2>3. KeepsRows
    BY <1>4 DEF BatchLink, KeepsRows, DataTypes
  <2>4. MarksDropped
    BY <1>4 DEF BatchLink, MarksDropped, cancelVars
  <2>. QED
    BY <2>1, <2>2, <2>3, <2>4 DEF Frame
<1>5. ASSUME NEW p \in Ids, BatchQueue(p) PROVE Frame
  <2>1. KeepsTasks
    BY <1>5 DEF BatchQueue, KeepsTasks, taskVars, buildVars
  <2>5. /\ status \in [Ids -> {"none"} \cup Active \cup Terminal]
        /\ row \in [Ids -> {"none"} \cup Active \cup Terminal]
        /\ QueueTask(p, session[p], status, row)
    BY <1>5 DEF BatchQueue, DataTypes
  <2>6. \A u \in Ids : u # p => status'[u] = status[u] /\ row'[u] = row[u]
    BY <2>5, QueueFact
  <2>7. row'[p] = status'[p]
    BY <2>5, QueueFact
  <2>8. status'[p] = status[p] \/ (status[p] \notin Terminal /\ status'[p] \in Terminal)
    BY <2>5, QueueFact
  <2>2. KeepsVerdicts
    BY <2>6, <2>8, StatusFact DEF KeepsVerdicts
  <2>3. KeepsRows
    <3>1. known' = known
      BY <1>5 DEF BatchQueue
    <3>. QED
      BY <2>6, <2>7, <3>1 DEF KeepsRows
  <2>4. MarksDropped
    BY <1>5 DEF BatchQueue, MarksDropped, cancelVars
  <2>. QED
    BY <2>1, <2>2, <2>3, <2>4 DEF Frame
<1>6. ASSUME NEW p \in Ids, NEW c \in Ids, BatchChild(p, c) PROVE Frame
  <2>0. c \notin Created /\ status[c] = "none" /\ row[c] = "none" /\ c \in Ids
    <3>1. kind[c] = "none"
      BY <1>6, NextIdFact DEF BatchChild, Create
    <3>. QED
      BY <3>1 DEF Created, Numbered
  <2>1. KeepsTasks
    BY <1>6, <2>0 DEF BatchChild, Create, KeepsTasks, DataTypes, buildVars
  <2>2. KeepsVerdicts
    BY <1>6, <2>0, StatusFact DEF BatchChild, KeepsVerdicts, DataTypes
  <2>3. KeepsRows
    <3>1. c \notin Pruned
      BY <2>0, KeptFact, StatusFact
    <3>2. known' = (known \ Pruned) \cup {c}
      BY <1>6 DEF BatchChild
    <3>3. \A u \in Ids : IF u = c THEN row'[u] = status'[u]
                         ELSE row'[u] = row[u] \/ (row'[u] = "none" /\ u \in Pruned)
      BY <1>6, KeptFact DEF BatchChild, DataTypes
    <3>. QED
      BY <2>0, <3>1, <3>2, <3>3, KeptFact DEF KeepsRows
  <2>4. MarksDropped
    BY <1>6 DEF BatchChild, MarksDropped, cancelVars
  <2>. QED
    BY <2>1, <2>2, <2>3, <2>4 DEF Frame
<1>7. ASSUME NEW t \in Ids, RunStart(t) PROVE Frame
  <2>1. KeepsTasks
    BY <1>7 DEF RunStart, KeepsTasks, taskVars, buildVars
  <2>2. KeepsVerdicts
    <3>1. CASE RequestCancel({t})
      BY <3>1, RequestFact, StatusFact DEF KeepsVerdicts
    <3>2. CASE status' = [status EXCEPT ![t] = "running"] /\ status[t] \notin Terminal
      BY <3>2, StatusFact DEF KeepsVerdicts, DataTypes
    <3>. QED
      BY <1>7, <3>1, <3>2 DEF RunStart
  <2>3. KeepsRows
    BY <1>7 DEF RunStart, KeepsRows, DataTypes
  <2>4. MarksDropped
    BY <1>7 DEF RunStart, MarksDropped, cancelVars
  <2>. QED
    BY <2>1, <2>2, <2>3, <2>4 DEF Frame
<1>8. ASSUME NEW t \in Ids, RunEnds(t) PROVE Frame
  <2>1. KeepsTasks
    BY <1>8 DEF RunEnds, KeepsTasks, taskVars, buildVars
  <2>2. KeepsVerdicts
    BY <1>8, FinishFact, StatusFact DEF RunEnds, KeepsVerdicts
  <2>3. KeepsRows
    BY <1>8 DEF RunEnds, KeepsRows, DataTypes
  <2>4. MarksDropped
    BY <1>8 DEF RunEnds, MarksDropped, cancelVars
  <2>. QED
    BY <2>1, <2>2, <2>3, <2>4 DEF Frame
<1>9. ASSUME NEW t \in Ids, RunLeaves(t) PROVE Frame
  <2>1. KeepsTasks
    BY <1>9 DEF RunLeaves, Leave, KeepsTasks, taskVars, buildVars
  <2>2. KeepsVerdicts
    BY <1>9 DEF RunLeaves, Leave, KeepsVerdicts
  <2>3. KeepsRows
    BY <1>9 DEF RunLeaves, Leave, KeepsRows, DataTypes
  <2>4. MarksDropped
    BY <1>9 DEF RunLeaves, Leave, MarksDropped, cancelVars
  <2>. QED
    BY <2>1, <2>2, <2>3, <2>4 DEF Frame
<1>10. ASSUME NEW p \in Ids, StartGivesUp(p) PROVE Frame
  <2>1. KeepsTasks
    BY <1>10 DEF StartGivesUp, KeepsTasks, taskVars, buildVars
  <2>2. KeepsVerdicts
    BY <1>10 DEF StartGivesUp, KeepsVerdicts
  <2>3. KeepsRows
    BY <1>10 DEF StartGivesUp, KeepsRows, DataTypes
  <2>4. MarksDropped
    BY <1>10 DEF StartGivesUp, MarksDropped, cancelVars
  <2>. QED
    BY <2>1, <2>2, <2>3, <2>4 DEF Frame
<1>11. ASSUME NEW p \in Ids, StartBatch(p) PROVE Frame
  <2>1. KeepsTasks
    BY <1>11 DEF StartBatch, KeepsTasks, taskVars, buildVars
  <2>2. KeepsVerdicts
    BY <1>11, StatusFact DEF StartBatch, KeepsVerdicts, DataTypes
  <2>3. KeepsRows
    BY <1>11 DEF StartBatch, KeepsRows, DataTypes
  <2>4. MarksDropped
    BY <1>11 DEF StartBatch, MarksDropped, cancelVars
  <2>. QED
    BY <2>1, <2>2, <2>3, <2>4 DEF Frame
<1>12. ASSUME NEW p \in Ids, WatchStops(p) PROVE Frame
  <2>1. KeepsTasks
    BY <1>12 DEF WatchStops, KeepsTasks, taskVars, buildVars
  <2>2. KeepsVerdicts
    BY <1>12 DEF WatchStops, KeepsVerdicts
  <2>3. KeepsRows
    BY <1>12 DEF WatchStops, KeepsRows, DataTypes
  <2>4. MarksDropped
    BY <1>12 DEF WatchStops, MarksDropped, cancelVars
  <2>. QED
    BY <2>1, <2>2, <2>3, <2>4 DEF Frame
<1>13. ASSUME NEW p \in Ids, WatchHandsOff(p) PROVE Frame
  <2>1. KeepsTasks
    BY <1>13 DEF WatchHandsOff, KeepsTasks, taskVars, buildVars
  <2>2. KeepsVerdicts
    BY <1>13 DEF WatchHandsOff, KeepsVerdicts
  <2>3. KeepsRows
    BY <1>13 DEF WatchHandsOff, KeepsRows, DataTypes
  <2>4. MarksDropped
    BY <1>13 DEF WatchHandsOff, MarksDropped, cancelVars
  <2>. QED
    BY <2>1, <2>2, <2>3, <2>4 DEF Frame
<1>14. ASSUME NEW p \in Ids, WatchFails(p) PROVE Frame
  <2>1. KeepsTasks
    BY <1>14 DEF WatchFails, KeepsTasks, taskVars, buildVars
  <2>2. KeepsVerdicts
    BY <1>14, FinishFact, StatusFact DEF WatchFails, KeepsVerdicts
  <2>3. KeepsRows
    BY <1>14 DEF WatchFails, KeepsRows, DataTypes
  <2>4. MarksDropped
    BY <1>14 DEF WatchFails, MarksDropped, cancelVars
  <2>. QED
    BY <2>1, <2>2, <2>3, <2>4 DEF Frame
<1>15. ASSUME NEW p \in Ids, WatchMerges(p) PROVE Frame
  <2>1. KeepsTasks
    BY <1>15 DEF WatchMerges, KeepsTasks, taskVars, buildVars
  <2>2. KeepsVerdicts
    BY <1>15 DEF WatchMerges, KeepsVerdicts
  <2>3. KeepsRows
    BY <1>15 DEF WatchMerges, KeepsRows, DataTypes
  <2>4. MarksDropped
    BY <1>15 DEF WatchMerges, MarksDropped, cancelVars
  <2>. QED
    BY <2>1, <2>2, <2>3, <2>4 DEF Frame
<1>16. ASSUME NEW p \in Ids, WatchCancels(p) PROVE Frame
  <2>1. KeepsTasks
    BY <1>16 DEF WatchCancels, KeepsTasks, taskVars, buildVars
  <2>. DEFINE c == First(stopLeft[p])
  <2>5. {c} \cap known \in SUBSET Ids /\ \A u \in {c} \cap known : status[u] # "none"
    BY DEF DataTypes, Created, Numbered
  <2>6. RequestCancel({c} \cap known)
    BY <1>16 DEF WatchCancels
  <2>2. KeepsVerdicts
    BY <2>5, <2>6, RequestFact, StatusFact DEF KeepsVerdicts
  <2>3. KeepsRows
    BY <1>16 DEF WatchCancels, KeepsRows, DataTypes
  <2>4. MarksDropped
    <3>1. dropping' = dropping \cup {<<"watcher", u>> : u \in {c} \cap known}
      BY <1>16 DEF WatchCancels
    <3>2. \A u \in {c} \cap known : status'[u] \in Terminal
      BY <2>5, <2>6, RequestFact
    <3>. HIDE DEF c
    <3>. QED
      BY <3>1, <3>2 DEF MarksDropped
  <2>. QED
    BY <2>1, <2>2, <2>3, <2>4 DEF Frame
<1>17. ASSUME NEW p \in Ids, WatchStopped(p) PROVE Frame
  <2>1. KeepsTasks
    BY <1>17 DEF WatchStopped, KeepsTasks, taskVars, buildVars
  <2>2. KeepsVerdicts
    BY <1>17, FinishFact, StatusFact DEF WatchStopped, KeepsVerdicts
  <2>3. KeepsRows
    BY <1>17 DEF WatchStopped, KeepsRows, DataTypes
  <2>4. MarksDropped
    BY <1>17 DEF WatchStopped, MarksDropped, cancelVars
  <2>. QED
    BY <2>1, <2>2, <2>3, <2>4 DEF Frame
<1>18. ASSUME NEW p \in Ids, MergeEnds(p) PROVE Frame
  <2>1. KeepsTasks
    BY <1>18 DEF MergeEnds, KeepsTasks, taskVars, buildVars
  <2>2. KeepsVerdicts
    BY <1>18, FinishFact, StatusFact DEF MergeEnds, KeepsVerdicts
  <2>3. KeepsRows
    BY <1>18 DEF MergeEnds, KeepsRows, DataTypes
  <2>4. MarksDropped
    BY <1>18 DEF MergeEnds, MarksDropped, cancelVars
  <2>. QED
    BY <2>1, <2>2, <2>3, <2>4 DEF Frame
<1>19. ASSUME NEW p \in Ids, WatchLeaves(p) PROVE Frame
  <2>1. KeepsTasks
    BY <1>19 DEF WatchLeaves, Leave, KeepsTasks, taskVars, buildVars
  <2>2. KeepsVerdicts
    BY <1>19 DEF WatchLeaves, Leave, KeepsVerdicts
  <2>3. KeepsRows
    BY <1>19 DEF WatchLeaves, Leave, KeepsRows, DataTypes
  <2>4. MarksDropped
    BY <1>19 DEF WatchLeaves, Leave, MarksDropped, cancelVars
  <2>. QED
    BY <2>1, <2>2, <2>3, <2>4 DEF Frame
<1>20. ASSUME NEW who \in Callers, NEW t \in Ids, CancelDrops(who, t) PROVE Frame
  <2>1. KeepsTasks
    BY <1>20 DEF CancelDrops, KeepsTasks, taskVars, buildVars
  <2>2. KeepsVerdicts
    BY <1>20 DEF CancelDrops, KeepsVerdicts
  <2>3. KeepsRows
    BY <1>20 DEF CancelDrops, KeepsRows, DataTypes
  <2>4. MarksDropped
    BY <1>20 DEF CancelDrops, MarksDropped, cancelVars
  <2>. QED
    BY <2>1, <2>2, <2>3, <2>4 DEF Frame
<1>21. ASSUME NEW t \in Ids, CancelChild(t) PROVE Frame
  <2>1. KeepsTasks
    BY <1>21 DEF CancelChild, KeepsTasks, taskVars, buildVars
  <2>. DEFINE c == First(kidsLeft[t])
  <2>5. {c} \cap known \in SUBSET Ids /\ \A u \in {c} \cap known : status[u] # "none"
    BY DEF DataTypes, Created, Numbered
  <2>6. RequestCancel({c} \cap known)
    BY <1>21 DEF CancelChild
  <2>2. KeepsVerdicts
    BY <2>5, <2>6, RequestFact, StatusFact DEF KeepsVerdicts
  <2>3. KeepsRows
    BY <1>21 DEF CancelChild, KeepsRows, DataTypes
  <2>4. MarksDropped
    <3>1. dropping' = dropping \cup {<<"parent", u>> : u \in {c} \cap known}
      BY <1>21 DEF CancelChild
    <3>2. \A u \in {c} \cap known : status'[u] \in Terminal
      BY <2>5, <2>6, RequestFact
    <3>. HIDE DEF c
    <3>. QED
      BY <3>1, <3>2 DEF MarksDropped
  <2>. QED
    BY <2>1, <2>2, <2>3, <2>4 DEF Frame
<1>. QED
  BY <1>1, <1>2, <1>3, <1>4, <1>5, <1>6, <1>7, <1>8, <1>9, <1>10, <1>11,
     <1>12, <1>13, <1>14, <1>15, <1>16, <1>17, <1>18, <1>19, <1>20, <1>21
     DEF Next, User, System, Builder, Runner, Batch, Canceller

-----------------------------------------------------------------------------
(* What a step does to the slots and the threads *)

SlotInv ==
    /\ QueueWaits /\ SlotOwned /\ SlotExclusion /\ NoDeadSlot /\ SubmittedOnce

\* What happens to the thread of a task: it is woken from its queue, or as a
\* child by its parent; it goes on; it comes to an end with a verdict; it leaves.
Woken(t) ==
    /\ pc[t] = "none" /\ pc'[t] \in {"starting", "submitted"}
    /\ kind'[t] \in {"task"} \cup Batches /\ t \notin building'

WokenChild(t) ==
    /\ pc[t] = "none" /\ pc'[t] = "submitted" /\ t \in Created
    /\ \E p \in Ids : t \in kids[p] /\ pc[p] = "starting" /\ pc'[p] = "watching"

GoesOn(t) ==
    /\ pc[t] \notin {"none", "done"}
    /\ pc'[t] \in {"running", "submitted", "watching", "stopping", "merging"}

Ends(t) ==
    /\ pc[t] \notin {"none", "done"}
    /\ pc'[t] \in {"ending", "ended"} /\ status'[t] \in Terminal

Leaves(t) ==
    /\ pc[t] \notin {"none", "done"} /\ pc'[t] = "done"
    /\ t \in known' => status'[t] \in Terminal /\ row'[t] = status'[t]

Threads ==
    \A t \in Ids : \/ pc'[t] = pc[t]
                   \/ Woken(t) \/ WokenChild(t) \/ GoesOn(t) \/ Ends(t) \/ Leaves(t)

SlotsKept == Slots(queue', active', pool', pc') /\ Threads

\* Who runs, holds a slot or waits was created.
LEMMA ExecutingCreated ==
    ASSUME Numbered, DataTypes, SlotTypes(queue, active, pool, pc), SlotInv
    PROVE  /\ \A t \in Ids : pc[t] # "none" => t \in Created
           /\ \A s \in Keys : active[s] # 0 => active[s] \in Created
           /\ \A s \in Keys : \A i \in DOMAIN queue[s] : queue[s][i] \in Created
<1>1. \A t \in Ids : pc[t] # "none" => t \in Created
  BY DEF Numbered
<1>2. ASSUME NEW s \in Keys, active[s] # 0 PROVE active[s] \in Created
  <2>1. active[s] \in Ids
    BY <1>2 DEF SlotTypes, Ids
  <2>2. pc[active[s]] # "none"
    BY <1>2 DEF SlotInv, NoDeadSlot, Executing
  <2>. QED
    BY <1>1, <2>1, <2>2
<1>3. ASSUME NEW s \in Keys, NEW i \in DOMAIN queue[s] PROVE queue[s][i] \in Created
  <2>1. queue[s][i] \in Ids
    BY <1>3 DEF SlotTypes
  <2>2. queue[s][i] \in Range(queue[s])
    BY DEF Range
  <2>3. kind[queue[s][i]] # "none"
    BY <2>2 DEF SlotInv, QueueWaits, Batches
  <2>. QED
    BY <2>1, <2>3 DEF Created
<1>. QED
  BY <1>1, <1>2, <1>3

\* Before a step touches the slots, their invariants hold of the new records.
LEMMA SlotsBefore ==
    ASSUME Numbered, DataTypes, SlotTypes(queue, active, pool, pc), SlotInv, Frame
    PROVE  /\ Waits(queue, pc) /\ Holds(active, pc) /\ Excludes(active, pc)
           /\ Once(pool, pc)
<1>1. \A t \in Created : kind'[t] = kind[t] /\ session'[t] = session[t] /\ t \in Ids
  BY DEF Frame, KeepsTasks, Created
<1>2. \A t \in Created : t \in building' => t \in building
  BY DEF Frame, KeepsTasks
<1>3. Waits(queue, pc)
  <2>1. ASSUME NEW s \in Keys, NEW i \in DOMAIN queue[s]
        PROVE  /\ session'[queue[s][i]] = s /\ pc[queue[s][i]] = "none"
               /\ kind'[queue[s][i]] \in {"task"} \cup Batches /\ queue[s][i] \notin building'
    <3>1. queue[s][i] \in Range(queue[s]) /\ queue[s][i] \in Created
      BY ExecutingCreated DEF Range
    <3>2. LET t == queue[s][i]
          IN session[t] = s /\ pc[t] = "none" /\ kind[t] \in {"task"} \cup Batches /\ t \notin building
      BY <3>1 DEF SlotInv, QueueWaits
    <3>. QED
      BY <1>1, <1>2, <3>1, <3>2
  <2>2. \A s \in Keys : \A i, j \in DOMAIN queue[s] : queue[s][i] = queue[s][j] => i = j
    BY DEF SlotInv, QueueWaits
  <2>. QED
    BY <2>1, <2>2 DEF Waits
<1>4. Holds(active, pc)
  BY <1>1, ExecutingCreated DEF Holds, SlotInv, SlotOwned, NoDeadSlot, Executing
<1>5. Excludes(active, pc)
  <2>1. ASSUME NEW t \in Ids, pc[t] \notin {"none", "done"},
               status'[t] \notin Terminal \/ kind'[t] \notin Batches
        PROVE  active[session'[t]] = t
    <3>1. t \in Created
      BY <2>1, ExecutingCreated
    <3>2. status[t] \notin Terminal \/ kind[t] \notin Batches
      BY <1>1, <2>1, <3>1 DEF Frame, KeepsVerdicts
    <3>. QED
      BY <1>1, <2>1, <3>1, <3>2 DEF SlotInv, SlotExclusion, Executing
  <2>. QED
    BY <2>1 DEF Excludes
<1>6. Once(pool, pc)
  <2>1. \A t \in Ids : t \in Range(pool) <=> \E i \in 1..Len(pool) : pool[i] = t
    BY DEF Range, SlotTypes
  <2>. QED
    BY <2>1 DEF Once, SlotInv, SubmittedOnce
<1>. QED
  BY <1>3, <1>4, <1>5, <1>6

\* A starting batch that no step forgets or persists.
LEMMA StartsBefore ==
    ASSUME Numbered, DataTypes, SlotTypes(queue, active, pool, pc), SlotInv, Frame,
           NEW act,
           \A t \in Ids : pc[t] = "starting" /\ act[session[t]] = t
                => active[session[t]] = t /\ row'[t] \in {row[t], "none"}
    PROVE  Starts(act, pc)
<1>. SUFFICES ASSUME NEW t \in Ids, pc[t] = "starting"
              PROVE  /\ kind'[t] \in Batches
                     /\ act[session'[t]] = t => t \in known' /\ row'[t] \notin Terminal
  BY DEF Starts
<1>1. t \in Created /\ kind'[t] = kind[t] /\ session'[t] = session[t]
  BY ExecutingCreated DEF Frame, KeepsTasks
<1>2. kind[t] \in Batches /\ (active[session[t]] = t => t \in known /\ row[t] \notin Terminal)
  BY DEF SlotInv, SlotOwned
<1>. QED
  BY <1>1, <1>2, StatusFact DEF Frame, KeepsRows

\* What is known of a step before its effect on the slots is considered.
Before ==
    /\ Numbered /\ OwnSessions /\ DataTypes /\ SlotTypes(queue, active, pool, pc)
    /\ SlotInv /\ VerdictsHeld /\ BuildWaits /\ KidsWait
    /\ Frame /\ DataTypes'

\* A verdict that is stored is the one in memory, after every step.
LEMMA RowsFollow ==
    ASSUME VerdictsHeld, Frame
    PROVE  \A t \in Ids : row'[t] \in Terminal => status'[t] = row'[t]
BY StatusFact DEF VerdictsHeld, Frame, KeepsRows, KeepsVerdicts

\* A step that leaves the slots alone.
LEMMA SameSlots ==
    ASSUME Before, UNCHANGED slotVars,
           \A t \in Ids : pc[t] = "starting" /\ active[session[t]] = t
                => row'[t] \in {row[t], "none"}
    PROVE  SlotsKept
<1>1. /\ Waits(queue, pc) /\ Holds(active, pc) /\ Excludes(active, pc) /\ Once(pool, pc)
      /\ SlotTypes(queue, active, pool, pc)
  BY SlotsBefore DEF Before
<1>2. Starts(active, pc)
  BY StartsBefore DEF Before
<1>3. queue' = queue /\ active' = active /\ pool' = pool /\ pc' = pc
  BY DEF slotVars
<1>4. Slots(queue', active', pool', pc')
  BY <1>1, <1>2, <1>3 DEF Slots
<1>. QED
  BY <1>3, <1>4 DEF SlotsKept, Threads

\* A thread that goes on or comes to its end, or leaves without the slot.
LEMMA MoveSlots ==
    ASSUME Before, NEW t \in Ids, pc[t] \notin {"none", "done"},
           NEW x \in {"running", "submitted", "watching", "stopping", "merging",
                      "ending", "ended", "done"},
           queue' = queue, active' = active, pc' = [pc EXCEPT ![t] = x],
           pool' \in Seq(Ids), Once(pool', pc'),
           \A u \in Ids : u # t => row'[u] = row[u],
           x \in {"ending", "ended"} => status'[t] \in Terminal,
           x = "done" => active[session[t]] # t /\ t \notin known'
    PROVE  SlotsKept
<1>1. /\ Waits(queue, pc) /\ Holds(active, pc) /\ Excludes(active, pc)
      /\ SlotTypes(queue, active, pool, pc)
  BY SlotsBefore DEF Before
<1>2. \A u \in Ids : pc'[u] = IF u = t THEN x ELSE pc[u]
  BY <1>1 DEF SlotTypes
<1>3. SlotTypes(queue', active', pool', pc')
  BY <1>1 DEF SlotTypes, Pcs, RunPcs, BatchPcs
<1>4. Waits(queue', pc')
  <2>1. ASSUME NEW s \in Keys, NEW i \in DOMAIN queue[s] PROVE pc'[queue[s][i]] = "none"
    <3>1. queue[s][i] \in Ids
      BY <1>1 DEF SlotTypes
    <3>2. pc[queue[s][i]] = "none"
      BY <1>1 DEF Waits
    <3>. QED
      BY <1>2, <3>1, <3>2
  <2>. QED
    BY <1>1, <2>1 DEF Waits
<1>5. Holds(active', pc')
  <2>1. ASSUME NEW s \in Keys, active[s] # 0
        PROVE  session'[active[s]] = s /\ pc'[active[s]] \notin {"none", "done"}
    <3>1. active[s] \in Ids
      BY <1>1, <2>1 DEF SlotTypes, Ids
    <3>2. active[s] = t => x # "done"
      BY <2>1 DEF Before, SlotInv, SlotOwned
    <3>. QED
      BY <1>1, <1>2, <2>1, <3>1, <3>2 DEF Holds
  <2>. QED
    BY <2>1 DEF Holds
<1>6. Excludes(active', pc')
  BY <1>1, <1>2 DEF Excludes
<1>7. Starts(active', pc')
  <2>1. ASSUME NEW u \in Ids, pc'[u] = "starting"
        PROVE  /\ kind'[u] \in Batches
               /\ active'[session'[u]] = u => u \in known' /\ row'[u] \notin Terminal
    <3>1. u # t /\ pc[u] = "starting"
      BY <1>2, <2>1
    <3>2. u \in Created /\ kind'[u] = kind[u] /\ session'[u] = session[u]
      BY <3>1, ExecutingCreated DEF Before, Frame, KeepsTasks
    <3>3. kind[u] \in Batches /\ (active[session[u]] = u => u \in known /\ row[u] \notin Terminal)
      BY <3>1 DEF Before, SlotInv, SlotOwned
    <3>. QED
      BY <3>1, <3>2, <3>3 DEF Before, Frame, KeepsRows
  <2>. QED
    BY <2>1 DEF Starts
<1>8. Threads
  BY <1>2 DEF Threads, GoesOn, Ends, Leaves
<1>. QED
  BY <1>3, <1>4, <1>5, <1>6, <1>7, <1>8 DEF Slots, SlotsKept

\* The pool does not change with a thread that is not in it, nor enters it.
LEMMA OncePool ==
    ASSUME SlotTypes(queue, active, pool, pc), Once(pool, pc), NEW t \in Ids, NEW x,
           pc[t] # "submitted", x # "submitted"
    PROVE  Once(pool, [pc EXCEPT ![t] = x])
BY DEF SlotTypes, Once

\* A thread that leaves gives its slot away.
LEMMA LeaveSlots ==
    ASSUME Before, NEW t \in Ids, pc[t] \notin {"none", "done", "submitted"},
           ReleaseSlot(t, [pc EXCEPT ![t] = "done"]),
           UNCHANGED <<kind, session, known>>,
           \A u \in Ids : u # t => row'[u] = row[u],
           t \in known' => status'[t] \in Terminal /\ row'[t] = status'[t]
    PROVE  SlotsKept
<1>. DEFINE s == session[t]
            act == IF active[s] = t THEN [active EXCEPT ![s] = 0] ELSE active
            p == [pc EXCEPT ![t] = "done"]
            qs == [queue EXCEPT ![s] = queue[s]]
<1>1. /\ Waits(queue, pc) /\ Holds(active, pc) /\ Excludes(active, pc) /\ Once(pool, pc)
      /\ SlotTypes(queue, active, pool, pc)
  BY SlotsBefore DEF Before
<1>2. s \in Keys /\ session' \in [Ids -> Keys] /\ session' = session
  BY DEF Before, DataTypes
<1>3. Dispatch(s, queue[s], act, p)
  BY DEF ReleaseSlot
<1>4. qs = queue
  BY <1>1 DEF SlotTypes
<1>. HIDE DEF s, qs
<1>5. \A u \in Ids : p[u] = IF u = t THEN "done" ELSE pc[u]
  BY <1>1 DEF SlotTypes
<1>6. \A x \in Keys : act[x] = IF x = s /\ active[s] = t THEN 0 ELSE active[x]
  BY <1>1, <1>2 DEF SlotTypes
<1>7. SlotTypes(queue, act, pool, p)
  <2>1. p \in [Ids -> Pcs]
    BY <1>1 DEF SlotTypes, Pcs
  <2>2. act \in [Keys -> 0..N]
    <3>1. active \in [Keys -> 0..N] /\ 0 \in 0..N
      BY <1>1, NumberFact DEF SlotTypes
    <3>2. [active EXCEPT ![s] = 0] \in [Keys -> 0..N]
      BY <3>1
    <3>. QED
      BY <3>1, <3>2
  <2>. QED
    BY <1>1, <2>1, <2>2 DEF SlotTypes
<1>. HIDE DEF act, p
<1>8. Waits(queue, p)
  <2>1. ASSUME NEW x \in Keys, NEW i \in DOMAIN queue[x] PROVE p[queue[x][i]] = "none"
    <3>1. queue[x][i] \in Ids
      BY <1>1 DEF SlotTypes
    <3>2. pc[queue[x][i]] = "none"
      BY <1>1 DEF Waits
    <3>. QED
      BY <1>5, <3>1, <3>2
  <2>. QED
    BY <1>1, <2>1 DEF Waits
<1>9. Holds(act, p)
  <2>1. ASSUME NEW x \in Keys, act[x] # 0
        PROVE  session'[act[x]] = x /\ p[act[x]] \notin {"none", "done"}
    <3>1. act[x] = active[x] /\ active[x] \in Ids
      BY <1>1, <1>6, <2>1 DEF SlotTypes, Ids
    <3>2. session'[active[x]] = x /\ pc[active[x]] \notin {"none", "done"}
      BY <1>1, <2>1, <3>1 DEF Holds
    <3>3. active[x] # t
      BY <1>2, <1>6, <2>1, <3>2 DEF s
    <3>. QED
      BY <1>5, <3>1, <3>2, <3>3
  <2>. QED
    BY <2>1 DEF Holds
<1>10. Excludes(act, p)
  <2>1. ASSUME NEW u \in Ids, p[u] \notin {"none", "done"},
               status'[u] \notin Terminal \/ kind'[u] \notin Batches
        PROVE  act[session'[u]] = u
    <3>1. u # t /\ active[session'[u]] = u
      BY <1>1, <1>5, <2>1 DEF Excludes
    <3>2. session'[u] \in Keys
      BY <1>2
    <3>. QED
      BY <1>6, <3>1, <3>2
  <2>. QED
    BY <2>1 DEF Excludes
<1>11. Once(pool, p)
  BY <1>1, OncePool DEF p
<1>12. Starts(act, p)
  <2>1. ASSUME NEW u \in Ids, p[u] = "starting"
        PROVE  /\ kind'[u] \in Batches
               /\ act[session'[u]] = u => u \in known' /\ row'[u] \notin Terminal
    <3>1. u # t /\ pc[u] = "starting"
      BY <1>5, <2>1
    <3>2. kind[u] \in Batches /\ (active[session[u]] = u => u \in known /\ row[u] \notin Terminal)
      BY <3>1 DEF Before, SlotInv, SlotOwned
    <3>3. act[session[u]] = u => active[session[u]] = u
      BY <1>2, <1>6, NumberFact
    <3>. QED
      BY <1>2, <3>1, <3>2, <3>3
  <2>. QED
    BY <2>1 DEF Starts
<1>13. Slots(qs, act, pool, p)
  BY <1>4, <1>7, <1>8, <1>9, <1>10, <1>11, <1>12 DEF Slots
<1>14. Slots(queue', active', pool', pc') /\ Wakes(p)
  BY <1>1, <1>2, <1>3, <1>13, RowsFollow, DispatchSlots DEF Before, SlotTypes, qs
<1>15. Threads
  <2>1. ASSUME NEW u \in Ids, u # t PROVE pc'[u] = pc[u] \/ Woken(u)
    BY <1>5, <1>14, <2>1 DEF Wakes, Woken
  <2>2. pc'[t] = "done"
    BY <1>5, <1>14 DEF Wakes
  <2>3. Leaves(t)
    BY <2>2 DEF Leaves
  <2>. QED
    BY <2>1, <2>3 DEF Threads
<1>. QED
  BY <1>14, <1>15 DEF SlotsKept

\* Two sequences of different tasks, one after the other.
LEMMA ConcatFact ==
    ASSUME NEW q \in Seq(Ids), NEW r \in Seq(Ids),
           \A i, j \in 1..Len(q) : q[i] = q[j] => i = j,
           \A i, j \in 1..Len(r) : r[i] = r[j] => i = j,
           \A i \in 1..Len(q), j \in 1..Len(r) : q[i] # r[j]
    PROVE  /\ q \o r \in Seq(Ids)
           /\ \A i, j \in 1..Len(q \o r) : (q \o r)[i] = (q \o r)[j] => i = j
           /\ \A t \in Ids : (\E i \in 1..Len(q \o r) : (q \o r)[i] = t)
                <=> \/ \E i \in 1..Len(q) : q[i] = t
                    \/ \E i \in 1..Len(r) : r[i] = t
<1>. DEFINE n == Len(q)
            m == Len(r)
            b == q \o r
<1>1. /\ n \in Nat /\ m \in Nat /\ b \in Seq(Ids) /\ Len(b) = n + m
      /\ \A i \in 1..(n + m) : b[i] = IF i <= n THEN q[i] ELSE r[i - n]
  BY ConcatProperties, LenProperties
<1>. HIDE DEF n, m, b
<1>2. \A i \in 1..(n + m) : (i \in 1..n /\ b[i] = q[i]) \/ (i > n /\ i - n \in 1..m /\ b[i] = r[i - n])
  BY <1>1
<1>3. \A i \in 1..n : i \in 1..(n + m) /\ b[i] = q[i]
  BY <1>1
<1>4. \A i \in 1..m : n + i \in 1..(n + m) /\ b[n + i] = r[i]
  <2>1. \A i \in 1..m : n + i \in 1..(n + m) /\ ~ (n + i <= n) /\ (n + i) - n = i
    BY <1>1
  <2>. QED
    BY <1>1, <2>1
<1>5. ASSUME NEW i \in 1..(n + m), NEW j \in 1..(n + m), b[i] = b[j] PROVE i = j
  <2>1. CASE i \in 1..n /\ b[i] = q[i]
    BY <1>2, <1>5, <2>1 DEF n, m
  <2>2. CASE i > n /\ i - n \in 1..m /\ b[i] = r[i - n]
    <3>1. CASE j \in 1..n /\ b[j] = q[j]
      BY <1>5, <2>2, <3>1 DEF n, m
    <3>2. CASE j > n /\ j - n \in 1..m /\ b[j] = r[j - n]
      <4>1. i - n = j - n
        BY <1>5, <2>2, <3>2 DEF m
      <4>. QED
        BY <1>1, <4>1
    <3>. QED
      BY <1>2, <3>1, <3>2
  <2>. QED
    BY <1>2, <2>1, <2>2
<1>6. \A t \in Ids : (\E i \in 1..(n + m) : b[i] = t)
                <=> (\E i \in 1..n : q[i] = t) \/ (\E i \in 1..m : r[i] = t)
  BY <1>2, <1>3, <1>4
<1>. QED
  BY <1>1, <1>5, <1>6 DEF n, m, b

\* A queue that lost entries is still in order.
LEMMA OnlyWaits ==
    ASSUME Before, NEW s \in Keys, NEW ts
    PROVE  /\ Only(queue[s], ts) \in Seq(Ids)
           /\ Waits([queue EXCEPT ![s] = Only(queue[s], ts)], pc)
<1>. DEFINE q == queue[s]
            o == Only(q, ts)
            qs == [queue EXCEPT ![s] = o]
<1>1. Waits(queue, pc) /\ queue \in [Keys -> Seq(Ids)] /\ q \in Seq(Ids)
  BY SlotsBefore DEF Before, SlotTypes
<1>2. \A i, j \in DOMAIN q : q[i] = q[j] => i = j
  BY <1>1 DEF Waits
<1>. HIDE DEF q
<1>3. /\ o \in Seq(Ids) /\ \A i, j \in DOMAIN o : o[i] = o[j] => i = j
      /\ \A i \in DOMAIN o : \E k \in DOMAIN q : o[i] = q[k]
  BY <1>1, <1>2, OnlyFact
<1>. HIDE DEF o
<1>4. \A x \in Keys : qs[x] = IF x = s THEN o ELSE queue[x]
  BY <1>1
<1>. HIDE DEF qs
<1>5. \A i \in DOMAIN q : /\ session'[q[i]] = s /\ pc[q[i]] = "none"
                          /\ kind'[q[i]] \in {"task"} \cup Batches /\ q[i] \notin building'
  BY <1>1 DEF Waits, q
<1>6. \A i \in DOMAIN o : /\ session'[o[i]] = s /\ pc[o[i]] = "none"
                          /\ kind'[o[i]] \in {"task"} \cup Batches /\ o[i] \notin building'
  BY <1>3, <1>5
<1>7. ASSUME NEW x \in Keys
      PROVE  /\ \A i, j \in DOMAIN qs[x] : qs[x][i] = qs[x][j] => i = j
             /\ \A i \in DOMAIN qs[x] :
                  /\ session'[qs[x][i]] = x /\ pc[qs[x][i]] = "none"
                  /\ kind'[qs[x][i]] \in {"task"} \cup Batches /\ qs[x][i] \notin building'
  <2>1. CASE x = s
    BY <1>3, <1>4, <1>6, <2>1
  <2>2. CASE x # s
    <3>1. qs[x] = queue[x]
      BY <1>4, <2>2
    <3>. QED
      BY <1>1, <3>1 DEF Waits
  <2>. QED
    BY <2>1, <2>2
<1>. QED
  BY <1>3, <1>7 DEF Waits, q, o, qs

\* A task that enters the queue of its session.
LEMMA QueueSlots ==
    ASSUME Before, NEW t \in Ids, NEW s \in Keys, NEW st, NEW rows,
           QueueTask(t, s, st, rows),
           session'[t] = s, pc[t] = "none", t \notin building',
           kind'[t] \in {"task"} \cup Batches,
           \A x \in Keys : \A i \in DOMAIN queue[x] : queue[x][i] # t,
           \A u \in Ids : u # t => row'[u] \in {row[u], "none"}
    PROVE  SlotsKept
<1>. DEFINE q == LiveQueue(s)
            qs == [queue EXCEPT ![s] = q]
            a == Append(q, t)
            as == [queue EXCEPT ![s] = a]
<1>1. /\ Holds(active, pc) /\ Excludes(active, pc) /\ Once(pool, pc)
      /\ SlotTypes(queue, active, pool, pc)
  BY SlotsBefore DEF Before
<1>2. Starts(active, pc)
  BY StartsBefore DEF Before
<1>3. /\ q \in Seq(Ids) /\ Waits(qs, pc)
      /\ \A i \in DOMAIN q : \E k \in DOMAIN queue[s] : q[i] = queue[s][k]
  <2>. DEFINE live == {u \in known' : status[u] \notin Terminal /\ u # active[s]}
  <2>1. q = Only(queue[s], live)
    BY DEF LiveQueue
  <2>. HIDE DEF live, q
  <2>. DEFINE o == Only(queue[s], live)
  <2>2. /\ o \in Seq(Ids) /\ Waits([queue EXCEPT ![s] = o], pc)
        /\ \A i \in DOMAIN o : \E k \in DOMAIN queue[s] : o[i] = queue[s][k]
    <3>. HIDE DEF as, a
    <3>1. o \in Seq(Ids)
      BY OnlyWaits
    <3>2. Waits([queue EXCEPT ![s] = o], pc)
      BY OnlyWaits
    <3>3. \A i \in DOMAIN o : \E k \in DOMAIN queue[s] : o[i] = queue[s][k]
      <4>1. queue[s] \in Seq(Ids)
        BY <1>1 DEF SlotTypes
      <4>. QED
        BY <4>1, OnlyFact
    <3>. QED
      BY <3>1, <3>2, <3>3
  <2>. HIDE DEF o
  <2>3. q = o
    BY <2>1 DEF o
  <2>. QED
    BY <2>2, <2>3
<1>. HIDE DEF q
<1>4. qs \in [Keys -> Seq(Ids)] /\ \A x \in Keys : qs[x] = IF x = s THEN q ELSE queue[x]
  BY <1>1, <1>3 DEF SlotTypes
<1>5. CASE Len(q) >= QueueLimit
  <2>1. queue' = qs /\ active' = active /\ pool' = pool /\ pc' = pc
    BY <1>5 DEF QueueTask, q
  <2>2. SlotTypes(queue', active', pool', pc')
    BY <1>1, <1>4, <2>1 DEF SlotTypes
  <2>3. Slots(queue', active', pool', pc')
    BY <1>1, <1>2, <1>3, <2>1, <2>2 DEF Slots
  <2>. QED
    BY <2>1, <2>3 DEF SlotsKept, Threads
<1>6. CASE ~ (Len(q) >= QueueLimit)
  <2>1. Dispatch(s, a, active, pc)
    BY <1>6 DEF QueueTask, q
  <2>2. \A i \in 1..Len(q) : q[i] # t
    BY <1>3
  <2>3. \A i, j \in 1..Len(q) : q[i] = q[j] => i = j
    BY <1>3, <1>4 DEF Waits
  <2>4. /\ a \in Seq(Ids) /\ \A i, j \in DOMAIN a : a[i] = a[j] => i = j
        /\ \A i \in DOMAIN a : a[i] = t \/ \E j \in DOMAIN q : a[i] = q[j]
    BY <1>3, <2>2, <2>3, AppendFact
  <2>. HIDE DEF a, qs
  <2>5. as \in [Keys -> Seq(Ids)] /\ \A x \in Keys : as[x] = IF x = s THEN a ELSE queue[x]
    BY <1>1, <2>4 DEF SlotTypes
  <2>. HIDE DEF as
  <2>6. \A i \in DOMAIN a : /\ session'[a[i]] = s /\ pc[a[i]] = "none"
                            /\ kind'[a[i]] \in {"task"} \cup Batches /\ a[i] \notin building'
    <3>1. \A i \in DOMAIN q : /\ session'[q[i]] = s /\ pc[q[i]] = "none"
                              /\ kind'[q[i]] \in {"task"} \cup Batches /\ q[i] \notin building'
      BY <1>3, <1>4 DEF Waits
    <3>. QED
      BY <2>4, <3>1
  <2>7. ASSUME NEW x \in Keys
        PROVE  /\ \A i, j \in DOMAIN as[x] : as[x][i] = as[x][j] => i = j
               /\ \A i \in DOMAIN as[x] :
                    /\ session'[as[x][i]] = x /\ pc[as[x][i]] = "none"
                    /\ kind'[as[x][i]] \in {"task"} \cup Batches /\ as[x][i] \notin building'
    <3>1. CASE x = s
      <4>1. as[x] = a
        BY <2>5, <3>1
      <4>. QED
        BY <2>4, <2>6, <3>1, <4>1
    <3>2. CASE x # s
      <4>1. as[x] = qs[x]
        BY <1>4, <2>5, <3>2
      <4>. QED
        BY <1>3, <4>1 DEF Waits
    <3>. QED
      BY <3>1, <3>2
  <2>8. Waits(as, pc)
    BY <2>7 DEF Waits
  <2>9. SlotTypes(as, active, pool, pc)
    BY <1>1, <2>5 DEF SlotTypes
  <2>10. Slots(as, active, pool, pc)
    BY <1>1, <1>2, <2>8, <2>9 DEF Slots
  <2>11. Slots(queue', active', pool', pc') /\ Wakes(pc)
    BY <1>1, <2>1, <2>10, RowsFollow, DispatchSlots DEF Before, SlotTypes, DataTypes, as
  <2>. QED
    BY <2>11 DEF SlotsKept, Threads, Wakes, Woken
<1>. QED
  BY <1>5, <1>6

\* The locked section of cancel().
LEMMA DropSlots ==
    ASSUME Before, NEW who \in Callers, NEW t \in Ids, CancelDrops(who, t)
    PROVE  SlotsKept
<1>. DEFINE s == session[t]
            o == Only(queue[s], Ids \ {t})
            act == [active EXCEPT ![s] = 0]
<1>1. /\ Waits(queue, pc) /\ Holds(active, pc) /\ Excludes(active, pc) /\ Once(pool, pc)
      /\ SlotTypes(queue, active, pool, pc)
  BY SlotsBefore DEF Before
<1>2. /\ s \in Keys /\ session' \in [Ids -> Keys] /\ session' = session /\ kind' = kind
      /\ \A u \in Ids : u # t => row'[u] = row[u]
      /\ status'[t] \in Terminal
  BY DEF Before, DataTypes, CancelDrops, taskVars, VerdictsHeld
<1>3. CASE active[s] # t
  <2>1. Dispatch(s, o, active, pc)
    BY <1>3 DEF CancelDrops
  <2>2. Starts(active, pc)
    <3>1. \A u \in Ids : active[session[u]] = u => row'[u] = row[u]
      BY <1>2, <1>3
    <3>. QED
      BY <3>1, StartsBefore DEF Before
  <2>3. o \in Seq(Ids) /\ Waits([queue EXCEPT ![s] = o], pc)
    BY <1>2, OnlyWaits
  <2>. HIDE DEF s, o
  <2>4. SlotTypes([queue EXCEPT ![s] = o], active, pool, pc)
    BY <1>1, <2>3 DEF SlotTypes
  <2>5. Slots([queue EXCEPT ![s] = o], active, pool, pc)
    BY <1>1, <2>2, <2>3, <2>4 DEF Slots
  <2>6. Slots(queue', active', pool', pc') /\ Wakes(pc)
    BY <1>1, <1>2, <2>1, <2>5, RowsFollow, DispatchSlots DEF Before, SlotTypes
  <2>. QED
    BY <2>6 DEF SlotsKept, Threads, Wakes, Woken
<1>4. CASE active[s] = t /\ kind[t] \in Batches
  <2>1. Dispatch(s, queue[s], act, pc)
    BY <1>4 DEF CancelDrops, ReleaseSlot
  <2>2. [queue EXCEPT ![s] = queue[s]] = queue
    BY <1>1 DEF SlotTypes
  <2>. HIDE DEF s
  <2>3. act \in [Keys -> 0..N] /\ \A x \in Keys : act[x] = IF x = s THEN 0 ELSE active[x]
    <3>1. active \in [Keys -> 0..N] /\ 0 \in 0..N
      BY <1>1, NumberFact DEF SlotTypes
    <3>. QED
      BY <3>1
  <2>. HIDE DEF act
  <2>4. Holds(act, pc)
    BY <1>1, <2>3 DEF Holds
  <2>5. Excludes(act, pc)
    <3>1. ASSUME NEW u \in Ids, pc[u] \notin {"none", "done"},
                 status'[u] \notin Terminal \/ kind'[u] \notin Batches
          PROVE  act[session'[u]] = u
      <4>1. active[session'[u]] = u /\ session'[u] \in Keys
        BY <1>1, <1>2, <3>1 DEF Excludes
      <4>2. u # t
        BY <1>2, <1>4, <3>1
      <4>. QED
        BY <1>4, <2>3, <4>1, <4>2
    <3>. QED
      BY <3>1 DEF Excludes
  <2>6. Starts(act, pc)
    <3>1. ASSUME NEW u \in Ids, act[session[u]] = u
          PROVE  active[session[u]] = u /\ row'[u] = row[u]
      <4>1. session[u] \in Keys /\ session[u] # s
        BY <1>2, <2>3, <3>1, NumberFact
      <4>. QED
        BY <1>2, <2>3, <3>1, <4>1 DEF s
    <3>. QED
      BY <3>1, StartsBefore DEF Before
  <2>7. SlotTypes(queue, act, pool, pc)
    BY <1>1, <2>3 DEF SlotTypes
  <2>8. Slots([queue EXCEPT ![s] = queue[s]], act, pool, pc)
    BY <1>1, <2>2, <2>4, <2>5, <2>6, <2>7 DEF Slots
  <2>9. Slots(queue', active', pool', pc') /\ Wakes(pc)
    BY <1>1, <1>2, <2>1, <2>8, RowsFollow, DispatchSlots DEF Before, SlotTypes
  <2>. QED
    BY <2>9 DEF SlotsKept, Threads, Wakes, Woken
<1>5. CASE active[s] = t /\ kind[t] \notin Batches
  <2>1. UNCHANGED slotVars
    BY <1>5 DEF CancelDrops
  <2>2. pc[t] # "starting"
    BY <1>5 DEF Before, SlotInv, SlotOwned
  <2>. QED
    BY <1>2, <2>1, <2>2, SameSlots
<1>. QED
  BY <1>3, <1>4, <1>5

\* The children of a batch start, each in the session that is its own.
LEMMA StartBatchSlots ==
    ASSUME Before, NEW p \in Ids, StartBatch(p)
    PROVE  SlotsKept
<1>. DEFINE ready == {c \in kids[p] \cap known : status[c] \notin Terminal}
            order == InOrder(ready)
<1>1. /\ Waits(queue, pc) /\ Holds(active, pc) /\ Excludes(active, pc) /\ Once(pool, pc)
      /\ SlotTypes(queue, active, pool, pc)
  BY SlotsBefore DEF Before
<1>2. /\ pc[p] = "starting" /\ status[p] \notin Terminal /\ status'[p] \notin Terminal
      /\ queue' = queue /\ kind' = kind /\ session' = session /\ kids' = kids
      /\ \A u \in Ids : u # p => row'[u] = row[u]
  BY StatusFact DEF StartBatch, taskVars, Before, DataTypes
<1>3. /\ active' = [s \in Keys |-> IF s \in ready THEN s ELSE active[s]]
      /\ pool' = pool \o order
      /\ pc' = [t \in Ids |-> IF t = p THEN "watching"
                              ELSE IF t \in ready THEN "submitted" ELSE pc[t]]
  BY DEF StartBatch
<1>4. ready \in SUBSET Ids /\ ready \subseteq kids[p]
  BY DEF Before, DataTypes
<1>5. \A c \in ready : /\ kind[c] = "child" /\ session[c] = c /\ pc[c] = "none"
                       /\ c \in Created /\ c # p
  <2>1. \A c \in ready : kind[c] = "child" /\ pc[c] = "none"
    BY <1>2, <1>4 DEF Before, KidsWait
  <2>. QED
    BY <1>2, <1>4, <2>1 DEF Before, OwnSessions, Created
<1>6. kind[p] \in Batches /\ session[p] \in Sessions
  <2>1. kind[p] \in Batches
    BY <1>2 DEF Before, SlotInv, SlotOwned
  <2>. QED
    BY <2>1 DEF Before, OwnSessions, Batches
<1>7. \A u \in Ids : session[u] \in ready => u \in ready
  <2>1. \A u \in Ids : session[u] \in ready => session[u] \notin Sessions
    BY <1>4, KeyFact
  <2>. QED
    BY <2>1 DEF Before, OwnSessions
<1>8. session[p] \notin ready
  BY <1>4, <1>6, KeyFact
<1>9. order \in Seq(Ids) /\ (\A i, j \in 1..Len(order) : order[i] = order[j] => i = j)
      /\ \A u \in Ids : (\E i \in 1..Len(order) : order[i] = u) <=> u \in ready
  <2>1. N \in Nat /\ ready \in SUBSET (1..N)
    BY <1>4, NumberFact DEF Ids
  <2>. DEFINE c == Cardinality(ready)
  <2>. HIDE DEF ready
  <2>2. /\ c \in Nat /\ order \in [1..c -> ready]
        /\ \A i, j \in 1..c : order[i] = order[j] => i = j
        /\ \A k \in ready : \E i \in 1..c : order[i] = k
    BY <2>1, InOrderFact
  <2>. HIDE DEF c, order
  <2>3. order \in Seq(Ids) /\ Len(order) = c
    BY <1>4, <2>2
  <2>. QED
    BY <2>2, <2>3
<1>. HIDE DEF ready, order
<1>10. \A u \in Ids : u # p /\ u \notin ready => pc'[u] = pc[u]
  BY <1>3
<1>11. SlotTypes(queue', active', pool', pc') /\ Once(pool', pc')
  <2>1. pool \in Seq(Ids) /\ \A i, j \in 1..Len(pool) : pool[i] = pool[j] => i = j
    BY <1>1 DEF SlotTypes, Once
  <2>2. \A i \in 1..Len(pool) : pool[i] \in Ids /\ pc[pool[i]] = "submitted"
    <3>1. \A i \in 1..Len(pool) : pool[i] \in Ids
      BY <2>1
    <3>. QED
      BY <1>1, <3>1 DEF Once
  <2>3. \A i \in 1..Len(order) : order[i] \in Ids /\ order[i] \in ready
    <3>1. \A i \in 1..Len(order) : order[i] \in Ids
      BY <1>9
    <3>. QED
      BY <1>9, <3>1
  <2>4. \A i \in 1..Len(pool), j \in 1..Len(order) : pool[i] # order[j]
    BY <1>5, <2>2, <2>3
  <2>5. /\ pool' \in Seq(Ids) /\ \A i, j \in 1..Len(pool') : pool'[i] = pool'[j] => i = j
        /\ \A t \in Ids : (\E i \in 1..Len(pool') : pool'[i] = t)
             <=> \/ \E i \in 1..Len(pool) : pool[i] = t
                 \/ \E i \in 1..Len(order) : order[i] = t
    <3>. DEFINE b == pool \o order
    <3>1. b \in Seq(Ids)
      BY <1>9, <2>1, <2>4, ConcatFact
    <3>2. \A i, j \in 1..Len(b) : b[i] = b[j] => i = j
      BY <1>9, <2>1, <2>4, ConcatFact
    <3>3. \A t \in Ids : (\E i \in 1..Len(b) : b[i] = t)
             <=> \/ \E i \in 1..Len(pool) : pool[i] = t
                 \/ \E i \in 1..Len(order) : order[i] = t
      BY <1>9, <2>1, <2>4, ConcatFact
    <3>. HIDE DEF b
    <3>4. pool' = b
      BY <1>3 DEF b
    <3>. QED
      BY <3>1, <3>2, <3>3, <3>4
  <2>6. \A t \in Ids : (\E i \in 1..Len(pool') : pool'[i] = t)
                          <=> pc[t] = "submitted" \/ t \in ready
    BY <1>1, <1>9, <2>5 DEF Once
  <2>7. \A t \in Ids : pc[t] = "submitted" \/ t \in ready <=> pc'[t] = "submitted"
    BY <1>2, <1>3, <1>5
  <2>8. active' \in [Keys -> 0..N]
    BY <1>1, <1>3, <1>4, NumberFact DEF SlotTypes
  <2>9. pc' \in [Ids -> Pcs]
    BY <1>1, <1>3 DEF SlotTypes, Pcs, BatchPcs
  <2>. QED
    BY <1>1, <1>2, <2>5, <2>6, <2>7, <2>8, <2>9 DEF SlotTypes, Once
<1>12. Waits(queue', pc')
  <2>1. ASSUME NEW s \in Keys, NEW i \in DOMAIN queue[s] PROVE pc'[queue[s][i]] = "none"
    <3>1. queue[s][i] \in Ids
      BY <1>1 DEF SlotTypes
    <3>2. pc[queue[s][i]] = "none" /\ kind'[queue[s][i]] \in {"task"} \cup Batches
      BY <1>1 DEF Waits
    <3>3. queue[s][i] \notin ready /\ queue[s][i] # p
      BY <1>2, <1>5, <3>2 DEF Batches
    <3>. QED
      BY <1>10, <3>1, <3>2, <3>3
  <2>. QED
    BY <1>1, <1>2, <2>1 DEF Waits
<1>13. Holds(active', pc')
  <2>1. ASSUME NEW s \in Keys, active'[s] # 0
        PROVE  session'[active'[s]] = s /\ pc'[active'[s]] \notin {"none", "done"}
    <3>1. CASE s \in ready
      <4>1. active'[s] = s /\ s \in Ids /\ session[s] = s /\ s # p
        BY <1>3, <1>4, <1>5, <3>1
      <4>2. pc'[s] = "submitted"
        BY <1>3, <3>1, <4>1
      <4>. QED
        BY <1>2, <4>1, <4>2
    <3>2. CASE s \notin ready
      <4>1. active'[s] = active[s] /\ active[s] \in Ids
        BY <1>1, <1>3, <2>1, <3>2 DEF SlotTypes, Ids
      <4>2. session'[active[s]] = s /\ pc[active[s]] \notin {"none", "done"}
        BY <1>1, <2>1, <4>1 DEF Holds
      <4>3. active[s] \notin ready
        BY <1>5, <4>2
      <4>4. pc'[active[s]] = "watching" \/ pc'[active[s]] = pc[active[s]]
        BY <1>3, <4>1, <4>3
      <4>. QED
        BY <4>1, <4>2, <4>4
    <3>. QED
      BY <3>1, <3>2
  <2>. QED
    BY <2>1 DEF Holds
<1>14. Excludes(active', pc')
  <2>1. ASSUME NEW u \in Ids, pc'[u] \notin {"none", "done"},
               status'[u] \notin Terminal \/ kind'[u] \notin Batches
        PROVE  active'[session'[u]] = u
    <3>1. session[u] \in Keys
      BY DEF Before, DataTypes
    <3>2. CASE u \in ready
      BY <1>2, <1>3, <1>5, <3>1, <3>2
    <3>3. CASE u \notin ready
      <4>1. pc[u] \notin {"none", "done"}
        BY <1>2, <1>10, <2>1, <3>3
      <4>2. active[session[u]] = u
        BY <1>1, <1>2, <2>1, <4>1 DEF Excludes
      <4>3. session[u] \notin ready
        BY <1>7, <3>3
      <4>. QED
        BY <1>2, <1>3, <3>1, <4>2, <4>3
    <3>. QED
      BY <3>2, <3>3
  <2>. QED
    BY <2>1 DEF Excludes
<1>15. Starts(active', pc')
  <2>1. ASSUME NEW u \in Ids, pc'[u] = "starting"
        PROVE  /\ kind'[u] \in Batches
               /\ active'[session'[u]] = u => u \in known' /\ row'[u] \notin Terminal
    <3>1. u # p /\ u \notin ready /\ pc[u] = "starting" /\ session[u] \in Keys
      BY <1>3, <2>1 DEF Before, DataTypes
    <3>2. kind[u] \in Batches /\ (active[session[u]] = u => u \in known /\ row[u] \notin Terminal)
      BY <3>1 DEF Before, SlotInv, SlotOwned
    <3>3. session[u] \notin ready
      BY <1>7, <3>1
    <3>4. active'[session[u]] = active[session[u]]
      BY <1>3, <3>1, <3>3
    <3>. QED
      BY <1>2, <3>1, <3>2, <3>4 DEF Before, Frame, KeepsRows
  <2>. QED
    BY <2>1 DEF Starts
<1>16. Threads
  <2>1. pc'[p] = "watching"
    BY <1>3
  <2>2. GoesOn(p)
    BY <1>2, <2>1 DEF GoesOn
  <2>3. ASSUME NEW c \in ready PROVE WokenChild(c)
    <3>1. pc'[c] = "submitted"
      BY <1>3, <1>4, <1>5
    <3>. QED
      BY <1>2, <1>4, <1>5, <2>1, <3>1 DEF WokenChild
  <2>. QED
    BY <1>10, <2>2, <2>3 DEF Threads
<1>. QED
  BY <1>11, <1>12, <1>13, <1>14, <1>15, <1>16 DEF Slots, SlotsKept

\* Every step keeps the slots consistent and moves threads only forward.
LEMMA SlotsStep ==
    ASSUME Before, Next
    PROVE  SlotsKept
<1>1. ASSUME NEW t \in Ids, Cancel(t) PROVE SlotsKept
  <2>1. UNCHANGED slotVars /\ row' = row
    BY <1>1 DEF Cancel
  <2>. QED
    BY <2>1, SameSlots
<1>2. ASSUME NEW t \in Ids, NEW s \in Sessions, Submit(t, s) PROVE SlotsKept
  <2>1. kind[t] = "none"
    BY <1>2, NextIdFact DEF Submit, Create, Before
  <2>2. pc[t] = "none" /\ t \notin Created /\ t \notin building
    BY <2>1 DEF Before, Numbered, Created, BuildWaits, Batches
  <2>3. session'[t] = s /\ kind'[t] = "task" /\ t \notin building' /\ s \in Keys
    BY <1>2, <2>2, KeyFact DEF Submit, Create, Before, DataTypes, buildVars
  <2>4. \A x \in Keys : \A i \in DOMAIN queue[x] : queue[x][i] # t
    BY <2>2, ExecutingCreated DEF Before
  <2>5. /\ [status EXCEPT ![t] = "queued"] \in [Ids -> {"none"} \cup Active \cup Terminal]
        /\ QueueTask(t, s, [status EXCEPT ![t] = "queued"], Kept)
    BY <1>2, StatusFact DEF Submit, Before, DataTypes
  <2>6. \A u \in Ids : u # t => row'[u] \in {row[u], "none"}
    <3>1. /\ Kept \in [Ids -> {"none"} \cup Active \cup Terminal]
          /\ \A u \in Ids : Kept[u] \in {row[u], "none"}
      BY KeptFact DEF Before
    <3>2. \A u \in Ids : u # t => row'[u] = Kept[u]
      <4>. DEFINE st == [status EXCEPT ![t] = "queued"]
      <4>1. st \in [Ids -> {"none"} \cup Active \cup Terminal] /\ QueueTask(t, s, st, Kept)
        BY <2>5
      <4>. HIDE DEF st
      <4>. QED
        BY <3>1, <4>1, QueueFact DEF Before
    <3>. QED
      BY <3>1, <3>2
  <2>. QED
    BY <2>2, <2>3, <2>4, <2>5, <2>6, QueueSlots
<1>3. ASSUME NEW t \in Ids, NEW s \in Sessions, NEW mode \in Batches, NEW k \in 1..MaxKids,
             BatchOpen(t, s, mode, k) PROVE SlotsKept
  <2>1. UNCHANGED slotVars /\ \A u \in Ids : u # t => row'[u] = row[u]
    BY <1>3 DEF BatchOpen, Before, DataTypes
  <2>2. pc[t] = "none"
    <3>1. kind[t] = "none"
      BY <1>3, NextIdFact DEF BatchOpen, Create, Before
    <3>. QED
      BY <3>1 DEF Before, Numbered, Created
  <2>. QED
    BY <2>1, <2>2, SameSlots
<1>4. ASSUME NEW p \in Ids, BatchLink(p) PROVE SlotsKept
  <2>1. UNCHANGED slotVars /\ \A u \in Ids : u # p /\ u # fresh[p] => row'[u] = row[u]
    BY <1>4 DEF BatchLink
  <2>2. pc[p] = "none" /\ pc[fresh[p]] = "none"
    BY <1>4 DEF BatchLink, Before, BuildWaits
  <2>. QED
    BY <2>1, <2>2, SameSlots
<1>5. ASSUME NEW p \in Ids, BatchQueue(p) PROVE SlotsKept
  <2>1. /\ kind'[p] \in Batches /\ pc[p] = "none" /\ p \notin building'
        /\ session[p] \in Keys /\ session'[p] = session[p]
    BY <1>5 DEF BatchQueue, Before, BuildWaits, DataTypes, taskVars
  <2>2. QueueTask(p, session[p], status, row)
    BY <1>5 DEF BatchQueue
  <2>3. ASSUME NEW x \in Keys, NEW i \in DOMAIN queue[x] PROVE queue[x][i] # p
    <3>1. queue[x][i] \in Range(queue[x])
      BY DEF Range
    <3>2. queue[x][i] \notin building
      BY <3>1 DEF Before, SlotInv, QueueWaits
    <3>. QED
      BY <1>5, <3>2 DEF BatchQueue
  <2>4. \A u \in Ids : u # p => row'[u] \in {row[u], "none"}
    BY <2>2, QueueFact, SMTT(20) DEF Before, DataTypes
  <2>. QED
    BY <2>1, <2>2, <2>3, <2>4, QueueSlots
<1>6. ASSUME NEW p \in Ids, NEW c \in Ids, BatchChild(p, c) PROVE SlotsKept
  <2>1. UNCHANGED slotVars /\ \A u \in Ids : u # c => row'[u] \in {row[u], "none"}
    BY <1>6, KeptFact DEF BatchChild, Before
  <2>2. pc[c] = "none"
    <3>1. kind[c] = "none"
      BY <1>6, NextIdFact DEF BatchChild, Create, Before
    <3>. QED
      BY <3>1 DEF Before, Numbered, Created
  <2>. QED
    BY <2>1, <2>2, SameSlots
<1>7. ASSUME NEW t \in Ids, RunStart(t) PROVE SlotsKept
  <2>1. /\ pool # <<>> /\ t = Head(pool) /\ pool' = Tail(pool)
        /\ queue' = queue /\ active' = active /\ \A u \in Ids : u # t => row'[u] = row[u]
    BY <1>7 DEF RunStart, Before, DataTypes
  <2>2. Once(pool, pc) /\ SlotTypes(queue, active, pool, pc)
    BY SlotsBefore DEF Before
  <2>3. /\ pool' \in Seq(Ids) /\ Len(pool) \in Nat /\ Len(pool') = Len(pool) - 1
        /\ \A i \in 1..Len(pool') : pool'[i] = pool[i + 1]
        /\ pool[1] = t /\ 1 \in 1..Len(pool)
    BY <2>1, <2>2 DEF SlotTypes
  <2>4. pc[t] = "submitted"
    BY <2>2, <2>3 DEF Once
  <2>5. \A i \in 1..Len(pool) : pool[i] = t => i = 1
    BY <2>2, <2>3 DEF Once
  <2>6. /\ \A i, j \in 1..Len(pool') : pool'[i] = pool'[j] => i = j
        /\ \A u \in Ids : (\E i \in 1..Len(pool') : pool'[i] = u)
                             <=> u # t /\ \E i \in 1..Len(pool) : pool[i] = u
    <3>1. \A i \in 1..Len(pool') : i + 1 \in 1..Len(pool) /\ i + 1 # 1
      BY <2>3
    <3>2. \A i \in 1..Len(pool) : i # 1 => i - 1 \in 1..Len(pool') /\ pool'[i - 1] = pool[i]
      <4>1. \A i \in 1..Len(pool) : i # 1 => i - 1 \in 1..Len(pool') /\ (i - 1) + 1 = i
        BY <2>3
      <4>. QED
        BY <2>3, <4>1
    <3>3. \A i, j \in 1..Len(pool') : pool'[i] = pool'[j] => i = j
      <4>1. ASSUME NEW i \in 1..Len(pool'), NEW j \in 1..Len(pool'), pool'[i] = pool'[j] PROVE i = j
        <5>1. i + 1 = j + 1
          BY <2>2, <2>3, <3>1, <4>1 DEF Once
        <5>. QED
          BY <5>1
      <4>. QED
        BY <4>1
    <3>4. \A i \in 1..Len(pool') : pool'[i] # t
      BY <2>3, <2>5, <3>1
    <3>. QED
      BY <2>3, <3>1, <3>2, <3>3, <3>4
  <2>7. PICK x \in {"running", "ending"} : pc' = [pc EXCEPT ![t] = x] /\ (x = "ending" => status'[t] \in Terminal)
    <3>1. CASE Cancelled(t) \/ status[t] \in Terminal
      <4>1. RequestCancel({t}) /\ pc' = [pc EXCEPT ![t] = "ending"]
        BY <1>7, <3>1 DEF RunStart
      <4>2. status[t] # "none"
        BY <2>4 DEF Before, Numbered, Created
      <4>3. status'[t] \in Terminal
        BY <4>1, <4>2, RequestFact DEF Before
      <4>. QED
        BY <4>1, <4>3
    <3>2. CASE ~ (Cancelled(t) \/ status[t] \in Terminal)
      BY <1>7, <3>2 DEF RunStart
    <3>. QED
      BY <3>1, <3>2
  <2>8. Once(pool', pc')
    <3>1. \A u \in Ids : pc'[u] = "submitted" <=> u # t /\ pc[u] = "submitted"
      BY <2>2, <2>7 DEF SlotTypes
    <3>. QED
      BY <2>2, <2>6, <3>1 DEF Once
  <2>. QED
    BY <2>1, <2>3, <2>4, <2>7, <2>8, MoveSlots
<1>8. ASSUME NEW t \in Ids, RunEnds(t) PROVE SlotsKept
  <2>1. /\ pc[t] = "running" /\ pc' = [pc EXCEPT ![t] = "ending"]
        /\ queue' = queue /\ active' = active /\ pool' = pool
    BY <1>8 DEF RunEnds
  <2>2. \A u \in Ids : u # t => row'[u] = row[u]
    BY <1>8 DEF RunEnds, Before, DataTypes
  <2>3. pool' \in Seq(Ids) /\ Once(pool', pc')
    BY <2>1, SlotsBefore, OncePool DEF Before, SlotTypes
  <2>4. status'[t] \in Terminal
    BY <1>8, FinishFact DEF RunEnds, Before
  <2>. QED
    BY <2>1, <2>2, <2>3, <2>4, MoveSlots
<1>9. ASSUME NEW t \in Ids, RunLeaves(t) PROVE SlotsKept
  <2>1. /\ pc[t] = "ending" /\ ReleaseSlot(t, [pc EXCEPT ![t] = "done"])
        /\ UNCHANGED <<kind, session, known, status>>
    BY <1>9 DEF RunLeaves, Leave, taskVars
  <2>2. row'[t] = status'[t] /\ \A u \in Ids : u # t => row'[u] = row[u]
    BY <1>9 DEF RunLeaves, Leave, Before, DataTypes
  <2>3. status'[t] \in Terminal
    BY <2>1 DEF Before, VerdictsHeld
  <2>. QED
    BY <2>1, <2>2, <2>3, LeaveSlots
<1>10. ASSUME NEW p \in Ids, StartGivesUp(p) PROVE SlotsKept
  <2>1. /\ pc[p] = "starting" /\ (p \notin known \/ status[p] \in Terminal)
        /\ UNCHANGED <<kind, session, known, status>>
    BY <1>10 DEF StartGivesUp, taskVars
  <2>2. CASE p \in known
    <3>1. ReleaseSlot(p, [pc EXCEPT ![p] = "done"])
      BY <1>10, <2>2 DEF StartGivesUp
    <3>2. row'[p] = status'[p] /\ \A u \in Ids : u # p => row'[u] = row[u]
      BY <1>10, <2>2 DEF StartGivesUp, Before, DataTypes
    <3>3. status'[p] \in Terminal
      BY <1>10, <2>2 DEF StartGivesUp
    <3>4. pc[p] = "starting"
      BY <1>10 DEF StartGivesUp
    <3>. QED
      BY <2>1, <3>1, <3>2, <3>3, <3>4, LeaveSlots
  <2>3. CASE p \notin known
    <3>1. /\ pc[p] = "starting" /\ pc' = [pc EXCEPT ![p] = "done"]
          /\ queue' = queue /\ active' = active /\ pool' = pool /\ row' = row
      BY <1>10, <2>3 DEF StartGivesUp
    <3>2. active[session[p]] # p /\ p \notin known'
      BY <2>1, <2>3, <3>1 DEF Before, SlotInv, SlotOwned
    <3>3. pool' \in Seq(Ids) /\ Once(pool', pc')
      BY <3>1, SlotsBefore, OncePool DEF Before, SlotTypes
    <3>. QED
      BY <3>1, <3>2, <3>3, MoveSlots
  <2>. QED
    BY <2>2, <2>3
<1>11. ASSUME NEW p \in Ids, StartBatch(p) PROVE SlotsKept
  BY <1>11, StartBatchSlots
<1>12. ASSUME NEW p \in Ids, WatchStops(p) PROVE SlotsKept
  <2>1. /\ pc[p] = "watching" /\ pc' = [pc EXCEPT ![p] = "stopping"]
        /\ queue' = queue /\ active' = active /\ pool' = pool
    BY <1>12 DEF WatchStops
  <2>2. \A u \in Ids : u # p => row'[u] = row[u]
    BY <1>12 DEF WatchStops, Before, DataTypes
  <2>3. pool' \in Seq(Ids) /\ Once(pool', pc')
    BY <2>1, SlotsBefore, OncePool DEF Before, SlotTypes
  <2>. QED
    BY <2>1, <2>2, <2>3, MoveSlots
<1>13. ASSUME NEW p \in Ids, WatchHandsOff(p) PROVE SlotsKept
  <2>1. /\ pc[p] = "watching" /\ pc' = [pc EXCEPT ![p] = "submitted"]
        /\ queue' = queue /\ active' = active /\ pool' = Append(pool, p)
    BY <1>13 DEF WatchHandsOff
  <2>2. \A u \in Ids : u # p => row'[u] = row[u]
    BY <1>13 DEF WatchHandsOff, Before, DataTypes
  <2>3. Once(pool, pc) /\ SlotTypes(queue, active, pool, pc)
    BY SlotsBefore DEF Before
  <2>4. /\ pool \in Seq(Ids) /\ \A i, j \in 1..Len(pool) : pool[i] = pool[j] => i = j
        /\ \A i \in 1..Len(pool) : pool[i] # p
    BY <2>1, <2>3 DEF Once, SlotTypes
  <2>5. /\ pool' \in Seq(Ids) /\ \A i, j \in 1..Len(pool') : pool'[i] = pool'[j] => i = j
        /\ \A u \in Ids : (\E i \in 1..Len(pool') : pool'[i] = u)
                             <=> u = p \/ \E i \in 1..Len(pool) : pool[i] = u
    BY <2>1, <2>4, AppendFact
  <2>6. \A u \in Ids : pc'[u] = "submitted" <=> u = p \/ pc[u] = "submitted"
    BY <2>1, <2>3 DEF SlotTypes
  <2>7. Once(pool', pc')
    BY <2>3, <2>5, <2>6 DEF Once
  <2>. QED
    BY <2>1, <2>2, <2>5, <2>7, MoveSlots
<1>14. ASSUME NEW p \in Ids, WatchFails(p) PROVE SlotsKept
  <2>1. /\ pc[p] = "watching" /\ pc' = [pc EXCEPT ![p] = "ended"]
        /\ queue' = queue /\ active' = active /\ pool' = pool
    BY <1>14 DEF WatchFails
  <2>2. \A u \in Ids : u # p => row'[u] = row[u]
    BY <1>14 DEF WatchFails, Before, DataTypes
  <2>3. pool' \in Seq(Ids) /\ Once(pool', pc')
    BY <2>1, SlotsBefore, OncePool DEF Before, SlotTypes
  <2>4. status'[p] \in Terminal
    BY <1>14, FinishFact DEF WatchFails, Before
  <2>. QED
    BY <2>1, <2>2, <2>3, <2>4, MoveSlots
<1>15. ASSUME NEW p \in Ids, WatchMerges(p) PROVE SlotsKept
  <2>1. /\ pc[p] = "watching" /\ pc' = [pc EXCEPT ![p] = "merging"]
        /\ queue' = queue /\ active' = active /\ pool' = pool
    BY <1>15 DEF WatchMerges
  <2>2. \A u \in Ids : u # p => row'[u] = row[u]
    BY <1>15 DEF WatchMerges, Before, DataTypes
  <2>3. pool' \in Seq(Ids) /\ Once(pool', pc')
    BY <2>1, SlotsBefore, OncePool DEF Before, SlotTypes
  <2>. QED
    BY <2>1, <2>2, <2>3, MoveSlots
<1>16. ASSUME NEW p \in Ids, WatchCancels(p) PROVE SlotsKept
  <2>1. UNCHANGED slotVars /\ row' = row
    BY <1>16 DEF WatchCancels
  <2>. QED
    BY <2>1, SameSlots
<1>17. ASSUME NEW p \in Ids, WatchStopped(p) PROVE SlotsKept
  <2>1. /\ pc[p] = "stopping" /\ pc' = [pc EXCEPT ![p] = "ended"]
        /\ queue' = queue /\ active' = active /\ pool' = pool
    BY <1>17 DEF WatchStopped
  <2>2. \A u \in Ids : u # p => row'[u] = row[u]
    BY <1>17 DEF WatchStopped, Before, DataTypes
  <2>3. pool' \in Seq(Ids) /\ Once(pool', pc')
    BY <2>1, SlotsBefore, OncePool DEF Before, SlotTypes
  <2>4. status'[p] \in Terminal
    BY <1>17, FinishFact DEF WatchStopped, Before
  <2>. QED
    BY <2>1, <2>2, <2>3, <2>4, MoveSlots
<1>18. ASSUME NEW p \in Ids, MergeEnds(p) PROVE SlotsKept
  <2>1. /\ pc[p] = "merging" /\ pc' = [pc EXCEPT ![p] = "ended"]
        /\ queue' = queue /\ active' = active /\ pool' = pool
    BY <1>18 DEF MergeEnds
  <2>2. \A u \in Ids : u # p => row'[u] = row[u]
    BY <1>18 DEF MergeEnds, Before, DataTypes
  <2>3. pool' \in Seq(Ids) /\ Once(pool', pc')
    BY <2>1, SlotsBefore, OncePool DEF Before, SlotTypes
  <2>4. status'[p] \in Terminal
    BY <1>18, FinishFact DEF MergeEnds, Before
  <2>. QED
    BY <2>1, <2>2, <2>3, <2>4, MoveSlots
<1>19. ASSUME NEW p \in Ids, WatchLeaves(p) PROVE SlotsKept
  <2>1. /\ pc[p] = "ended" /\ ReleaseSlot(p, [pc EXCEPT ![p] = "done"])
        /\ UNCHANGED <<kind, session, known, status>>
    BY <1>19 DEF WatchLeaves, Leave, taskVars
  <2>2. row'[p] = status'[p] /\ \A u \in Ids : u # p => row'[u] = row[u]
    BY <1>19 DEF WatchLeaves, Leave, Before, DataTypes
  <2>3. status'[p] \in Terminal
    BY <2>1 DEF Before, VerdictsHeld
  <2>. QED
    BY <2>1, <2>2, <2>3, LeaveSlots
<1>20. ASSUME NEW who \in Callers, NEW t \in Ids, CancelDrops(who, t) PROVE SlotsKept
  BY <1>20, DropSlots
<1>21. ASSUME NEW t \in Ids, CancelChild(t) PROVE SlotsKept
  <2>1. UNCHANGED slotVars /\ row' = row
    BY <1>21 DEF CancelChild
  <2>. QED
    BY <2>1, SameSlots
<1>. QED
  BY <1>1, <1>2, <1>3, <1>4, <1>5, <1>6, <1>7, <1>8, <1>9, <1>10, <1>11,
     <1>12, <1>13, <1>14, <1>15, <1>16, <1>17, <1>18, <1>19, <1>20, <1>21
     DEF Next, User, System, Builder, Runner, Batch, Canceller

-----------------------------------------------------------------------------
(* What a step does to batches and children *)

\* Nothing is created or linked; at most a batch without a child still to be
\* linked is built.
Quiet ==
    /\ UNCHANGED <<kind, session, kids, fresh>>
    /\ building' \subseteq building /\ \A p \in building \ building' : fresh[p] = 0

Creates(t, k, s) ==
    /\ t = NextId /\ t \notin Created
    /\ kind' = [kind EXCEPT ![t] = k] /\ session' = [session EXCEPT ![t] = s]
    /\ status'[t] # "none" /\ kids' = kids

NewTask(t) ==
    \E s \in Sessions : Creates(t, "task", s) /\ UNCHANGED <<fresh, building>>

NewBatch(t) ==
    /\ \E s \in Sessions, k \in Batches : Creates(t, k, s)
    /\ fresh' = fresh /\ building' = building \cup {t}

NewChild(p, c) ==
    /\ Creates(c, "child", c) /\ p \in building /\ fresh[p] = 0
    /\ fresh' = [fresh EXCEPT ![p] = c] /\ building' = building

NewLink(p) ==
    /\ UNCHANGED <<kind, session, building>> /\ p \in building /\ fresh[p] # 0
    /\ kids' = [kids EXCEPT ![p] = @ \cup {fresh[p]}]
    /\ fresh' = [fresh EXCEPT ![p] = 0]

Links ==
    \/ Quiet
    \/ \E t \in Ids : NewTask(t) \/ NewBatch(t) \/ NewLink(t) \/ \E c \in Ids : NewChild(t, c)

\* A task that does not exist has no status.
NoneStays ==
    \A t \in Ids : status[t] = "none" /\ kind'[t] = "none" => status'[t] = "none"

\* Every step creates the next id or none, and links children to one parent.
LEMMA LinksStep ==
    ASSUME Before, Next
    PROVE  Links /\ NoneStays
<1>1. ASSUME NEW t \in Ids, Cancel(t) PROVE Links /\ NoneStays
  <2>1. Links
    BY <1>1 DEF Cancel, Links, Quiet, taskVars, buildVars
  <2>2. NoneStays
    <3>1. RequestCancel({t}) /\ {t} \in SUBSET Ids
      BY <1>1 DEF Cancel
    <3>. QED
      BY <3>1, RequestFact, StatusFact DEF Before, NoneStays
  <2>. QED
    BY <2>1, <2>2
<1>2. ASSUME NEW t \in Ids, NEW s \in Sessions, Submit(t, s) PROVE Links /\ NoneStays
  <2>0. t = NextId /\ t \notin Created /\ kind'[t] # "none"
    BY <1>2, NextIdFact DEF Submit, Create, Created, Before, DataTypes, Batches
  <2>3. /\ \A u \in Ids : u # t => status'[u] = status[u]
        /\ status'[t] # "none"
    <3>. DEFINE st == [status EXCEPT ![t] = "queued"]
    <3>1. /\ st \in [Ids -> {"none"} \cup Active \cup Terminal] /\ QueueTask(t, s, st, Kept)
          /\ \A u \in Ids : st[u] = IF u = t THEN "queued" ELSE status[u]
      BY <1>2, StatusFact DEF Submit, Before, DataTypes
    <3>2. Kept \in [Ids -> {"none"} \cup Active \cup Terminal]
      BY KeptFact DEF Before
    <3>. HIDE DEF st
    <3>3. /\ \A u \in Ids : u # t => status'[u] = st[u]
          /\ status'[t] = st[t] \/ (st[t] \notin Terminal /\ status'[t] \in Terminal)
      BY <3>1, <3>2, QueueFact DEF Before
    <3>. QED
      BY <3>1, <3>3, StatusFact
  <2>1. Links
    <3>1. Creates(t, "task", s) /\ UNCHANGED <<fresh, building>>
      BY <1>2, <2>0, <2>3 DEF Submit, Create, Creates, buildVars
    <3>. QED
      BY <3>1 DEF Links, NewTask
  <2>2. NoneStays
    BY <2>0, <2>3 DEF NoneStays
  <2>. QED
    BY <2>1, <2>2
<1>3. ASSUME NEW t \in Ids, NEW s \in Sessions, NEW mode \in Batches, NEW k \in 1..MaxKids,
             BatchOpen(t, s, mode, k) PROVE Links /\ NoneStays
  <2>0. t = NextId /\ t \notin Created /\ kind'[t] # "none"
    BY <1>3, NextIdFact DEF BatchOpen, Create, Created, Before, DataTypes, Batches
  <2>1. Links
    <3>1. Creates(t, mode, s) /\ fresh' = fresh /\ building' = building \cup {t}
      BY <1>3, <2>0 DEF BatchOpen, Create, Creates, Before, DataTypes
    <3>. QED
      BY <3>1 DEF Links, NewBatch
  <2>2. NoneStays
    BY <1>3, <2>0 DEF BatchOpen, NoneStays, Before, DataTypes
  <2>. QED
    BY <2>1, <2>2
<1>4. ASSUME NEW p \in Ids, BatchLink(p) PROVE Links /\ NoneStays
  <2>1. Links
    <3>1. NewLink(p)
      BY <1>4 DEF BatchLink, NewLink
    <3>. QED
      BY <3>1 DEF Links
  <2>2. NoneStays
    BY <1>4 DEF BatchLink, NoneStays
  <2>. QED
    BY <2>1, <2>2
<1>5. ASSUME NEW p \in Ids, BatchQueue(p) PROVE Links /\ NoneStays
  <2>1. Links
    BY <1>5 DEF BatchQueue, Links, Quiet, taskVars, buildVars
  <2>2. NoneStays
    <3>1. \A u \in Ids : u # p => status'[u] = status[u]
      BY <1>5, QueueFact DEF BatchQueue, Before, DataTypes
    <3>2. kind[p] # "none" /\ kind' = kind
      BY <1>5 DEF BatchQueue, Before, BuildWaits, Batches, taskVars
    <3>. QED
      BY <3>1, <3>2 DEF NoneStays
  <2>. QED
    BY <2>1, <2>2
<1>6. ASSUME NEW p \in Ids, NEW c \in Ids, BatchChild(p, c) PROVE Links /\ NoneStays
  <2>0. c = NextId /\ c \notin Created /\ kind'[c] # "none"
    BY <1>6, NextIdFact DEF BatchChild, Create, Created, Before, DataTypes, Batches
  <2>1. Links
    <3>1. NewChild(p, c)
      BY <1>6, <2>0 DEF BatchChild, Create, Creates, NewChild, Before, DataTypes
    <3>. QED
      BY <3>1 DEF Links
  <2>2. NoneStays
    BY <1>6, <2>0 DEF BatchChild, NoneStays, Before, DataTypes
  <2>. QED
    BY <2>1, <2>2
<1>7. ASSUME NEW t \in Ids, RunStart(t) PROVE Links /\ NoneStays
  <2>1. Links
    BY <1>7 DEF RunStart, Links, Quiet, taskVars, buildVars
  <2>2. NoneStays
    <3>1. CASE RequestCancel({t})
      BY <3>1, RequestFact, StatusFact DEF Before, NoneStays
    <3>2. CASE ~ (Cancelled(t) \/ status[t] \in Terminal)
      <4>1. \A u \in Ids : u # t => status'[u] = status[u]
        BY <1>7, <3>2 DEF RunStart, Before, DataTypes
      <4>2. Once(pool, pc) /\ pool \in Seq(Ids) /\ pool # <<>> /\ t = Head(pool)
        BY <1>7, SlotsBefore DEF RunStart, Before, SlotTypes
      <4>3. pool[1] = t /\ 1 \in 1..Len(pool)
        BY <4>2
      <4>4. pc[t] = "submitted"
        BY <4>2, <4>3 DEF Once
      <4>5. kind[t] # "none" /\ kind' = kind
        BY <1>7, <4>4 DEF RunStart, Before, Numbered, Created, taskVars
      <4>. QED
        BY <4>1, <4>5 DEF NoneStays
    <3>. QED
      BY <1>7, <3>1, <3>2 DEF RunStart
  <2>. QED
    BY <2>1, <2>2
<1>8. ASSUME NEW t \in Ids, RunEnds(t) PROVE Links /\ NoneStays
  <2>1. Links
    BY <1>8 DEF RunEnds, Links, Quiet, taskVars, buildVars
  <2>2. NoneStays
    <3>1. \A u \in Ids : u # t => status'[u] = status[u]
      BY <1>8, FinishFact DEF RunEnds, Before
    <3>2. kind[t] # "none" /\ kind'[t] = kind[t]
      BY <1>8 DEF RunEnds, Before, Numbered, Created, taskVars
    <3>. QED
      BY <3>1, <3>2 DEF NoneStays
  <2>. QED
    BY <2>1, <2>2
<1>9. ASSUME NEW t \in Ids, RunLeaves(t) PROVE Links /\ NoneStays
  <2>1. Links
    BY <1>9 DEF RunLeaves, Leave, Links, Quiet, taskVars, buildVars
  <2>2. NoneStays
    BY <1>9 DEF RunLeaves, Leave, NoneStays
  <2>. QED
    BY <2>1, <2>2
<1>10. ASSUME NEW p \in Ids, StartGivesUp(p) PROVE Links /\ NoneStays
  <2>1. Links
    BY <1>10 DEF StartGivesUp, Links, Quiet, taskVars, buildVars
  <2>2. NoneStays
    BY <1>10 DEF StartGivesUp, NoneStays
  <2>. QED
    BY <2>1, <2>2
<1>11. ASSUME NEW p \in Ids, StartBatch(p) PROVE Links /\ NoneStays
  <2>1. Links
    BY <1>11 DEF StartBatch, Links, Quiet, taskVars, buildVars
  <2>2. NoneStays
    <3>1. kind[p] # "none" /\ kind' = kind
      BY <1>11 DEF StartBatch, Before, Numbered, Created, taskVars
    <3>. QED
      BY <1>11, <3>1 DEF StartBatch, Before, DataTypes, NoneStays
  <2>. QED
    BY <2>1, <2>2
<1>12. ASSUME NEW p \in Ids, WatchStops(p) PROVE Links /\ NoneStays
  <2>1. Links
    BY <1>12 DEF WatchStops, Links, Quiet, taskVars, buildVars
  <2>2. NoneStays
    BY <1>12 DEF WatchStops, NoneStays
  <2>. QED
    BY <2>1, <2>2
<1>13. ASSUME NEW p \in Ids, WatchHandsOff(p) PROVE Links /\ NoneStays
  <2>1. Links
    BY <1>13 DEF WatchHandsOff, Links, Quiet, taskVars, buildVars
  <2>2. NoneStays
    BY <1>13 DEF WatchHandsOff, NoneStays
  <2>. QED
    BY <2>1, <2>2
<1>14. ASSUME NEW p \in Ids, WatchFails(p) PROVE Links /\ NoneStays
  <2>1. Links
    BY <1>14 DEF WatchFails, Links, Quiet, taskVars, buildVars
  <2>2. NoneStays
    <3>1. \A u \in Ids : u # p => status'[u] = status[u]
      BY <1>14, FinishFact DEF WatchFails, Before
    <3>2. kind[p] # "none" /\ kind'[p] = kind[p]
      BY <1>14 DEF WatchFails, Before, Numbered, Created, taskVars
    <3>. QED
      BY <3>1, <3>2 DEF NoneStays
  <2>. QED
    BY <2>1, <2>2
<1>15. ASSUME NEW p \in Ids, WatchMerges(p) PROVE Links /\ NoneStays
  <2>1. Links
    BY <1>15 DEF WatchMerges, Links, Quiet, taskVars, buildVars
  <2>2. NoneStays
    BY <1>15 DEF WatchMerges, NoneStays
  <2>. QED
    BY <2>1, <2>2
<1>16. ASSUME NEW p \in Ids, WatchCancels(p) PROVE Links /\ NoneStays
  <2>1. Links
    BY <1>16 DEF WatchCancels, Links, Quiet, taskVars, buildVars
  <2>2. NoneStays
    <3>. DEFINE c == First(stopLeft[p])
    <3>1. RequestCancel({c} \cap known) /\ {c} \cap known \in SUBSET Ids
      BY <1>16 DEF WatchCancels, Before, DataTypes, Created
    <3>. HIDE DEF c
    <3>. QED
      BY <3>1, RequestFact, StatusFact DEF Before, NoneStays
  <2>. QED
    BY <2>1, <2>2
<1>17. ASSUME NEW p \in Ids, WatchStopped(p) PROVE Links /\ NoneStays
  <2>1. Links
    BY <1>17 DEF WatchStopped, Links, Quiet, taskVars, buildVars
  <2>2. NoneStays
    <3>1. \A u \in Ids : u # p => status'[u] = status[u]
      BY <1>17, FinishFact DEF WatchStopped, Before
    <3>2. kind[p] # "none" /\ kind'[p] = kind[p]
      BY <1>17 DEF WatchStopped, Before, Numbered, Created, taskVars
    <3>. QED
      BY <3>1, <3>2 DEF NoneStays
  <2>. QED
    BY <2>1, <2>2
<1>18. ASSUME NEW p \in Ids, MergeEnds(p) PROVE Links /\ NoneStays
  <2>1. Links
    BY <1>18 DEF MergeEnds, Links, Quiet, taskVars, buildVars
  <2>2. NoneStays
    <3>1. \A u \in Ids : u # p => status'[u] = status[u]
      BY <1>18, FinishFact DEF MergeEnds, Before
    <3>2. kind[p] # "none" /\ kind'[p] = kind[p]
      BY <1>18 DEF MergeEnds, Before, Numbered, Created, taskVars
    <3>. QED
      BY <3>1, <3>2 DEF NoneStays
  <2>. QED
    BY <2>1, <2>2
<1>19. ASSUME NEW p \in Ids, WatchLeaves(p) PROVE Links /\ NoneStays
  <2>1. Links
    BY <1>19 DEF WatchLeaves, Leave, Links, Quiet, taskVars, buildVars
  <2>2. NoneStays
    BY <1>19 DEF WatchLeaves, Leave, NoneStays
  <2>. QED
    BY <2>1, <2>2
<1>20. ASSUME NEW who \in Callers, NEW t \in Ids, CancelDrops(who, t) PROVE Links /\ NoneStays
  <2>1. Links
    BY <1>20 DEF CancelDrops, Links, Quiet, taskVars, buildVars
  <2>2. NoneStays
    BY <1>20 DEF CancelDrops, NoneStays
  <2>. QED
    BY <2>1, <2>2
<1>21. ASSUME NEW t \in Ids, CancelChild(t) PROVE Links /\ NoneStays
  <2>1. Links
    BY <1>21 DEF CancelChild, Links, Quiet, taskVars, buildVars
  <2>2. NoneStays
    <3>. DEFINE c == First(kidsLeft[t])
    <3>1. RequestCancel({c} \cap known) /\ {c} \cap known \in SUBSET Ids
      BY <1>21 DEF CancelChild, Before, DataTypes, Created
    <3>. HIDE DEF c
    <3>. QED
      BY <3>1, RequestFact, StatusFact DEF Before, NoneStays
  <2>. QED
    BY <2>1, <2>2
<1>. QED
  BY <1>1, <1>2, <1>3, <1>4, <1>5, <1>6, <1>7, <1>8, <1>9, <1>10, <1>11,
     <1>12, <1>13, <1>14, <1>15, <1>16, <1>17, <1>18, <1>19, <1>20, <1>21
     DEF Next, User, System, Builder, Runner, Batch, Canceller

-----------------------------------------------------------------------------
(* The invariant *)

\* No step takes a task back or gives it another kind or session.
LEMMA CreatedGrows ==
    ASSUME Before, Links
    PROVE  /\ Created \subseteq Created'
           /\ \A t \in Ids : t \in Created => kind'[t] = kind[t] /\ session'[t] = session[t]
BY DEF Before, Frame, KeepsTasks, Created

\* Every step keeps Numbered.
LEMMA NumberedStep ==
    ASSUME Before, Links, NoneStays, Threads
    PROVE  Numbered'
<1>1. \E m \in 0..N : Created' = 1..m
  <2>1. CASE kind' = kind
    BY <2>1 DEF Before, Numbered, Created
  <2>2. ASSUME NEW t \in Ids, NEW k \in {"task", "child"} \cup Batches, NEW s, Creates(t, k, s)
        PROVE  \E m \in 0..N : Created' = 1..m
    <3>1. Created' = Created \cup {t}
      BY <2>2 DEF Creates, Created, Before, DataTypes, Batches
    <3>2. NextId = t /\ Created \cup {NextId} = 1..NextId
      BY <2>2, NextIdFact DEF Creates, Before
    <3>. QED
      BY <3>1, <3>2, NumberFact
  <2>. QED
    BY <2>1, <2>2 DEF Links, Quiet, NewTask, NewBatch, NewChild, NewLink
<1>2. \A t \in Ids : kind'[t] = "none" <=> status'[t] = "none"
  <2>1. ASSUME NEW t \in Ids, kind'[t] = "none" PROVE status'[t] = "none"
    <3>1. kind[t] = "none"
      BY <2>1, CreatedGrows DEF Created
    <3>. QED
      BY <2>1, <3>1 DEF Before, Numbered, NoneStays
  <2>2. ASSUME NEW t \in Ids, status'[t] = "none" PROVE kind'[t] = "none"
    <3>1. status[t] = "none" /\ kind[t] = "none"
      BY <2>2 DEF Before, Frame, KeepsVerdicts, Numbered
    <3>2. \A k, s : ~ Creates(t, k, s)
      BY <2>2 DEF Creates
    <3>3. ASSUME NEW u \in Ids, NEW k, NEW s, Creates(u, k, s) PROVE kind'[t] = kind[t]
      <4>1. u # t /\ kind' = [kind EXCEPT ![u] = k]
        BY <3>2, <3>3 DEF Creates
      <4>. QED
        BY <4>1 DEF Before, DataTypes
    <3>. QED
      BY <3>1, <3>3 DEF Links, Quiet, NewTask, NewBatch, NewChild, NewLink
  <2>. QED
    BY <2>1, <2>2
<1>3. ASSUME NEW t \in Ids \ Created' PROVE pc'[t] = "none" /\ row'[t] = "none"
  <2>1. t \notin Created /\ kind'[t] = "none" /\ status[t] = "none" /\ status'[t] = "none"
    BY <1>2, CreatedGrows DEF Created, Before, Numbered
  <2>2. pc[t] = "none" /\ row[t] = "none"
    BY <2>1 DEF Before, Numbered
  <2>3. row'[t] = "none"
    BY <2>1, <2>2 DEF Before, Frame, KeepsRows
  <2>4. pc'[t] = "none"
    BY <2>1, <2>2 DEF Threads, Woken, WokenChild, GoesOn, Ends, Leaves, Batches
  <2>. QED
    BY <2>3, <2>4
<1>. QED
  BY <1>1, <1>2, <1>3 DEF Numbered

\* Every step keeps OwnSessions.
LEMMA OwnSessionsStep ==
    ASSUME Before, Links
    PROVE  OwnSessions'
<1>. SUFFICES ASSUME NEW t \in Ids
              PROVE  IF kind'[t] \in {"none", "child"} THEN session'[t] = t
                                                       ELSE session'[t] \in Sessions
  BY DEF OwnSessions
<1>1. CASE kind'[t] = kind[t] /\ session'[t] = session[t]
  BY <1>1 DEF Before, OwnSessions
<1>2. CASE \E k \in {"task"} \cup Batches, s \in Sessions : Creates(t, k, s)
  BY <1>2 DEF Creates, Before, DataTypes, Batches
<1>3. CASE Creates(t, "child", t)
  BY <1>3 DEF Creates, Before, DataTypes
<1>4. ASSUME NEW u \in Ids, NEW k, NEW s, Creates(u, k, s), u # t
      PROVE  kind'[t] = kind[t] /\ session'[t] = session[t]
  BY <1>4 DEF Creates, Before, DataTypes
<1>. QED
  BY <1>1, <1>2, <1>3, <1>4 DEF Links, Quiet, NewTask, NewBatch, NewChild, NewLink

\* A child is not woken from a queue.
LEMMA ChildThread ==
    ASSUME Before, Threads, NEW c \in Ids, kind'[c] = "child", pc[c] = "none",
           \A p \in Ids : c \in kids[p] /\ pc[p] = "starting" => pc'[p] # "watching"
    PROVE  pc'[c] = "none"
BY DEF Threads, Woken, WokenChild, GoesOn, Ends, Leaves, Batches

\* Every step keeps BuildWaits.
LEMMA BuildWaitsStep ==
    ASSUME Before, Links, Threads
    PROVE  BuildWaits'
<1>1. ASSUME NEW p \in building' PROVE kind'[p] \in Batches /\ pc'[p] = "none"
  <2>1. p \in Ids /\ pc[p] = "none" /\ kind'[p] \in Batches /\ (p \in Created => kind[p] \in Batches)
    <3>1. CASE p \in building
      <4>1. kind[p] \in Batches /\ pc[p] = "none" /\ p \in Ids
        BY <3>1 DEF Before, BuildWaits, DataTypes
      <4>. QED
        BY <4>1, CreatedGrows DEF Created, Batches
    <3>2. CASE p \notin building
      <4>1. NewBatch(p)
        BY <1>1, <3>2 DEF Links, Quiet, NewTask, NewBatch, NewChild, NewLink
      <4>2. p \in Ids
        BY <1>1 DEF Before, DataTypes
      <4>3. p \notin Created /\ kind'[p] \in Batches
        BY <4>1, <4>2 DEF NewBatch, Creates, Before, DataTypes
      <4>. QED
        BY <4>2, <4>3 DEF Before, Numbered
    <3>. QED
      BY <3>1, <3>2
  <2>2. ~ WokenChild(p)
    BY <2>1 DEF WokenChild, Before, KidsWait, Batches
  <2>. QED
    BY <1>1, <2>1, <2>2 DEF Threads, Woken, GoesOn, Ends, Leaves
<1>2. ASSUME NEW p \in Ids, fresh'[p] # 0
      PROVE  p \in building' /\ kind'[fresh'[p]] = "child" /\ pc'[fresh'[p]] = "none"
  <2>. DEFINE c == fresh'[p]
  <2>1. CASE fresh[p] = c
    <3>1. p \in building /\ kind[c] = "child" /\ pc[c] = "none" /\ c \in Ids
      BY <1>2, <2>1 DEF Before, BuildWaits, DataTypes, Ids
    <3>2. p \in building'
      BY <1>2, <2>1, <3>1 DEF Links, Quiet, NewTask, NewBatch, NewChild, NewLink
    <3>3. kind'[c] = "child"
      BY <3>1, CreatedGrows DEF Created
    <3>4. \A q \in Ids : c \notin kids[q]
      BY <2>1 DEF Before, KidsWait
    <3>. QED
      BY <3>1, <3>2, <3>3, <3>4, ChildThread
  <2>2. CASE fresh[p] # c
    <3>1. NewChild(p, c) /\ c \in Ids
      BY <1>2, <2>2 DEF Links, Quiet, NewTask, NewBatch, NewChild, NewLink, Before, DataTypes
    <3>2. c \notin Created /\ kind'[c] = "child" /\ p \in building'
      BY <3>1 DEF NewChild, Creates, Before, DataTypes
    <3>3. pc[c] = "none"
      BY <3>1, <3>2 DEF Before, Numbered
    <3>4. \A q \in Ids : c \notin kids[q]
      BY <3>1, <3>2 DEF Before, KidsWait, Created
    <3>. QED
      BY <3>1, <3>2, <3>3, <3>4, ChildThread
  <2>. QED
    BY <2>1, <2>2
<1>. QED
  BY <1>1, <1>2 DEF BuildWaits

\* Every step keeps KidsWait.
LEMMA KidsWaitStep ==
    ASSUME Before, Links, Threads
    PROVE  KidsWait'
<1>1. /\ \A p, q \in Ids : /\ p # q => kids[p] \cap kids[q] = {}
                           /\ p # q /\ fresh[p] # 0 => fresh[p] # fresh[q]
                           /\ fresh[p] \notin kids[q]
      /\ \A p \in Ids : \A c \in kids[p] : c \in Ids /\ kind[c] = "child"
      /\ \A p \in Ids : fresh[p] # 0 => fresh[p] \in Ids /\ kind[fresh[p]] = "child"
      /\ kids \in [Ids -> SUBSET Ids] /\ fresh \in [Ids -> 0..N]
  <2>1. kids \in [Ids -> SUBSET Ids] /\ fresh \in [Ids -> 0..N]
    BY DEF Before, DataTypes
  <2>2. \A p, q \in Ids : /\ p # q => kids[p] \cap kids[q] = {}
                          /\ p # q /\ fresh[p] # 0 => fresh[p] # fresh[q]
                          /\ fresh[p] \notin kids[q]
    BY DEF Before, KidsWait
  <2>3. ASSUME NEW p \in Ids, NEW c \in kids[p] PROVE c \in Ids /\ kind[c] = "child"
    BY <2>1 DEF Before, KidsWait
  <2>4. ASSUME NEW p \in Ids, fresh[p] # 0
        PROVE  fresh[p] \in Ids /\ kind[fresh[p]] = "child"
    <3>1. kind[fresh[p]] = "child"
      BY <2>4 DEF Before, BuildWaits
    <3>2. fresh[p] \in 0..N
      BY <2>1
    <3>. QED
      BY <2>4, <3>1, <3>2 DEF Ids
  <2>. QED
    BY <2>1, <2>2, <2>3, <2>4
<1>2. /\ \A p, q \in Ids : /\ p # q => kids'[p] \cap kids'[q] = {}
                           /\ p # q /\ fresh'[p] # 0 => fresh'[p] # fresh'[q]
                           /\ fresh'[p] \notin kids'[q]
      /\ \A p \in Ids : \A c \in kids'[p] :
           c \in kids[p] \/ (p \in building /\ fresh[p] = c /\ c # 0)
  <2>1. CASE kids' = kids /\ fresh' = fresh
    BY <1>1, <2>1
  <2>2. ASSUME NEW p \in Ids, NEW c \in Ids, NewChild(p, c)
        PROVE  <1>2
    <3>1. kids' = kids /\ fresh' = [fresh EXCEPT ![p] = c] /\ kind[c] = "none"
      BY <2>2 DEF NewChild, Creates, Created
    <3>2. \A q \in Ids : c \notin kids[q] /\ fresh[q] # c
      BY <1>1, <3>1, NumberFact
    <3>3. \A q \in Ids : fresh'[q] = IF q = p THEN c ELSE fresh[q]
      BY <1>1, <3>1
    <3>. QED
      BY <1>1, <3>1, <3>2, <3>3
  <2>3. ASSUME NEW p \in Ids, NewLink(p)
        PROVE  <1>2
    <3>1. /\ p \in building /\ fresh[p] # 0
          /\ \A q \in Ids : kids'[q] = IF q = p THEN kids[p] \cup {fresh[p]} ELSE kids[q]
          /\ \A q \in Ids : fresh'[q] = IF q = p THEN 0 ELSE fresh[q]
      BY <1>1, <2>3, NumberFact DEF NewLink
    <3>. QED
      BY <1>1, <3>1, NumberFact
  <2>. QED
    BY <2>1, <2>2, <2>3 DEF Links, Quiet, NewTask, NewBatch, Creates
<1>3. ASSUME NEW p \in Ids, NEW c \in kids'[p]
      PROVE  /\ kind'[c] = "child"
             /\ pc'[p] \in {"none", "starting"} => pc'[c] = "none"
  <2>1. c \in Ids /\ kind[c] = "child"
    BY <1>1, <1>2
  <2>2. kind'[c] = "child"
    BY <2>1, CreatedGrows DEF Created
  <2>3. ASSUME pc'[p] \in {"none", "starting"} PROVE pc'[c] = "none"
    <3>1. pc[p] \in {"none", "starting"}
      BY <2>3 DEF Threads, Woken, WokenChild, GoesOn, Ends, Leaves
    <3>2. pc[c] = "none"
      BY <1>2, <3>1 DEF Before, KidsWait, BuildWaits
    <3>3. \A q \in Ids : c \in kids[q] => q = p
      BY <1>1, <1>2
    <3>. QED
      BY <2>1, <2>2, <2>3, <3>2, <3>3, ChildThread
  <2>. QED
    BY <2>2, <2>3
<1>. QED
  BY <1>2, <1>3 DEF KidsWait

\* Every step keeps verdicts in memory and in the store the same.
LEMMA VerdictsStep ==
    ASSUME Before, Threads, DurableVerdict
    PROVE  VerdictsHeld' /\ DurableVerdict'
<1>1. \A t \in Ids : row'[t] \in Terminal => status'[t] = row'[t]
  BY RowsFollow DEF Before
<1>2. ASSUME NEW t \in Ids, pc'[t] \in {"ending", "ended"} PROVE status'[t] \in Terminal
  BY <1>2 DEF Threads, Woken, WokenChild, GoesOn, Ends, Leaves, Before, VerdictsHeld,
              Frame, KeepsVerdicts
<1>3. ASSUME NEW d \in dropping' PROVE status'[d[2]] \in Terminal
  <2>1. d \in Callers \X Ids
    BY DEF Before, DataTypes
  <2>2. d[2] \in Ids
    BY <2>1
  <2>. QED
    BY <2>2 DEF Before, VerdictsHeld, Frame, KeepsVerdicts, MarksDropped
<1>4. ASSUME NEW t \in known', pc'[t] = "done"
      PROVE  status'[t] \in Terminal /\ row'[t] = status'[t]
  <2>1. t \in Ids
    BY DEF Before, DataTypes, Created
  <2>2. CASE pc[t] = "done"
    <3>1. t \in known
      BY <2>1, <2>2 DEF Before, Frame, KeepsRows, Numbered
    <3>2. status[t] \in Terminal /\ row[t] = status[t]
      BY <2>2, <3>1 DEF DurableVerdict
    <3>. QED
      BY <2>1, <3>2 DEF Before, Frame, KeepsRows, KeepsVerdicts
  <2>3. CASE pc[t] # "done"
    BY <1>4, <2>1, <2>3 DEF Threads, Woken, WokenChild, GoesOn, Ends, Leaves
  <2>. QED
    BY <2>2, <2>3
<1>. QED
  BY <1>1, <1>2, <1>3, <1>4 DEF VerdictsHeld, DurableVerdict

\* The invariants of the slots, of the state after the step.
LEMMA SlotsAfter ==
    ASSUME Slots(queue', active', pool', pc')
    PROVE  SlotTypes(queue, active, pool, pc)' /\ SlotInv'
<1>1. SlotTypes(queue', active', pool', pc')
  BY DEF Slots
<1>2. QueueWaits'
  <2>1. ASSUME NEW s \in Keys, NEW t \in Range(queue'[s])
        PROVE  /\ session'[t] = s /\ pc'[t] = "none"
               /\ kind'[t] \in {"task"} \cup Batches /\ t \notin building'
    BY DEF Range, Slots, Waits
  <2>2. \A s \in Keys : \A i, j \in DOMAIN queue'[s] : queue'[s][i] = queue'[s][j] => i = j
    BY DEF Slots, Waits
  <2>. QED
    BY <2>1, <2>2 DEF QueueWaits, Range
<1>3. SlotOwned'
  BY DEF Slots, Holds, Starts, SlotOwned
<1>4. SlotExclusion' /\ NoDeadSlot'
  BY DEF Slots, Holds, Excludes, SlotExclusion, NoDeadSlot, Executing
<1>5. SubmittedOnce'
  <2>1. Once(pool', pc')
    BY DEF Slots
  <2>2. \A t \in Ids : t \in Range(pool') <=> \E i \in 1..Len(pool') : pool'[i] = t
    BY <1>1 DEF Range, SlotTypes
  <2>. QED
    BY <2>1, <2>2 DEF Once, SubmittedOnce, Range
<1>. QED
  BY <1>1, <1>2, <1>3, <1>4, <1>5 DEF SlotInv, SlotTypes

-----------------------------------------------------------------------------
(* The invariant *)

\* No task exists at first, so nothing is queued, held or submitted.
LEMMA InvInit == Init => SchedulerInv
<1>. SUFFICES ASSUME Init PROVE SchedulerInv
  OBVIOUS
<1>. USE NumberFact, KeyFact
<1>1. Created = {} /\ {} = 1..0
  BY DEF Init, Created
<1>2. DataTypes
  <2>1. /\ session \in [Ids -> Keys] /\ kids \in [Ids -> SUBSET Ids]
        /\ kidsLeft \in [Ids -> SUBSET Ids] /\ stopLeft \in [Ids -> SUBSET Ids]
    BY DEF Init
  <2>2. /\ toAdd \in [Ids -> 0..MaxKids] /\ cancels \in 0..MaxCancels
        /\ parent \in [Ids -> 0..N] /\ fresh \in [Ids -> 0..N]
    BY BoundsAssumption DEF Init
  <2>. QED
    BY <2>1, <2>2 DEF Init, DataTypes
<1>3. SlotTypes(queue, active, pool, pc)
  <2>1. << >> \in Seq(Ids)
    OBVIOUS
  <2>. QED
    BY <2>1 DEF Init, SlotTypes, Pcs
<1>4. Numbered
  <2>1. 0 \in 0..N
    OBVIOUS
  <2>. QED
    BY <1>1, <2>1 DEF Init, Numbered
<1>5. OwnSessions
  BY DEF Init, OwnSessions
<1>6. QueueWaits
  BY DEF Init, QueueWaits, Range
<1>7. BuildWaits /\ KidsWait
  BY DEF Init, BuildWaits, KidsWait
<1>8. SlotOwned /\ VerdictsHeld
  BY DEF Init, SlotOwned, VerdictsHeld, Terminal
<1>9. SlotExclusion /\ NoDeadSlot
  BY DEF Init, SlotExclusion, NoDeadSlot, Executing
<1>10. SubmittedOnce /\ DurableVerdict
  BY DEF Init, SubmittedOnce, DurableVerdict, Range
<1>. QED
  BY <1>2, <1>3, <1>4, <1>5, <1>6, <1>7, <1>8, <1>9, <1>10, TypeSplit DEF SchedulerInv

\* What the invariant gives the lemmas above.
LEMMA InvBefore ==
    ASSUME SchedulerInv, Next
    PROVE  Before
<1>1. DataTypes /\ SlotTypes(queue, active, pool, pc) /\ Numbered
  BY TypeSplit DEF SchedulerInv
<1>2. DataTypes' /\ Frame
  BY <1>1, TypeStep, FrameStep
<1>. QED
  BY <1>1, <1>2 DEF SchedulerInv, Before, SlotInv

\* Each part is kept by every step, because of the others.
LEMMA InvStep == SchedulerInv /\ [Next]_vars => SchedulerInv'
<1>1. ASSUME SchedulerInv, Next PROVE SchedulerInv'
  <2>1. Before
    BY <1>1, InvBefore
  <2>2. Slots(queue', active', pool', pc') /\ Threads /\ Links /\ NoneStays
    BY <1>1, <2>1, SlotsStep, LinksStep DEF SlotsKept
  <2>3. SlotTypes(queue, active, pool, pc)' /\ SlotInv'
    BY <2>2, SlotsAfter
  <2>4. Numbered' /\ OwnSessions' /\ BuildWaits' /\ KidsWait'
    BY <2>1, <2>2, NumberedStep, OwnSessionsStep, BuildWaitsStep, KidsWaitStep
  <2>5. VerdictsHeld' /\ DurableVerdict'
    <3>1. DurableVerdict
      BY <1>1 DEF SchedulerInv
    <3>. QED
      BY <2>1, <2>2, <3>1, VerdictsStep
  <2>6. TypeOK'
    BY <2>1, <2>3, TypeSplit DEF Before, TypeOK, DataTypes, SlotTypes
  <2>. QED
    BY <2>3, <2>4, <2>5, <2>6 DEF SchedulerInv, SlotInv
<1>2. ASSUME SchedulerInv, UNCHANGED vars PROVE SchedulerInv'
  <2>1. /\ UNCHANGED <<kind, session, parent, kids>> /\ UNCHANGED <<status, token, row, known>>
        /\ UNCHANGED <<queue, active, pool, pc>> /\ UNCHANGED <<pending, toAdd, fresh, building>>
        /\ UNCHANGED <<kidsLeft, stopLeft, dropping, cancels>>
    BY <1>2 DEF vars, taskVars, stateVars, slotVars, buildVars, cancelVars
  <2>2. TypeOK' /\ Numbered' /\ OwnSessions'
    BY <1>2, <2>1 DEF SchedulerInv, TypeOK, Numbered, OwnSessions, Created
  <2>3. QueueWaits' /\ BuildWaits' /\ KidsWait'
    BY <1>2, <2>1 DEF SchedulerInv, QueueWaits, BuildWaits, KidsWait
  <2>4. SlotOwned' /\ VerdictsHeld' /\ SlotExclusion' /\ NoDeadSlot'
    BY <1>2, <2>1 DEF SchedulerInv, SlotOwned, VerdictsHeld, SlotExclusion, NoDeadSlot, Executing
  <2>5. SubmittedOnce' /\ DurableVerdict'
    BY <1>2, <2>1 DEF SchedulerInv, SubmittedOnce, DurableVerdict
  <2>. QED
    BY <2>2, <2>3, <2>4, <2>5 DEF SchedulerInv
<1>. QED
  BY <1>1, <1>2

\* Whatever is submitted, cancelled, pruned or finished, in whatever order, the
\* tables of TaskManager stay consistent with each other.
THEOREM SchedulerInvariant == Spec => []SchedulerInv
BY InvInit, InvStep, PTL DEF Spec

\* A session works on one task at a time: _schedule_session_locked gives no slot
\* away that a started task without a verdict still needs.
THEOREM OneTaskPerSession == Spec => []SlotExclusion
<1>1. SchedulerInv => SlotExclusion
  BY DEF SchedulerInv
<1>. QED
  BY <1>1, SchedulerInvariant, PTL

\* A session's slot is never held by a task that no thread will release it for.
THEOREM SlotsAreLive == Spec => []NoDeadSlot
<1>1. SchedulerInv => NoDeadSlot
  BY DEF SchedulerInv
<1>. QED
  BY <1>1, SchedulerInvariant, PTL

\* The executor is given a task at most once at a time, though a batch may be
\* cancelled while its watcher hands it off.
THEOREM SubmittedAtMostOnce == Spec => []SubmittedOnce
<1>1. SchedulerInv => SubmittedOnce
  BY DEF SchedulerInv
<1>. QED
  BY <1>1, SchedulerInvariant, PTL

\* Once no thread is left for a task its verdict is in the store.
THEOREM VerdictIsDurable == Spec => []DurableVerdict
<1>1. SchedulerInv => DurableVerdict
  BY DEF SchedulerInv
<1>. QED
  BY <1>1, SchedulerInvariant, PTL

\* No step changes a terminal status, and none starts a task whose thread left.
THEOREM TerminalIsFinal == Spec => FinalIsFinal
<1>. DEFINE Final == \A t \in Ids : /\ status[t] \in Terminal => status'[t] = status[t]
                                    /\ pc[t] = "done" => pc'[t] = "done"
<1>1. ASSUME SchedulerInv, Next PROVE Final
  <2>1. Before
    BY <1>1, InvBefore
  <2>2. Threads
    BY <1>1, <2>1, SlotsStep DEF SlotsKept
  <2>3. \A t \in Ids : status[t] \in Terminal => status'[t] = status[t]
    BY <2>1 DEF Before, Frame, KeepsVerdicts
  <2>4. \A t \in Ids : pc[t] = "done" => pc'[t] = "done"
    BY <2>2 DEF Threads, Woken, WokenChild, GoesOn, Ends, Leaves
  <2>. QED
    BY <2>3, <2>4
<1>2. SchedulerInv /\ [Next]_vars => [Final]_vars
  BY <1>1
<1>. QED
  BY <1>2, SchedulerInvariant, PTL DEF Spec, FinalIsFinal

=============================================================================
