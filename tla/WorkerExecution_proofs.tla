----------------------- MODULE WorkerExecution_proofs -----------------------
(* Proofs about WorkerExecution, for every set of tasks and every bound. *)
EXTENDS WorkerExecution, TLAPS

-----------------------------------------------------------------------------
(* What the updates of the two tables do, so that no later step expands them *)

\* The fields of a row are typed.
LEMMA StatusFact == ASSUME NEW r \in Rows
                    PROVE  r.status \in Statuses /\ r.owned \in BOOLEAN
BY DEF Rows

\* An upsert (Written) replaces the status of one row and keeps the table typed.
LEMMA WrittenFact ==
    ASSUME row \in [Tasks -> Rows], NEW t \in Tasks, NEW s \in Statuses,
           NEW o \in BOOLEAN
    PROVE  /\ Written(t, s, o) \in [Tasks -> Rows]
           /\ \A u \in Tasks : Written(t, s, o)[u].status =
                                  IF u = t THEN s ELSE row[u].status
BY DEF Written, Rows

\* The first row of a task has the status it was admitted with.
LEMMA InsertedFact ==
    ASSUME row \in [Tasks -> Rows], NEW t \in Tasks, NEW s \in Statuses,
           NEW o \in Tasks \cup {NoTask}
    PROVE  /\ Inserted(t, s, o) \in [Tasks -> Rows]
           /\ \A u \in Tasks : Inserted(t, s, o)[u].status =
                                  IF u = t THEN s ELSE row[u].status
BY DEF Inserted, NoRow, Rows

\* Linking a resumed task marks exactly that row interrupted.
LEMMA LinkedFact ==
    ASSUME row \in [Tasks -> Rows], NEW t \in Tasks
    PROVE  /\ Linked(t) \in [Tasks -> Rows]
           /\ \A u \in Tasks : Linked(t)[u].status =
                                  IF u = t THEN "interrupted" ELSE row[u].status
BY DEF Linked, Rows, Statuses, Terminal

\* A granted lease (claim_lease) is typed.
LEMMA GrantedFact ==
    ASSUME lease \in [Tasks -> Leases], NEW t \in Tasks,
           NEW o \in {"launch", "recovery"}
    PROVE  Granted(t, o) \in [Tasks -> Leases]
BY DEF Granted, Leases

\* A released lease (release_lease) is typed.
LEMMA ReleasedFact ==
    ASSUME lease \in [Tasks -> Leases], NEW t \in Tasks,
           NEW o \in {"launch", "recovery"}
    PROVE  Released(t, o) \in [Tasks -> Leases]
BY DEF Released, NoLease, Leases

\* An expired lease is typed.
LEMMA ExpiredFact ==
    ASSUME lease \in [Tasks -> Leases], NEW t \in Tasks
    PROVE  Expired(t) \in [Tasks -> Leases]
BY DEF Expired, Leases

\* _persist_task writes the row of a task that no worker owns, and no other.
LEMMA PersistFact ==
    ASSUME row \in [Tasks -> Rows], NEW t \in Tasks, NEW s \in Statuses,
           Persist(t, s)
    PROVE  /\ row' \in [Tasks -> Rows]
           /\ \A u \in Tasks : row'[u].status =
                IF u = t /\ t \notin detached THEN s ELSE row[u].status
<1>1. CASE t \in detached
  BY <1>1 DEF Persist
<1>2. CASE t \notin detached
  <2>1. row' = Written(t, s, FALSE)
    BY <1>2 DEF Persist, HostWrites
  <2>2. /\ Written(t, s, FALSE) \in [Tasks -> Rows]
        /\ \A u \in Tasks : Written(t, s, FALSE)[u].status =
                               IF u = t THEN s ELSE row[u].status
    BY WrittenFact
  <2>. QED
    BY <1>2, <2>1, <2>2
<1>. QED
  BY <1>1, <1>2

\* _finalize_aborted_snapshot may cancel that row and release that lease.
LEMMA FinalizeFact ==
    ASSUME row \in [Tasks -> Rows], lease \in [Tasks -> Leases],
           NEW t \in Tasks, FinalizeAborted(t)
    PROVE  /\ row' \in [Tasks -> Rows]
           /\ \A u \in Tasks : u # t => row'[u].status = row[u].status
           /\ row'[t].status \in {row[t].status, "cancelled"}
           /\ lease' \in {lease, Released(t, "launch")}
           /\ lease' \in [Tasks -> Leases]
<1>1. row' = row \/ row' = Written(t, "cancelled", TRUE)
  BY DEF FinalizeAborted
<1>2. lease' \in {lease, Released(t, "launch")}
  BY DEF FinalizeAborted
<1>3. /\ Written(t, "cancelled", TRUE) \in [Tasks -> Rows]
      /\ \A u \in Tasks : Written(t, "cancelled", TRUE)[u].status =
                             IF u = t THEN "cancelled" ELSE row[u].status
  <2>1. "cancelled" \in Statuses
    BY DEF Statuses, Terminal
  <2>. QED
    BY <2>1, WrittenFact
<1>4. Released(t, "launch") \in [Tasks -> Leases]
  BY ReleasedFact
<1>. QED
  BY <1>1, <1>2, <1>3, <1>4

-----------------------------------------------------------------------------
(* Every reachable state is well typed *)

\* The thread positions the actions assign are thread positions.
LEMMA PcNames == {"none", "loaded", "settled", "left", "admitted", "launch",
                  "reserved", "spawned", "monitor", "check", "retire",
                  "aborting", "finalize", "cleanup", "settle", "mark",
                  "recover", "link"} \subseteq Pcs
BY DEF Pcs, Idle

\* The worker positions the actions assign are worker positions.
LEMMA WPcNames == {"spawned", "claimed", "ready", "running", "ended",
                  "flushed", "released", "exited"} \subseteq WPcs
BY DEF WPcs

\* The statuses the actions assign are statuses.
LEMMA StatusNames == /\ Terminal \subseteq Statuses
                     /\ {"none", "queued", "running"} \subseteq Statuses
                     /\ Terminal = {"completed", "failed", "cancelled",
                                    "interrupted"}
BY DEF Statuses, Active, Terminal

\* The serving states of the host, by name.
LEMMA HostNames == {"loading", "resuming", "up", "closing"} = Serving
BY DEF Serving

\* The initial state is typed.
LEMMA TypeInit == Init => TypeOK
BY NoTaskAssumption, BoundsAssumption
   DEF Init, TypeOK, Rows, Leases, NoRow, NoLease, Statuses, Active, Terminal,
       Serving, Pcs, Idle, WPcs

\* The absent row is typed.
LEMMA NoRowFact == NoRow \in Rows
BY SMTT(20) DEF NoRow, Rows, Statuses

\* The settled verdict is a status only because of what the monitor may end
\* with, so typing is inductive together with Outcomes.
Typed == TypeOK /\ \A t \in Tasks : Outcomes(t)

\* Every step keeps the types, one case per action.
LEMMA TypeStep == Typed /\ [Next]_vars => TypeOK'
<1> SUFFICES ASSUME TypeOK, \A t \in Tasks : Outcomes(t), [Next]_vars
             PROVE  TypeOK'
  BY DEF Typed
<1> USE PcNames, WPcNames, StatusNames, HostNames, StatusFact
    DEF TypeOK, storeVars, fileVars, mainVars, threadVars, workerVars
<1>1. CASE HostStart
  BY <1>1, NoRowFact, BoundsAssumption DEF HostStart
<1>2. CASE HostCrash
  BY <1>2, NoRowFact DEF HostCrash, HostGone
<1>3. CASE LoadDone
  BY <1>3 DEF LoadDone
<1>4. CASE ResumeDone
  BY <1>4 DEF ResumeDone
<1>5. CASE ShutdownEnd
  BY <1>5, NoRowFact DEF ShutdownEnd, HostGone
<1>6. CASE BeginShutdown
  BY <1>6 DEF BeginShutdown
<1>7. ASSUME NEW t \in Tasks, RunStart(t) PROVE TypeOK'
  <2>1. row' \in [Tasks -> Rows]
    BY <1>7, PersistFact DEF RunStart
  <2>2. rec' \in [Tasks -> Statuses]
    BY SMTT(30), <1>7 DEF RunStart
  <2>3. pc' \in [Tasks -> Pcs]
    BY <1>7 DEF RunStart
  <2>. QED
    BY <1>7, <2>1, <2>2, <2>3 DEF RunStart
<1>8. ASSUME NEW t \in Tasks, Reserve(t) PROVE TypeOK'
  BY <1>8, GrantedFact DEF Reserve
<1>9. ASSUME NEW t \in Tasks, SpawnFails(t) PROVE TypeOK'
  BY <1>9, ReleasedFact DEF SpawnFails
<1>10. ASSUME NEW t \in Tasks, Spawn(t) PROVE TypeOK'
  BY <1>10 DEF Spawn
<1>11. ASSUME NEW t \in Tasks, Register(t) PROVE TypeOK'
  BY <1>11 DEF Register
<1>12. ASSUME NEW t \in Tasks, MonDetach(t) PROVE TypeOK'
  BY <1>12 DEF MonDetach, MonitorEnds
<1>13. ASSUME NEW t \in Tasks, MonRead(t) PROVE TypeOK'
  BY SMTT(30), <1>13 DEF MonRead, MonitorEnds
<1>14. ASSUME NEW t \in Tasks, MonCheck(t) PROVE TypeOK'
  <2>1. PICK v \in Terminal :
          \/ MonitorEnds(t, v)
          \/ pc' = [pc EXCEPT ![t] = "monitor"] /\ outcome' = outcome
    BY <1>14 DEF MonCheck
  <2>2. /\ pc' \in [Tasks -> Pcs]
        /\ outcome' \in [Tasks -> {"none", "detached"} \cup Terminal]
    BY <2>1, SMTT(20) DEF MonitorEnds
  <2>. QED
    BY <1>14, <2>2 DEF MonCheck
<1>15. ASSUME NEW t \in Tasks, Retire(t) PROVE TypeOK'
  <2>1. pc' \in [Tasks -> Pcs]
    BY <1>15 DEF Retire
  <2>2. flag' \in [Tasks -> BOOLEAN]
    BY <1>15 DEF Retire
  <2>. QED
    BY <1>15, <2>1, <2>2 DEF Retire
<1>16. ASSUME NEW t \in Tasks, AbortEnd(t) PROVE TypeOK'
  <2>1. rec' \in [Tasks -> Statuses] /\ pc' \in [Tasks -> Pcs]
    BY <1>16 DEF AbortEnd, LeaveClosing, Verdict
  <2>. QED
    BY <1>16, <2>1, FinalizeFact DEF AbortEnd
<1>17. ASSUME NEW t \in Tasks, Finalize(t) PROVE TypeOK'
  <2>1. rec' \in [Tasks -> Statuses] /\ pc' \in [Tasks -> Pcs]
    BY <1>17 DEF Finalize, LeaveClosing, Verdict
  <2>. QED
    BY <1>17, <2>1, FinalizeFact DEF Finalize
<1>18. ASSUME NEW t \in Tasks, Cleanup(t) PROVE TypeOK'
  BY ZenonT(60), <1>18, ReleasedFact DEF Cleanup
<1>19. ASSUME NEW t \in Tasks, Settle(t) PROVE TypeOK'
  <2>. DEFINE v == Verdict(t)
              o == wpc[t] # "none"
  <2>1. v \in Statuses
    BY <1>19 DEF Settle, Verdict, Outcomes
  <2>2. row' \in {row, Written(t, v, o)}
    BY <1>19 DEF Settle, HostWrites
  <2>3. Written(t, v, o) \in [Tasks -> Rows]
    BY <2>1, WrittenFact
  <2>4. pc' \in [Tasks -> Pcs]
    BY <1>19 DEF Settle
  <2>5. rec' \in [Tasks -> Statuses]
    BY <1>19, <2>1 DEF Settle
  <2>. QED
    BY <1>19, <2>2, <2>3, <2>4, <2>5 DEF Settle
<1>20. ASSUME NEW t \in Tasks, Load(t) PROVE TypeOK'
  <2>1. seen[t].status \in Statuses
    OBVIOUS
  <2>2. rec' \in [Tasks -> Statuses]
    BY <1>20, <2>1 DEF Load
  <2>3. pc' \in [Tasks -> Pcs]
    BY <1>20 DEF Load
  <2>4. detached' \subseteq Tasks
    BY <1>20 DEF Load
  <2>5. adopted' \in [Tasks -> BOOLEAN]
    BY <1>20 DEF Load
  <2>. QED
    BY <1>20, <2>2, <2>3, <2>4, <2>5 DEF Load
<1>21. ASSUME NEW t \in Tasks, MarkInterrupted(t) PROVE TypeOK'
  BY <1>21, WrittenFact DEF MarkInterrupted, HostWrites
<1>22. ASSUME NEW t \in Tasks, ResumeSkip(t) PROVE TypeOK'
  BY <1>22 DEF ResumeSkip
<1>23. ASSUME NEW t \in Tasks, ResumeClaim(t) PROVE TypeOK'
  BY <1>23, GrantedFact DEF ResumeClaim
<1>24. ASSUME NEW t \in Tasks, ResumeFails(t) PROVE TypeOK'
  BY <1>24, ReleasedFact DEF ResumeFails
<1>25. ASSUME NEW t \in Tasks, ResumeLink(t) PROVE TypeOK'
  BY <1>25, LinkedFact, ReleasedFact DEF ResumeLink
<1>26. ASSUME NEW t \in Tasks, ShutdownVisit(t) PROVE TypeOK'
  <2>1. row' \in [Tasks -> Rows]
    BY <1>26, PersistFact DEF ShutdownVisit
  <2>2. rec' \in [Tasks -> Statuses] /\ cancelled' \in [Tasks -> BOOLEAN]
    BY <1>26 DEF ShutdownVisit
  <2>3. pc' \in [Tasks -> Pcs]
    BY <1>26 DEF ShutdownVisit
  <2>. QED
    BY <1>26, <2>1, <2>2, <2>3 DEF ShutdownVisit
<1>27. ASSUME NEW t \in Tasks, Submit(t) PROVE TypeOK'
  BY <1>27, InsertedFact DEF Submit, Admit
<1>28. ASSUME NEW t \in Tasks, SubmitWhileClosing(t) PROVE TypeOK'
  BY <1>28, InsertedFact DEF SubmitWhileClosing
<1>29. ASSUME NEW t \in Tasks, Cancel(t) PROVE TypeOK'
  <2>1. row' \in [Tasks -> Rows]
    BY <1>29, PersistFact DEF Cancel
  <2>. QED
    BY <1>29, <2>1 DEF Cancel
<1>30. ASSUME NEW t \in Tasks, WClaim(t) PROVE TypeOK'
  <2>1. lease' \in {lease, Granted(t, "launch")}
    BY <1>30 DEF WClaim
  <2>2. Granted(t, "launch") \in [Tasks -> Leases]
    BY GrantedFact
  <2>3. wpc' \in [Tasks -> WPcs]
    BY <1>30 DEF WClaim, WorkerGoes
  <2>. QED
    BY <1>30, <2>1, <2>2, <2>3 DEF WClaim
<1>31. ASSUME NEW t \in Tasks, WReadRequest(t) PROVE TypeOK'
  BY <1>31 DEF WReadRequest, WorkerGoes
<1>32. ASSUME NEW t \in Tasks, WStartFails(t) PROVE TypeOK'
  BY <1>32, ReleasedFact DEF WStartFails, WorkerGoes
<1>33. ASSUME NEW t \in Tasks, WFirstFlush(t) PROVE TypeOK'
  BY <1>33, WrittenFact DEF WFirstFlush, WorkerWrites, WorkerGoes
<1>34. ASSUME NEW t \in Tasks, WFirstFlushRefused(t) PROVE TypeOK'
  BY <1>34 DEF WFirstFlushRefused, WorkerGoes
<1>35. ASSUME NEW t \in Tasks, WFlush(t) PROVE TypeOK'
  BY <1>35, WrittenFact DEF WFlush, WorkerWrites, WorkerGoes
<1>36. ASSUME NEW t \in Tasks, WLosesLease(t) PROVE TypeOK'
  BY <1>36 DEF WLosesLease, WorkerGoes
<1>37. ASSUME NEW t \in Tasks, WSeesCancel(t) PROVE TypeOK'
  BY <1>37 DEF WSeesCancel, WorkerGoes
<1>38. ASSUME NEW t \in Tasks, WChatEnds(t) PROVE TypeOK'
  BY <1>38 DEF WChatEnds, WorkerGoes
<1>39. ASSUME NEW t \in Tasks, WFinalFlush(t) PROVE TypeOK'
  <2>1. wstat[t] \in Statuses
    OBVIOUS
  <2>2. row' = Written(t, wstat[t], TRUE)
    BY <1>39 DEF WFinalFlush, WorkerWrites
  <2>3. row' \in [Tasks -> Rows]
    BY <2>1, <2>2, WrittenFact
  <2>. QED
    BY <1>39, <2>3 DEF WFinalFlush, WorkerWrites, WorkerGoes
<1>40. ASSUME NEW t \in Tasks, WFinalFlushLost(t) PROVE TypeOK'
  BY <1>40 DEF WFinalFlushLost, WorkerGoes
<1>41. ASSUME NEW t \in Tasks, WRelease(t) PROVE TypeOK'
  BY <1>41, ReleasedFact DEF WRelease, WorkerGoes
<1>42. ASSUME NEW t \in Tasks, WExit(t) PROVE TypeOK'
  BY <1>42 DEF WExit, WorkerGoes
<1>43. ASSUME NEW t \in Tasks, WDies(t) PROVE TypeOK'
  BY <1>43 DEF WDies, WorkerGoes
<1>44. ASSUME NEW t \in Tasks, LeaseExpires(t) PROVE TypeOK'
  BY <1>44, ExpiredFact DEF LeaseExpires
<1>45. ASSUME NEW t \in Tasks, BeatAges(t) PROVE TypeOK'
  BY <1>45 DEF BeatAges
<1>46. ASSUME NEW t \in Tasks, NEW n \in Tasks, ResumeSubmit(t, n) PROVE TypeOK'
  BY <1>46, InsertedFact DEF ResumeSubmit, Admit
<1>47. CASE UNCHANGED vars
  BY <1>47 DEF vars
<1>48. QED
  BY <1>1, <1>2, <1>3, <1>4, <1>5, <1>6, <1>7, <1>8, <1>9, <1>10, <1>11, <1>12,
     <1>13, <1>14, <1>15, <1>16, <1>17, <1>18, <1>19, <1>20, <1>21, <1>22,
     <1>23, <1>24, <1>25, <1>26, <1>27, <1>28, <1>29, <1>30, <1>31, <1>32,
     <1>33, <1>34, <1>35, <1>36, <1>37, <1>38, <1>39, <1>40, <1>41, <1>42,
     <1>43, <1>44, <1>45, <1>46, <1>47
     DEF Next, Boot, Shutdown, User, Thread, Worker, Time

\* What the monitor may end with: one step per action that moves a thread,
\* ends a loop, or starts a worker.
LEMMA OutcomesStep ==
    Typed /\ [Next]_vars => (\A u \in Tasks : Outcomes(u))'
<1> SUFFICES ASSUME TypeOK, \A t \in Tasks : Outcomes(t), [Next]_vars,
                    NEW u \in Tasks
             PROVE  Outcomes(u)'
  BY DEF Typed
<1> USE DEF TypeOK, Outcomes, Alive, storeVars, fileVars, mainVars,
            threadVars, workerVars
<1>1. CASE HostStart
  BY <1>1 DEF HostStart
<1>2. CASE HostCrash
  BY <1>2 DEF HostCrash, HostGone
<1>3. CASE LoadDone
  BY <1>3 DEF LoadDone
<1>4. CASE ResumeDone
  BY <1>4 DEF ResumeDone
<1>5. CASE ShutdownEnd
  BY <1>5 DEF ShutdownEnd, HostGone
<1>6. CASE BeginShutdown
  BY <1>6 DEF BeginShutdown
<1>7. ASSUME NEW t \in Tasks, RunStart(t) PROVE Outcomes(u)'
  BY <1>7 DEF RunStart
<1>8. ASSUME NEW t \in Tasks, Reserve(t) PROVE Outcomes(u)'
  BY <1>8 DEF Reserve
<1>9. ASSUME NEW t \in Tasks, SpawnFails(t) PROVE Outcomes(u)'
  BY <1>9 DEF SpawnFails, Terminal
<1>10. ASSUME NEW t \in Tasks, Spawn(t) PROVE Outcomes(u)'
  BY <1>10 DEF Spawn
<1>11. ASSUME NEW t \in Tasks, Register(t) PROVE Outcomes(u)'
  BY <1>11 DEF Register
<1>12. ASSUME NEW t \in Tasks, MonDetach(t) PROVE Outcomes(u)'
  BY <1>12 DEF MonDetach, MonitorEnds
<1>13. ASSUME NEW t \in Tasks, MonRead(t) PROVE Outcomes(u)'
  BY <1>13 DEF MonRead, MonitorEnds
<1>14. ASSUME NEW t \in Tasks, MonCheck(t) PROVE Outcomes(u)'
  BY <1>14 DEF MonCheck, MonitorEnds, Terminal
<1>15. ASSUME NEW t \in Tasks, Retire(t) PROVE Outcomes(u)'
  BY <1>15 DEF Retire
<1>16. ASSUME NEW t \in Tasks, AbortEnd(t) PROVE Outcomes(u)'
  BY <1>16 DEF AbortEnd, LeaveClosing
<1>17. ASSUME NEW t \in Tasks, Finalize(t) PROVE Outcomes(u)'
  BY <1>17 DEF Finalize, LeaveClosing
<1>18. ASSUME NEW t \in Tasks, Cleanup(t) PROVE Outcomes(u)'
  BY <1>18 DEF Cleanup
<1>19. ASSUME NEW t \in Tasks, Settle(t) PROVE Outcomes(u)'
  BY <1>19 DEF Settle
<1>20. ASSUME NEW t \in Tasks, Load(t) PROVE Outcomes(u)'
  BY <1>20 DEF Load
<1>21. ASSUME NEW t \in Tasks, MarkInterrupted(t) PROVE Outcomes(u)'
  BY <1>21 DEF MarkInterrupted
<1>22. ASSUME NEW t \in Tasks, ResumeSkip(t) PROVE Outcomes(u)'
  BY <1>22 DEF ResumeSkip
<1>23. ASSUME NEW t \in Tasks, ResumeClaim(t) PROVE Outcomes(u)'
  BY <1>23 DEF ResumeClaim
<1>24. ASSUME NEW t \in Tasks, ResumeFails(t) PROVE Outcomes(u)'
  BY <1>24 DEF ResumeFails
<1>25. ASSUME NEW t \in Tasks, ResumeLink(t) PROVE Outcomes(u)'
  BY <1>25 DEF ResumeLink
<1>26. ASSUME NEW t \in Tasks, ShutdownVisit(t) PROVE Outcomes(u)'
  BY <1>26 DEF ShutdownVisit
<1>27. ASSUME NEW t \in Tasks, Submit(t) PROVE Outcomes(u)'
  BY <1>27 DEF Submit, Admit
<1>28. ASSUME NEW t \in Tasks, SubmitWhileClosing(t) PROVE Outcomes(u)'
  BY <1>28 DEF SubmitWhileClosing
<1>29. ASSUME NEW t \in Tasks, Cancel(t) PROVE Outcomes(u)'
  BY <1>29 DEF Cancel
<1>30. ASSUME NEW t \in Tasks, WClaim(t) PROVE Outcomes(u)'
  BY <1>30 DEF WClaim, WorkerGoes
<1>31. ASSUME NEW t \in Tasks, WReadRequest(t) PROVE Outcomes(u)'
  BY <1>31 DEF WReadRequest, WorkerGoes
<1>32. ASSUME NEW t \in Tasks, WStartFails(t) PROVE Outcomes(u)'
  BY <1>32 DEF WStartFails, WorkerGoes
<1>33. ASSUME NEW t \in Tasks, WFirstFlush(t) PROVE Outcomes(u)'
  BY <1>33 DEF WFirstFlush, WorkerGoes
<1>34. ASSUME NEW t \in Tasks, WFirstFlushRefused(t) PROVE Outcomes(u)'
  BY <1>34 DEF WFirstFlushRefused, WorkerGoes
<1>35. ASSUME NEW t \in Tasks, WFlush(t) PROVE Outcomes(u)'
  BY <1>35 DEF WFlush, WorkerGoes
<1>36. ASSUME NEW t \in Tasks, WLosesLease(t) PROVE Outcomes(u)'
  BY <1>36 DEF WLosesLease, WorkerGoes
<1>37. ASSUME NEW t \in Tasks, WSeesCancel(t) PROVE Outcomes(u)'
  BY <1>37 DEF WSeesCancel, WorkerGoes
<1>38. ASSUME NEW t \in Tasks, WChatEnds(t) PROVE Outcomes(u)'
  BY <1>38 DEF WChatEnds, WorkerGoes
<1>39. ASSUME NEW t \in Tasks, WFinalFlush(t) PROVE Outcomes(u)'
  BY <1>39 DEF WFinalFlush, WorkerGoes
<1>40. ASSUME NEW t \in Tasks, WFinalFlushLost(t) PROVE Outcomes(u)'
  BY <1>40 DEF WFinalFlushLost, WorkerGoes
<1>41. ASSUME NEW t \in Tasks, WRelease(t) PROVE Outcomes(u)'
  BY <1>41 DEF WRelease, WorkerGoes
<1>42. ASSUME NEW t \in Tasks, WExit(t) PROVE Outcomes(u)'
  BY <1>42 DEF WExit, WorkerGoes
<1>43. ASSUME NEW t \in Tasks, WDies(t) PROVE Outcomes(u)'
  BY <1>43 DEF WDies, WorkerGoes
<1>44. ASSUME NEW t \in Tasks, LeaseExpires(t) PROVE Outcomes(u)'
  BY <1>44 DEF LeaseExpires
<1>45. ASSUME NEW t \in Tasks, BeatAges(t) PROVE Outcomes(u)'
  BY <1>45 DEF BeatAges
<1>46. ASSUME NEW t \in Tasks, NEW n \in Tasks, ResumeSubmit(t, n)
       PROVE  Outcomes(u)'
  BY <1>46 DEF ResumeSubmit, Admit
<1>47. CASE UNCHANGED vars
  BY <1>47 DEF vars
<1>48. QED
  BY <1>1, <1>2, <1>3, <1>4, <1>5, <1>6, <1>7, <1>8, <1>9, <1>10, <1>11, <1>12,
     <1>13, <1>14, <1>15, <1>16, <1>17, <1>18, <1>19, <1>20, <1>21, <1>22,
     <1>23, <1>24, <1>25, <1>26, <1>27, <1>28, <1>29, <1>30, <1>31, <1>32,
     <1>33, <1>34, <1>35, <1>36, <1>37, <1>38, <1>39, <1>40, <1>41, <1>42,
     <1>43, <1>44, <1>45, <1>46, <1>47
     DEF Next, Boot, Shutdown, User, Thread, Worker, Time

\* Every reachable state is typed: in particular no verdict of a worker or of
\* the monitor loop is anything but a status the store knows.
THEOREM TypeCorrect == Spec => []TypeOK
<1>1. Init => Typed
  BY TypeInit DEF Init, Typed, Outcomes
<1>2. Typed /\ [Next]_vars => Typed'
  BY TypeStep, OutcomesStep DEF Typed
<1>3. Typed => TypeOK
  BY DEF Typed
<1>. QED
  BY <1>1, <1>2, <1>3, PTL DEF Spec

-----------------------------------------------------------------------------
(* How the lease updates change who holds the lease *)

\* A claim makes the claimer the holder of the lease and nobody else.
LEMMA GrantedHolds ==
    ASSUME lease \in [Tasks -> Leases], NEW t \in Tasks,
           NEW o \in {"launch", "recovery"}, lease' = Granted(t, o)
    PROVE  \A u \in Tasks : Holds(u, "launch")' <=>
              IF u = t THEN o = "launch" ELSE Holds(u, "launch")
BY DEF Granted, Leases, Holds

\* A release takes the lease from its own owner only.
LEMMA ReleasedHolds ==
    ASSUME lease \in [Tasks -> Leases], NEW t \in Tasks,
           NEW o \in {"launch", "recovery"}, lease' = Released(t, o)
    PROVE  \A u \in Tasks : Holds(u, "launch")' <=>
              Holds(u, "launch") /\ (u # t \/ o # "launch")
BY DEF Released, NoLease, Leases, Holds

\* An expired lease is held by nobody.
LEMMA ExpiredHolds ==
    ASSUME lease \in [Tasks -> Leases], NEW t \in Tasks, lease' = Expired(t)
    PROVE  \A u \in Tasks : Holds(u, "launch")' <=>
              Holds(u, "launch") /\ u # t
BY DEF Expired, Leases, Holds

\* A step that leaves the lease table alone changes no holder.
LEMMA SameHolds ==
    ASSUME lease' = lease, NEW u
    PROVE  Holds(u, "launch")' <=> Holds(u, "launch")
BY DEF Holds

\* A lease that another owner may claim is not held by the launch owner.
LEMMA ClaimFact ==
    ASSUME NEW t, CanClaim(t, "recovery")
    PROVE  ~Holds(t, "launch")
BY DEF CanClaim, Holds

-----------------------------------------------------------------------------
(* The actions that write a row, and the status they leave in it *)

\* The row effect of an insertion.
LEMMA InsertedRow ==
    ASSUME TypeOK, NEW t \in Tasks, NEW s \in {"queued", "cancelled"},
           NEW o \in Tasks \cup {NoTask}, row' = Inserted(t, s, o)
    PROVE  \A u \in Tasks : row'[u].status = IF u = t THEN s ELSE row[u].status
<1>1. s \in Statuses /\ row \in [Tasks -> Rows]
  BY DEF Statuses, Active, Terminal, TypeOK
<1>. QED
  BY <1>1, InsertedFact

\* The row effect of a worker's fenced upsert.
LEMMA WorkerRow ==
    ASSUME TypeOK, NEW t \in Tasks, NEW s \in Statuses, WorkerWrites(t, s)
    PROVE  /\ Holds(t, "launch")
           /\ \A u \in Tasks : row'[u].status =
                                  IF u = t THEN s ELSE row[u].status
<1>1. row' = Written(t, s, TRUE) /\ row \in [Tasks -> Rows]
  BY DEF WorkerWrites, TypeOK
<1>2. \A u \in Tasks : Written(t, s, TRUE)[u].status =
                        IF u = t THEN s ELSE row[u].status
  BY <1>1, WrittenFact
<1>. QED
  BY <1>1, <1>2 DEF WorkerWrites

\* The row effect of an unfenced upsert by the host.
LEMMA HostRow ==
    ASSUME TypeOK, NEW t \in Tasks, NEW s \in Statuses, NEW o \in BOOLEAN,
           HostWrites(t, s, o)
    PROVE  \A u \in Tasks : row'[u].status = IF u = t THEN s ELSE row[u].status
<1>1. row' = Written(t, s, o) /\ row \in [Tasks -> Rows]
  BY DEF HostWrites, TypeOK
<1>. QED
  BY <1>1, WrittenFact

\* The statuses in the task table after Submit.
LEMMA SubmitRow ==
    ASSUME TypeOK, NEW t \in Tasks, Submit(t)
    PROVE  \A u \in Tasks : row'[u].status =
              IF u = t THEN "queued" ELSE row[u].status
BY InsertedRow DEF Submit, Admit

\* The statuses in the task table after SubmitWhileClosing.
LEMMA SubmitWhileClosingRow ==
    ASSUME TypeOK, NEW t \in Tasks, SubmitWhileClosing(t)
    PROVE  \A u \in Tasks : row'[u].status =
              IF u = t THEN "cancelled" ELSE row[u].status
BY InsertedRow DEF SubmitWhileClosing

\* The statuses in the task table after ResumeSubmit.
LEMMA ResumeSubmitRow ==
    ASSUME TypeOK, NEW t \in Tasks, NEW n \in Tasks, ResumeSubmit(t, n)
    PROVE  \A u \in Tasks : row'[u].status =
              IF u = n THEN "queued" ELSE row[u].status
BY InsertedRow DEF ResumeSubmit, Admit

\* The statuses in the task table after ResumeLink.
LEMMA ResumeLinkRow ==
    ASSUME TypeOK, NEW t \in Tasks, ResumeLink(t)
    PROVE  \A u \in Tasks : row'[u].status =
              IF u = t THEN "interrupted" ELSE row[u].status
<1>1. row' = Linked(t) /\ row \in [Tasks -> Rows]
  BY DEF ResumeLink, TypeOK
<1>2. \A u \in Tasks : Linked(t)[u].status =
                        IF u = t THEN "interrupted" ELSE row[u].status
  BY <1>1, LinkedFact
<1>. QED
  BY <1>1, <1>2

\* The statuses in the task table after RunStart.
LEMMA RunStartRow ==
    ASSUME TypeOK, NEW t \in Tasks, t \notin detached, RunStart(t)
    PROVE  \A u \in Tasks : row'[u].status =
              IF u # t THEN row[u].status
              ELSE IF cancelled[t] THEN "cancelled" ELSE "running"
<1>1. PICK s \in {"cancelled", "running"} :
         Persist(t, s) /\ s = IF cancelled[t] THEN "cancelled" ELSE "running"
  BY DEF RunStart
<1>2. s \in Statuses /\ row \in [Tasks -> Rows]
  BY DEF Statuses, Active, Terminal, TypeOK
<1>3. \A u \in Tasks : row'[u].status = IF u = t THEN s ELSE row[u].status
  BY <1>1, <1>2, PersistFact
<1>. QED
  BY <1>1, <1>3

\* The statuses in the task table after Cancel.
LEMMA CancelRow ==
    ASSUME TypeOK, NEW t \in Tasks, Cancel(t)
    PROVE  \A u \in Tasks : row'[u].status =
              IF u = t /\ t \notin detached THEN "cancelled" ELSE row[u].status
<1>1. "cancelled" \in Statuses /\ row \in [Tasks -> Rows]
  BY DEF Statuses, Terminal, TypeOK
<1>2. Persist(t, "cancelled")
  BY DEF Cancel
<1>. QED
  BY <1>1, <1>2, PersistFact

\* The statuses in the task table after ShutdownVisit.
LEMMA ShutdownVisitRow ==
    ASSUME TypeOK, NEW t \in Tasks, ShutdownVisit(t)
    PROVE  \A u \in Tasks : row'[u].status =
              IF u = t /\ t \notin detached /\ rec[t] \in Active
                THEN "cancelled" ELSE row[u].status
<1>1. "cancelled" \in Statuses /\ row \in [Tasks -> Rows]
  BY DEF Statuses, Terminal, TypeOK
<1>2. CASE t \notin detached /\ rec[t] \in Active
  <2>1. Persist(t, "cancelled")
    BY <1>2 DEF ShutdownVisit
  <2>. QED
    BY <1>1, <1>2, <2>1, PersistFact
<1>3. CASE ~(t \notin detached /\ rec[t] \in Active)
  BY <1>3 DEF ShutdownVisit
<1>. QED
  BY <1>2, <1>3

\* The statuses in the task table after Settle.
LEMMA SettleRow ==
    ASSUME TypeOK, NEW t \in Tasks, Outcomes(t), Settle(t)
    PROVE  /\ Verdict(t) \in Terminal
           /\ \A u \in Tasks : row'[u].status =
              IF u = t /\ t \notin detached' THEN Verdict(t)
                ELSE row[u].status
<1>1. Verdict(t) \in Terminal
  BY DEF Settle, Outcomes, Verdict, Terminal
<1>2. Verdict(t) \in Statuses
  BY <1>1 DEF Statuses
<1>3. CASE t \in detached'
  BY <1>1, <1>3 DEF Settle
<1>4. CASE t \notin detached'
  <2>. DEFINE v == Verdict(t)
              o == wpc[t] # "none"
  <2>1. HostWrites(t, v, o)
    BY <1>4 DEF Settle
  <2>2. \A u \in Tasks : row'[u].status = IF u = t THEN v ELSE row[u].status
    <3>. HIDE DEF v
    <3>. QED
      BY <1>2, <2>1, HostRow DEF v
  <2>. QED
    BY <1>1, <1>4, <2>2
<1>. QED
  BY <1>3, <1>4

\* The statuses in the task table after MarkInterrupted.
LEMMA MarkRow ==
    ASSUME TypeOK, NEW t \in Tasks, MarkInterrupted(t)
    PROVE  \A u \in Tasks : row'[u].status =
              IF u = t THEN "interrupted" ELSE row[u].status
<1>1. "interrupted" \in Statuses
  BY DEF Statuses, Terminal
<1>2. seen[t].owned \in BOOLEAN
  BY StatusFact DEF TypeOK
<1>3. HostWrites(t, "interrupted", seen[t].owned)
  BY DEF MarkInterrupted
<1>. QED
  BY <1>1, <1>2, <1>3, HostRow

\* The statuses in the task table after WFirstFlush or WFlush.
LEMMA FlushRow ==
    ASSUME TypeOK, NEW t \in Tasks, WFirstFlush(t) \/ WFlush(t)
    PROVE  /\ Holds(t, "launch")
           /\ \A u \in Tasks : row'[u].status =
                 IF u = t THEN "running" ELSE row[u].status
<1>1. "running" \in Statuses
  BY DEF Statuses, Active
<1>2. WorkerWrites(t, "running")
  BY DEF WFirstFlush, WFlush
<1>. QED
  BY <1>1, <1>2, WorkerRow

\* The statuses in the task table after WFinalFlush.
LEMMA FinalFlushRow ==
    ASSUME TypeOK, NEW t \in Tasks, WFinalFlush(t)
    PROVE  /\ Holds(t, "launch")
           /\ \A u \in Tasks : row'[u].status =
                 IF u = t THEN wstat[t] ELSE row[u].status
<1>1. wstat[t] \in Statuses
  BY DEF TypeOK, Statuses, Terminal
<1>2. WorkerWrites(t, wstat[t])
  BY DEF WFinalFlush
<1>. QED
  BY <1>1, <1>2, WorkerRow

-----------------------------------------------------------------------------
(* The fence: once a worker can no longer write, only Popen creates one that *)
(* can                                                                       *)

\* No step gives a worker back the right to write its row: only Popen, from the
\* position "reserved", creates a worker that can.
LEMMA MayWriteStep ==
    ASSUME TypeOK, \A t \in Tasks : Launching(t), PromptStart = TRUE,
           [Next]_vars, NEW u \in Tasks, MayWrite(u)'
    PROVE  MayWrite(u) \/ pc[u] = "reserved"
<1> USE DEF TypeOK, MayWrite, storeVars, fileVars, mainVars, threadVars,
            workerVars
<1>1. CASE HostStart
  BY <1>1, SameHolds DEF HostStart
<1>2. CASE HostCrash
  BY <1>2, SameHolds DEF HostCrash, HostGone
<1>3. CASE LoadDone
  BY <1>3, SameHolds DEF LoadDone
<1>4. CASE ResumeDone
  BY <1>4, SameHolds DEF ResumeDone
<1>5. CASE ShutdownEnd
  BY <1>5, SameHolds DEF ShutdownEnd, HostGone
<1>6. CASE BeginShutdown
  BY <1>6, SameHolds DEF BeginShutdown
<1>7. ASSUME NEW t \in Tasks, RunStart(t)
       PROVE  MayWrite(u) \/ pc[u] = "reserved"
  BY <1>7, SameHolds DEF RunStart
<1>8. ASSUME NEW t \in Tasks, Reserve(t)
       PROVE  MayWrite(u) \/ pc[u] = "reserved"
  BY <1>8, GrantedHolds DEF Reserve, Launching
<1>9. ASSUME NEW t \in Tasks, SpawnFails(t)
       PROVE  MayWrite(u) \/ pc[u] = "reserved"
  BY <1>9, ReleasedHolds DEF SpawnFails, Terminal
<1>10. ASSUME NEW t \in Tasks, Spawn(t)
       PROVE  MayWrite(u) \/ pc[u] = "reserved"
  BY <1>10, SameHolds DEF Spawn
<1>11. ASSUME NEW t \in Tasks, Register(t)
       PROVE  MayWrite(u) \/ pc[u] = "reserved"
  BY <1>11, SameHolds DEF Register
<1>12. ASSUME NEW t \in Tasks, MonDetach(t)
       PROVE  MayWrite(u) \/ pc[u] = "reserved"
  BY <1>12, SameHolds DEF MonDetach, MonitorEnds
<1>13. ASSUME NEW t \in Tasks, MonRead(t)
       PROVE  MayWrite(u) \/ pc[u] = "reserved"
  BY <1>13, SameHolds DEF MonRead, MonitorEnds
<1>14. ASSUME NEW t \in Tasks, MonCheck(t)
       PROVE  MayWrite(u) \/ pc[u] = "reserved"
  BY <1>14, SameHolds DEF MonCheck, MonitorEnds, Terminal
<1>15. ASSUME NEW t \in Tasks, Retire(t)
       PROVE  MayWrite(u) \/ pc[u] = "reserved"
  BY <1>15, SameHolds DEF Retire
<1>16. ASSUME NEW t \in Tasks, AbortEnd(t)
       PROVE  MayWrite(u) \/ pc[u] = "reserved"
  BY <1>16, FinalizeFact, ReleasedHolds, SameHolds DEF AbortEnd, LeaveClosing
<1>17. ASSUME NEW t \in Tasks, Finalize(t)
       PROVE  MayWrite(u) \/ pc[u] = "reserved"
  BY <1>17, FinalizeFact, ReleasedHolds, SameHolds DEF Finalize, LeaveClosing
<1>18. ASSUME NEW t \in Tasks, Cleanup(t)
       PROVE  MayWrite(u) \/ pc[u] = "reserved"
  BY <1>18, ReleasedHolds, SameHolds DEF Cleanup
<1>19. ASSUME NEW t \in Tasks, Settle(t)
       PROVE  MayWrite(u) \/ pc[u] = "reserved"
  BY <1>19, SameHolds DEF Settle
<1>20. ASSUME NEW t \in Tasks, Load(t)
       PROVE  MayWrite(u) \/ pc[u] = "reserved"
  BY <1>20, SameHolds DEF Load
<1>21. ASSUME NEW t \in Tasks, MarkInterrupted(t)
       PROVE  MayWrite(u) \/ pc[u] = "reserved"
  BY <1>21, SameHolds DEF MarkInterrupted
<1>22. ASSUME NEW t \in Tasks, ResumeSkip(t)
       PROVE  MayWrite(u) \/ pc[u] = "reserved"
  BY <1>22, SameHolds DEF ResumeSkip
<1>23. ASSUME NEW t \in Tasks, ResumeClaim(t)
       PROVE  MayWrite(u) \/ pc[u] = "reserved"
  BY <1>23, GrantedHolds DEF ResumeClaim
<1>24. ASSUME NEW t \in Tasks, ResumeFails(t)
       PROVE  MayWrite(u) \/ pc[u] = "reserved"
  BY <1>24, ReleasedHolds DEF ResumeFails
<1>25. ASSUME NEW t \in Tasks, ResumeLink(t)
       PROVE  MayWrite(u) \/ pc[u] = "reserved"
  BY <1>25, ReleasedHolds DEF ResumeLink
<1>26. ASSUME NEW t \in Tasks, ShutdownVisit(t)
       PROVE  MayWrite(u) \/ pc[u] = "reserved"
  BY <1>26, SameHolds DEF ShutdownVisit
<1>27. ASSUME NEW t \in Tasks, Submit(t)
       PROVE  MayWrite(u) \/ pc[u] = "reserved"
  BY <1>27, SameHolds DEF Submit, Admit
<1>28. ASSUME NEW t \in Tasks, SubmitWhileClosing(t)
       PROVE  MayWrite(u) \/ pc[u] = "reserved"
  BY <1>28, SameHolds DEF SubmitWhileClosing
<1>29. ASSUME NEW t \in Tasks, Cancel(t)
       PROVE  MayWrite(u) \/ pc[u] = "reserved"
  BY <1>29, SameHolds DEF Cancel
<1>30. ASSUME NEW t \in Tasks, WClaim(t)
       PROVE  MayWrite(u) \/ pc[u] = "reserved"
  BY <1>30, GrantedHolds, SameHolds DEF WClaim, WorkerGoes, Launching
<1>31. ASSUME NEW t \in Tasks, WReadRequest(t)
       PROVE  MayWrite(u) \/ pc[u] = "reserved"
  BY <1>31, SameHolds DEF WReadRequest, WorkerGoes
<1>32. ASSUME NEW t \in Tasks, WStartFails(t)
       PROVE  MayWrite(u) \/ pc[u] = "reserved"
  BY <1>32, ReleasedHolds DEF WStartFails, WorkerGoes
<1>33. ASSUME NEW t \in Tasks, WFirstFlush(t)
       PROVE  MayWrite(u) \/ pc[u] = "reserved"
  BY <1>33, SameHolds DEF WFirstFlush, WorkerGoes
<1>34. ASSUME NEW t \in Tasks, WFirstFlushRefused(t)
       PROVE  MayWrite(u) \/ pc[u] = "reserved"
  BY <1>34, SameHolds DEF WFirstFlushRefused, WorkerGoes
<1>35. ASSUME NEW t \in Tasks, WFlush(t)
       PROVE  MayWrite(u) \/ pc[u] = "reserved"
  BY <1>35, SameHolds DEF WFlush, WorkerGoes
<1>36. ASSUME NEW t \in Tasks, WLosesLease(t)
       PROVE  MayWrite(u) \/ pc[u] = "reserved"
  BY <1>36, SameHolds DEF WLosesLease, WorkerGoes
<1>37. ASSUME NEW t \in Tasks, WSeesCancel(t)
       PROVE  MayWrite(u) \/ pc[u] = "reserved"
  BY <1>37, SameHolds DEF WSeesCancel, WorkerGoes
<1>38. ASSUME NEW t \in Tasks, WChatEnds(t)
       PROVE  MayWrite(u) \/ pc[u] = "reserved"
  BY <1>38, SameHolds DEF WChatEnds, WorkerGoes
<1>39. ASSUME NEW t \in Tasks, WFinalFlush(t)
       PROVE  MayWrite(u) \/ pc[u] = "reserved"
  BY <1>39, SameHolds DEF WFinalFlush, WorkerGoes
<1>40. ASSUME NEW t \in Tasks, WFinalFlushLost(t)
       PROVE  MayWrite(u) \/ pc[u] = "reserved"
  BY <1>40, SameHolds DEF WFinalFlushLost, WorkerGoes
<1>41. ASSUME NEW t \in Tasks, WRelease(t)
       PROVE  MayWrite(u) \/ pc[u] = "reserved"
  BY <1>41, ReleasedHolds DEF WRelease, WorkerGoes
<1>42. ASSUME NEW t \in Tasks, WExit(t)
       PROVE  MayWrite(u) \/ pc[u] = "reserved"
  BY <1>42, SameHolds DEF WExit, WorkerGoes
<1>43. ASSUME NEW t \in Tasks, WDies(t)
       PROVE  MayWrite(u) \/ pc[u] = "reserved"
  BY <1>43, SameHolds DEF WDies, WorkerGoes
<1>44. ASSUME NEW t \in Tasks, LeaseExpires(t)
       PROVE  MayWrite(u) \/ pc[u] = "reserved"
  BY <1>44, ExpiredHolds DEF LeaseExpires
<1>45. ASSUME NEW t \in Tasks, BeatAges(t)
       PROVE  MayWrite(u) \/ pc[u] = "reserved"
  BY <1>45, SameHolds DEF BeatAges
<1>46. ASSUME NEW t \in Tasks, NEW n \in Tasks, ResumeSubmit(t, n)
       PROVE  MayWrite(u) \/ pc[u] = "reserved"
  BY <1>46, SameHolds DEF ResumeSubmit, Admit
<1>47. CASE UNCHANGED vars
  BY <1>47, SameHolds DEF vars
<1>48. QED
  BY <1>1, <1>2, <1>3, <1>4, <1>5, <1>6, <1>7, <1>8, <1>9, <1>10, <1>11, <1>12,
     <1>13, <1>14, <1>15, <1>16, <1>17, <1>18, <1>19, <1>20, <1>21, <1>22,
     <1>23, <1>24, <1>25, <1>26, <1>27, <1>28, <1>29, <1>30, <1>31, <1>32,
     <1>33, <1>34, <1>35, <1>36, <1>37, <1>38, <1>39, <1>40, <1>41, <1>42,
     <1>43, <1>44, <1>45, <1>46, <1>47
     DEF Next, Boot, Shutdown, User, Thread, Worker, Time

\* Every step keeps the record of a cancelled task cancelled.
LEMMA CancelKeptStep ==
    ASSUME TypeOK, WriteFence, PromptStart = TRUE, [Next]_vars, NEW u \in Tasks
    PROVE  CancelKept(u)'
<1> USE DEF CancelKept, Untouched, WriteFence, TypeOK, storeVars,
            fileVars, mainVars, threadVars, workerVars
<1>1. CASE HostStart
  BY <1>1
     DEF HostStart
<1>2. CASE HostCrash
  BY <1>2
     DEF HostCrash, HostGone
<1>3. CASE LoadDone
  BY <1>3
     DEF LoadDone
<1>4. CASE ResumeDone
  BY <1>4
     DEF ResumeDone
<1>5. CASE ShutdownEnd
  BY <1>5
     DEF ShutdownEnd, HostGone
<1>6. CASE BeginShutdown
  BY <1>6
     DEF BeginShutdown
<1>7. ASSUME NEW t \in Tasks, RunStart(t)
       PROVE  CancelKept(u)'
  BY <1>7
     DEF RunStart
<1>8. ASSUME NEW t \in Tasks, AbortEnd(t)
       PROVE  CancelKept(u)'
  BY <1>8
     DEF AbortEnd, LeaveClosing, Verdict
<1>9. ASSUME NEW t \in Tasks, Finalize(t)
       PROVE  CancelKept(u)'
  BY <1>9
     DEF Finalize, LeaveClosing, Verdict
<1>10. ASSUME NEW t \in Tasks, Settle(t)
       PROVE  CancelKept(u)'
  BY <1>10
     DEF Settle, Verdict
<1>11. ASSUME NEW t \in Tasks, Load(t)
       PROVE  CancelKept(u)'
  BY <1>11
     DEF Load
<1>12. ASSUME NEW t \in Tasks, ShutdownVisit(t)
       PROVE  CancelKept(u)'
  BY <1>12
     DEF ShutdownVisit
<1>13. ASSUME NEW t \in Tasks, Submit(t)
       PROVE  CancelKept(u)'
  BY <1>13
     DEF Submit, Admit
<1>14. ASSUME NEW t \in Tasks, SubmitWhileClosing(t)
       PROVE  CancelKept(u)'
  BY <1>14
     DEF SubmitWhileClosing
<1>15. ASSUME NEW t \in Tasks, Cancel(t)
       PROVE  CancelKept(u)'
  BY <1>15
     DEF Cancel
<1>16. ASSUME NEW t \in Tasks, NEW n \in Tasks, ResumeSubmit(t, n)
       PROVE  CancelKept(u)'
  BY <1>16
     DEF ResumeSubmit, Admit
<1>17. ASSUME NEW t \in Tasks,
              Reserve(t) \/ SpawnFails(t) \/ Spawn(t) \/ Register(t) \/
              MonDetach(t) \/ MonRead(t) \/ MonCheck(t) \/ Retire(t) \/
              Cleanup(t) \/ MarkInterrupted(t) \/ ResumeSkip(t) \/
              ResumeClaim(t)
       PROVE  CancelKept(u)'
  BY <1>17
     DEF Reserve, SpawnFails, Terminal, Spawn, Register, MonDetach,
         MonitorEnds, MonRead, MonCheck, Retire, Cleanup, MarkInterrupted,
         ResumeSkip, ResumeClaim
<1>18. ASSUME NEW t \in Tasks,
              ResumeFails(t) \/ ResumeLink(t) \/ WClaim(t) \/
              WReadRequest(t) \/ WStartFails(t) \/ WFirstFlush(t) \/
              WFirstFlushRefused(t) \/ WFlush(t) \/ WLosesLease(t) \/
              WSeesCancel(t) \/ WChatEnds(t) \/ WFinalFlush(t)
       PROVE  CancelKept(u)'
  BY <1>18
     DEF ResumeFails, ResumeLink, WClaim, WorkerGoes, WReadRequest,
         WStartFails, WFirstFlush, WFirstFlushRefused, WFlush,
         WLosesLease, WSeesCancel, WChatEnds, WFinalFlush
<1>19. ASSUME NEW t \in Tasks,
              WFinalFlushLost(t) \/ WRelease(t) \/ WExit(t) \/ WDies(t) \/
              LeaseExpires(t) \/ BeatAges(t)
       PROVE  CancelKept(u)'
  BY <1>19
     DEF WFinalFlushLost, WorkerGoes, WRelease, WExit, WDies,
         LeaseExpires, BeatAges
<1>20. CASE UNCHANGED vars
  BY <1>20
     DEF vars
<1>. QED
  BY <1>1, <1>2, <1>3, <1>4, <1>5, <1>6, <1>7, <1>8, <1>9, <1>10, <1>11,
     <1>12, <1>13, <1>14, <1>15, <1>16, <1>17, <1>18, <1>19, <1>20
     DEF Next, Boot, Shutdown, User, Thread, Worker, Time

\* Every step keeps unused identifiers untouched.
LEMMA UntouchedStep ==
    ASSUME TypeOK, WriteFence, PromptStart = TRUE, [Next]_vars, NEW u \in Tasks
    PROVE  Untouched(u)'
<1> USE DEF Untouched, Terminal, Alive, WriteFence, TypeOK, storeVars,
            fileVars, mainVars, threadVars, workerVars
<1>1. CASE HostStart
  BY <1>1
     DEF HostStart
<1>2. CASE HostCrash
  BY <1>2
     DEF HostCrash, HostGone
<1>3. CASE LoadDone
  BY <1>3
     DEF LoadDone
<1>4. CASE ShutdownEnd
  BY <1>4
     DEF ShutdownEnd, HostGone
<1>5. CASE BeginShutdown
  BY <1>5
     DEF BeginShutdown
<1>6. ASSUME NEW t \in Tasks, RunStart(t)
       PROVE  Untouched(u)'
  <2>1. t \notin detached /\ row[t].status # "none"
    BY <1>6 DEF RunStart, Ownership
  <2>2. \A v \in Tasks : row'[v].status =
           IF v # t THEN row[v].status
           ELSE IF cancelled[t] THEN "cancelled" ELSE "running"
    BY <1>6, <2>1, RunStartRow
  <2>3. CASE u # t
    BY <1>6, <2>2, <2>3
       DEF RunStart
  <2>4. CASE u = t
    BY <2>2, <2>4
  <2>. QED
    BY <2>3, <2>4
<1>7. ASSUME NEW t \in Tasks, Reserve(t)
       PROVE  Untouched(u)'
  BY <1>7
     DEF Reserve
<1>8. ASSUME NEW t \in Tasks, SpawnFails(t)
       PROVE  Untouched(u)'
  BY <1>8
     DEF SpawnFails, Terminal
<1>9. ASSUME NEW t \in Tasks, Spawn(t)
       PROVE  Untouched(u)'
  BY <1>9
     DEF Spawn
<1>10. ASSUME NEW t \in Tasks, Register(t)
       PROVE  Untouched(u)'
  BY <1>10
     DEF Register
<1>11. ASSUME NEW t \in Tasks, MonDetach(t)
       PROVE  Untouched(u)'
  BY <1>11
     DEF MonDetach, MonitorEnds
<1>12. ASSUME NEW t \in Tasks, MonRead(t)
       PROVE  Untouched(u)'
  BY <1>12
     DEF MonRead, MonitorEnds
<1>13. ASSUME NEW t \in Tasks, MonCheck(t)
       PROVE  Untouched(u)'
  BY <1>13
     DEF MonCheck, MonitorEnds, Terminal
<1>14. ASSUME NEW t \in Tasks, Retire(t)
       PROVE  Untouched(u)'
  BY <1>14
     DEF Retire
<1>15. ASSUME NEW t \in Tasks, AbortEnd(t)
       PROVE  Untouched(u)'
  BY <1>15, FinalizeFact
     DEF AbortEnd, LeaveClosing, Verdict
<1>16. ASSUME NEW t \in Tasks, Finalize(t)
       PROVE  Untouched(u)'
  BY <1>16, FinalizeFact
     DEF Finalize, LeaveClosing, Verdict
<1>17. ASSUME NEW t \in Tasks, Cleanup(t)
       PROVE  Untouched(u)'
  BY <1>17
     DEF Cleanup
<1>18. ASSUME NEW t \in Tasks, Settle(t)
       PROVE  Untouched(u)'
  BY <1>18, SettleRow
     DEF Settle, Verdict
<1>19. ASSUME NEW t \in Tasks, Load(t)
       PROVE  Untouched(u)'
  BY <1>19
     DEF Load
<1>20. ASSUME NEW t \in Tasks, MarkInterrupted(t)
       PROVE  Untouched(u)'
  BY <1>20, MarkRow
     DEF MarkInterrupted
<1>21. ASSUME NEW t \in Tasks, ResumeSkip(t)
       PROVE  Untouched(u)'
  BY <1>21
     DEF ResumeSkip
<1>22. ASSUME NEW t \in Tasks, ResumeClaim(t)
       PROVE  Untouched(u)'
  BY <1>22
     DEF ResumeClaim
<1>23. ASSUME NEW t \in Tasks, ResumeFails(t)
       PROVE  Untouched(u)'
  BY <1>23
     DEF ResumeFails
<1>24. ASSUME NEW t \in Tasks, ResumeLink(t)
       PROVE  Untouched(u)'
  BY <1>24, ResumeLinkRow
     DEF ResumeLink
<1>25. ASSUME NEW t \in Tasks, ShutdownVisit(t)
       PROVE  Untouched(u)'
  <2>1. row[t].status # "none"
    BY <1>25 DEF ShutdownVisit
  <2>2. CASE u # t
    <3>1. row'[u].status = row[u].status
      BY <1>25, <2>2, ShutdownVisitRow
    <3>2. /\ rec'[u] = rec[u] /\ pc'[u] = pc[u]
          /\ cancelled'[u] = cancelled[u] /\ todo' \subseteq todo
          /\ UNCHANGED <<wpc, adopted, detached>>
      BY <1>25, <2>2 DEF ShutdownVisit
    <3>. QED
      BY <3>1, <3>2
  <2>3. CASE u = t
    <3>1. row'[u].status # "none"
      BY <1>25, <2>1, <2>3, ShutdownVisitRow
    <3>. QED
      BY <3>1
  <2>. QED
    BY <2>2, <2>3
<1>26. ASSUME NEW t \in Tasks, Submit(t)
       PROVE  Untouched(u)'
  BY <1>26, SubmitRow
     DEF Submit, Admit
<1>27. ASSUME NEW t \in Tasks, SubmitWhileClosing(t)
       PROVE  Untouched(u)'
  BY <1>27, SubmitWhileClosingRow
     DEF SubmitWhileClosing
<1>28. ASSUME NEW t \in Tasks, Cancel(t)
       PROVE  Untouched(u)'
  <2>1. CASE u # t
    BY ZenonT(60), <1>28, <2>1, CancelRow
       DEF Cancel
  <2>2. CASE u = t
    BY <1>28, <2>2, CancelRow
       DEF Cancel
  <2>. QED
    BY <2>1, <2>2
<1>29. ASSUME NEW t \in Tasks, WClaim(t)
       PROVE  Untouched(u)'
  BY <1>29
     DEF WClaim, WorkerGoes
<1>30. ASSUME NEW t \in Tasks, WReadRequest(t)
       PROVE  Untouched(u)'
  BY <1>30
     DEF WReadRequest, WorkerGoes
<1>31. ASSUME NEW t \in Tasks, WStartFails(t)
       PROVE  Untouched(u)'
  BY <1>31
     DEF WStartFails, WorkerGoes
<1>32. ASSUME NEW t \in Tasks, WFirstFlush(t)
       PROVE  Untouched(u)'
  BY <1>32, FlushRow
     DEF WFirstFlush, WorkerGoes
<1>33. ASSUME NEW t \in Tasks, WFirstFlushRefused(t)
       PROVE  Untouched(u)'
  BY <1>33
     DEF WFirstFlushRefused, WorkerGoes
<1>34. ASSUME NEW t \in Tasks, WFlush(t)
       PROVE  Untouched(u)'
  BY <1>34, FlushRow
     DEF WFlush, WorkerGoes
<1>35. ASSUME NEW t \in Tasks, WChatEnds(t)
       PROVE  Untouched(u)'
  BY <1>35
     DEF WChatEnds, WorkerGoes
<1>36. ASSUME NEW t \in Tasks, WFinalFlush(t)
       PROVE  Untouched(u)'
  <2>1. wstat[t] # "none"
    BY <1>36 DEF WFinalFlush, Launching
  <2>2. CASE u # t
    BY <1>36, <2>2, FinalFlushRow
       DEF WFinalFlush, WorkerGoes
  <2>3. CASE u = t
    BY <1>36, <2>1, <2>3, FinalFlushRow
  <2>. QED
    BY <2>2, <2>3
<1>37. ASSUME NEW t \in Tasks, WFinalFlushLost(t)
       PROVE  Untouched(u)'
  BY <1>37
     DEF WFinalFlushLost, WorkerGoes
<1>38. ASSUME NEW t \in Tasks, WRelease(t)
       PROVE  Untouched(u)'
  BY <1>38
     DEF WRelease, WorkerGoes
<1>39. ASSUME NEW t \in Tasks, WExit(t)
       PROVE  Untouched(u)'
  BY <1>39
     DEF WExit, WorkerGoes
<1>40. ASSUME NEW t \in Tasks, WDies(t)
       PROVE  Untouched(u)'
  BY <1>40
     DEF WDies, WorkerGoes
<1>41. ASSUME NEW t \in Tasks, NEW n \in Tasks, ResumeSubmit(t, n)
       PROVE  Untouched(u)'
  BY ZenonT(60), <1>41, ResumeSubmitRow
     DEF ResumeSubmit, Admit
<1>42. CASE ResumeDone
  BY <1>42
     DEF ResumeDone
<1>43. ASSUME NEW t \in Tasks,
              WLosesLease(t) \/ WSeesCancel(t) \/ LeaseExpires(t) \/
              BeatAges(t)
       PROVE  Untouched(u)'
  BY <1>43
     DEF WLosesLease, WorkerGoes, WSeesCancel, LeaseExpires, BeatAges
<1>44. CASE UNCHANGED vars
  BY <1>44
     DEF vars
<1>. QED
  BY <1>1, <1>2, <1>3, <1>4, <1>5, <1>6, <1>7, <1>8, <1>9, <1>10, <1>11,
     <1>12, <1>13, <1>14, <1>15, <1>16, <1>17, <1>18, <1>19, <1>20, <1>21,
     <1>22, <1>23, <1>24, <1>25, <1>26, <1>27, <1>28, <1>29, <1>30, <1>31,
     <1>32, <1>33, <1>34, <1>35, <1>36, <1>37, <1>38, <1>39, <1>40, <1>41,
     <1>42, <1>43, <1>44
     DEF Next, Boot, Shutdown, User, Thread, Worker, Time

\* Every step keeps the ownership discipline of _detached_tasks.
LEMMA OwnershipStep ==
    ASSUME TypeOK, WriteFence, PromptStart = TRUE, [Next]_vars, NEW u \in Tasks
    PROVE  Ownership(u)'
<1> USE DEF Ownership, Untouched, WriteFence, TypeOK, storeVars, fileVars,
            mainVars, threadVars, workerVars
<1>1. CASE HostCrash
  BY <1>1
     DEF HostCrash, HostGone
<1>2. CASE ShutdownEnd
  BY <1>2
     DEF ShutdownEnd, HostGone
<1>3. ASSUME NEW t \in Tasks, RunStart(t)
       PROVE  Ownership(u)'
  BY <1>3
     DEF RunStart
<1>4. ASSUME NEW t \in Tasks, Reserve(t)
       PROVE  Ownership(u)'
  BY <1>4
     DEF Reserve
<1>5. ASSUME NEW t \in Tasks, SpawnFails(t)
       PROVE  Ownership(u)'
  BY <1>5
     DEF SpawnFails, Terminal
<1>6. ASSUME NEW t \in Tasks, Spawn(t)
       PROVE  Ownership(u)'
  BY <1>6
     DEF Spawn
<1>7. ASSUME NEW t \in Tasks, Register(t)
       PROVE  Ownership(u)'
  BY <1>7
     DEF Register
<1>8. ASSUME NEW t \in Tasks, MonDetach(t)
       PROVE  Ownership(u)'
  BY <1>8
     DEF MonDetach, MonitorEnds
<1>9. ASSUME NEW t \in Tasks, MonRead(t)
       PROVE  Ownership(u)'
  BY <1>9
     DEF MonRead, MonitorEnds
<1>10. ASSUME NEW t \in Tasks, MonCheck(t)
       PROVE  Ownership(u)'
  BY <1>10
     DEF MonCheck, MonitorEnds, Terminal
<1>11. ASSUME NEW t \in Tasks, Retire(t)
       PROVE  Ownership(u)'
  BY <1>11
     DEF Retire
<1>12. ASSUME NEW t \in Tasks, AbortEnd(t)
       PROVE  Ownership(u)'
  BY <1>12
     DEF AbortEnd, LeaveClosing, Verdict
<1>13. ASSUME NEW t \in Tasks, Finalize(t)
       PROVE  Ownership(u)'
  BY <1>13
     DEF Finalize, LeaveClosing, Verdict
<1>14. ASSUME NEW t \in Tasks, Cleanup(t)
       PROVE  Ownership(u)'
  BY <1>14
     DEF Cleanup
<1>15. ASSUME NEW t \in Tasks, Settle(t)
       PROVE  Ownership(u)'
  BY <1>15
     DEF Settle, Verdict
<1>16. ASSUME NEW t \in Tasks, Load(t)
       PROVE  Ownership(u)'
  BY <1>16
     DEF Load
<1>17. ASSUME NEW t \in Tasks, MarkInterrupted(t)
       PROVE  Ownership(u)'
  BY <1>17
     DEF MarkInterrupted
<1>18. ASSUME NEW t \in Tasks, ResumeClaim(t)
       PROVE  Ownership(u)'
  BY <1>18
     DEF ResumeClaim
<1>19. ASSUME NEW t \in Tasks, ResumeFails(t)
       PROVE  Ownership(u)'
  BY <1>19
     DEF ResumeFails
<1>20. ASSUME NEW t \in Tasks, ResumeLink(t)
       PROVE  Ownership(u)'
  BY <1>20
     DEF ResumeLink
<1>21. ASSUME NEW t \in Tasks, ShutdownVisit(t)
       PROVE  Ownership(u)'
  BY <1>21
     DEF ShutdownVisit
<1>22. ASSUME NEW t \in Tasks, Submit(t)
       PROVE  Ownership(u)'
  BY <1>22
     DEF Submit, Admit
<1>23. ASSUME NEW t \in Tasks, SubmitWhileClosing(t)
       PROVE  Ownership(u)'
  BY <1>23
     DEF SubmitWhileClosing
<1>24. ASSUME NEW t \in Tasks, NEW n \in Tasks, ResumeSubmit(t, n)
       PROVE  Ownership(u)'
  BY <1>24
     DEF ResumeSubmit, Admit
<1>25. CASE HostStart \/ LoadDone \/ ResumeDone \/ BeginShutdown
  BY <1>25
     DEF HostStart, LoadDone, ResumeDone, BeginShutdown
<1>26. ASSUME NEW t \in Tasks,
              ResumeSkip(t) \/ Cancel(t) \/ WClaim(t) \/ WReadRequest(t)
              \/ WStartFails(t) \/ WFirstFlush(t) \/ WFirstFlushRefused(t)
              \/ WFlush(t) \/ WLosesLease(t) \/ WSeesCancel(t) \/
              WChatEnds(t) \/ WFinalFlush(t)
       PROVE  Ownership(u)'
  BY <1>26
     DEF ResumeSkip, Cancel, WClaim, WorkerGoes, WReadRequest,
         WStartFails, WFirstFlush, WFirstFlushRefused, WFlush,
         WLosesLease, WSeesCancel, WChatEnds, WFinalFlush
<1>27. ASSUME NEW t \in Tasks,
              WFinalFlushLost(t) \/ WRelease(t) \/ WExit(t) \/ WDies(t) \/
              LeaseExpires(t) \/ BeatAges(t)
       PROVE  Ownership(u)'
  BY <1>27
     DEF WFinalFlushLost, WorkerGoes, WRelease, WExit, WDies,
         LeaseExpires, BeatAges
<1>28. CASE UNCHANGED vars
  BY <1>28
     DEF vars
<1>. QED
  BY <1>1, <1>2, <1>3, <1>4, <1>5, <1>6, <1>7, <1>8, <1>9, <1>10, <1>11,
     <1>12, <1>13, <1>14, <1>15, <1>16, <1>17, <1>18, <1>19, <1>20, <1>21,
     <1>22, <1>23, <1>24, <1>25, <1>26, <1>27, <1>28
     DEF Next, Boot, Shutdown, User, Thread, Worker, Time

\* Every step keeps what is known of a launch in progress.
LEMMA LaunchingStep ==
    ASSUME TypeOK, WriteFence, PromptStart = TRUE, [Next]_vars, NEW u \in Tasks
    PROVE  Launching(u)'
<1> USE DEF Launching, Untouched, Ownership, CancelKept, Outcomes, Alive,
            WriteFence, TypeOK, storeVars, fileVars, mainVars, threadVars,
            workerVars
<1>1. CASE HostCrash
  BY <1>1, SameHolds
     DEF HostCrash, HostGone
<1>2. CASE ShutdownEnd
  BY <1>2, SameHolds
     DEF ShutdownEnd, HostGone
<1>3. ASSUME NEW t \in Tasks, RunStart(t)
       PROVE  Launching(u)'
  BY <1>3, SameHolds, RunStartRow
     DEF RunStart
<1>4. ASSUME NEW t \in Tasks, Reserve(t)
       PROVE  Launching(u)'
  BY <1>4, GrantedHolds
     DEF Reserve
<1>5. ASSUME NEW t \in Tasks, SpawnFails(t)
       PROVE  Launching(u)'
  BY <1>5, ReleasedHolds
     DEF SpawnFails, Terminal
<1>6. ASSUME NEW t \in Tasks, Spawn(t)
       PROVE  Launching(u)'
  BY <1>6, SameHolds
     DEF Spawn
<1>7. ASSUME NEW t \in Tasks, Register(t)
       PROVE  Launching(u)'
  BY <1>7, SameHolds
     DEF Register
<1>8. ASSUME NEW t \in Tasks, MonDetach(t)
       PROVE  Launching(u)'
  BY <1>8, SameHolds
     DEF MonDetach, MonitorEnds
<1>9. ASSUME NEW t \in Tasks, MonRead(t)
       PROVE  Launching(u)'
  BY <1>9, SameHolds
     DEF MonRead, MonitorEnds
<1>10. ASSUME NEW t \in Tasks, MonCheck(t)
       PROVE  Launching(u)'
  BY <1>10, SameHolds
     DEF MonCheck, MonitorEnds, Terminal
<1>11. ASSUME NEW t \in Tasks, Retire(t)
       PROVE  Launching(u)'
  BY <1>11, SameHolds
     DEF Retire
<1>12. ASSUME NEW t \in Tasks, AbortEnd(t)
       PROVE  Launching(u)'
  BY <1>12, FinalizeFact, ReleasedHolds, SameHolds
     DEF AbortEnd, LeaveClosing, Verdict
<1>13. ASSUME NEW t \in Tasks, Finalize(t)
       PROVE  Launching(u)'
  BY <1>13, FinalizeFact, ReleasedHolds, SameHolds
     DEF Finalize, LeaveClosing, Verdict
<1>14. ASSUME NEW t \in Tasks, Cleanup(t)
       PROVE  Launching(u)'
  BY <1>14, ReleasedHolds, SameHolds
     DEF Cleanup
<1>15. ASSUME NEW t \in Tasks, Settle(t)
       PROVE  Launching(u)'
  <2>1. CASE u # t
    BY ZenonT(60), <1>15, <2>1, SameHolds, SettleRow
       DEF Settle, Verdict
  <2>2. CASE u = t
    BY <1>15, <2>2, SameHolds, SettleRow
       DEF Settle, Verdict
  <2>. QED
    BY <2>1, <2>2
<1>16. ASSUME NEW t \in Tasks, Load(t)
       PROVE  Launching(u)'
  BY <1>16, SameHolds
     DEF Load
<1>17. ASSUME NEW t \in Tasks, MarkInterrupted(t)
       PROVE  Launching(u)'
  BY <1>17, SameHolds, MarkRow
     DEF MarkInterrupted
<1>18. ASSUME NEW t \in Tasks, ResumeClaim(t)
       PROVE  Launching(u)'
  BY <1>18, GrantedHolds, ClaimFact
     DEF ResumeClaim
<1>19. ASSUME NEW t \in Tasks, ResumeFails(t)
       PROVE  Launching(u)'
  BY <1>19, ReleasedHolds
     DEF ResumeFails
<1>20. ASSUME NEW t \in Tasks, ResumeLink(t)
       PROVE  Launching(u)'
  <2>1. \A v \in Tasks : Holds(v, "launch")' <=> Holds(v, "launch")
    BY <1>20, ReleasedHolds DEF ResumeLink
  <2>2. CASE u # t
    <3>1. row'[u].status = row[u].status
      BY <1>20, <2>2, ResumeLinkRow
    <3>. QED
      BY <1>20, <2>1, <2>2, <3>1
         DEF ResumeLink
  <2>3. CASE u = t
    BY <1>20, <2>1, <2>3
       DEF ResumeLink
  <2>. QED
    BY <2>2, <2>3
<1>21. ASSUME NEW t \in Tasks, ShutdownVisit(t)
       PROVE  Launching(u)'
  <2>1. \A v \in Tasks : Holds(v, "launch")' <=> Holds(v, "launch")
    BY <1>21, SameHolds DEF ShutdownVisit
  <2>2. wpc' = wpc /\ request' = request /\ wstat' = wstat
    BY <1>21 DEF ShutdownVisit
  <2>3. CASE u # t
    <3>1. row'[u].status = row[u].status
      BY <1>21, <2>3, ShutdownVisitRow
    <3>2. rec'[u] = rec[u] /\ cancelled'[u] = cancelled[u] /\ pc'[u] = pc[u]
      BY <1>21, <2>3 DEF ShutdownVisit
    <3>3. Launching(u)
      OBVIOUS
    <3>. QED
      BY ONLY <2>1, <2>2, <3>1, <3>2, <3>3, u \in Tasks DEF Launching
  <2>4. CASE u = t
    BY <1>21, <2>1, <2>4, ShutdownVisitRow DEF ShutdownVisit
  <2>. QED
    BY <2>3, <2>4
<1>22. ASSUME NEW t \in Tasks, Submit(t)
       PROVE  Launching(u)'
  BY <1>22, SameHolds, SubmitRow
     DEF Submit, Admit
<1>23. ASSUME NEW t \in Tasks, SubmitWhileClosing(t)
       PROVE  Launching(u)'
  BY <1>23, SameHolds, SubmitWhileClosingRow
     DEF SubmitWhileClosing
<1>24. ASSUME NEW t \in Tasks, Cancel(t)
       PROVE  Launching(u)'
  BY <1>24, SameHolds, CancelRow
     DEF Cancel
<1>25. ASSUME NEW t \in Tasks, WClaim(t)
       PROVE  Launching(u)'
  BY <1>25, GrantedHolds, SameHolds
     DEF WClaim, WorkerGoes
<1>26. ASSUME NEW t \in Tasks, WReadRequest(t)
       PROVE  Launching(u)'
  BY <1>26, SameHolds
     DEF WReadRequest, WorkerGoes
<1>27. ASSUME NEW t \in Tasks, WStartFails(t)
       PROVE  Launching(u)'
  BY <1>27, ReleasedHolds
     DEF WStartFails, WorkerGoes
<1>28. ASSUME NEW t \in Tasks, WFirstFlush(t)
       PROVE  Launching(u)'
  BY <1>28, SameHolds, FlushRow
     DEF WFirstFlush, WorkerGoes
<1>29. ASSUME NEW t \in Tasks, WFirstFlushRefused(t)
       PROVE  Launching(u)'
  BY <1>29, SameHolds
     DEF WFirstFlushRefused, WorkerGoes
<1>30. ASSUME NEW t \in Tasks, WFlush(t)
       PROVE  Launching(u)'
  BY <1>30, SameHolds, FlushRow
     DEF WFlush, WorkerGoes
<1>31. ASSUME NEW t \in Tasks, WChatEnds(t)
       PROVE  Launching(u)'
  BY <1>31, SameHolds
     DEF WChatEnds, WorkerGoes
<1>32. ASSUME NEW t \in Tasks, WFinalFlush(t)
       PROVE  Launching(u)'
  BY <1>32, SameHolds, FinalFlushRow
     DEF WFinalFlush, WorkerGoes
<1>33. ASSUME NEW t \in Tasks, WFinalFlushLost(t)
       PROVE  Launching(u)'
  BY <1>33, SameHolds
     DEF WFinalFlushLost, WorkerGoes
<1>34. ASSUME NEW t \in Tasks, WRelease(t)
       PROVE  Launching(u)'
  BY <1>34, ReleasedHolds
     DEF WRelease, WorkerGoes
<1>35. ASSUME NEW t \in Tasks, WExit(t)
       PROVE  Launching(u)'
  BY <1>35, SameHolds
     DEF WExit, WorkerGoes
<1>36. ASSUME NEW t \in Tasks, WDies(t)
       PROVE  Launching(u)'
  BY <1>36, SameHolds
     DEF WDies, WorkerGoes
<1>37. ASSUME NEW t \in Tasks, LeaseExpires(t)
       PROVE  Launching(u)'
  BY <1>37, ExpiredHolds
     DEF LeaseExpires
<1>38. ASSUME NEW t \in Tasks, NEW n \in Tasks, ResumeSubmit(t, n)
       PROVE  Launching(u)'
  BY ZenonT(60), <1>38, SameHolds, ResumeSubmitRow
     DEF ResumeSubmit, Admit
<1>39. CASE HostStart \/ LoadDone \/ ResumeDone \/ BeginShutdown
  BY <1>39, SameHolds
     DEF HostStart, LoadDone, ResumeDone, BeginShutdown
<1>40. ASSUME NEW t \in Tasks,
              ResumeSkip(t) \/ WLosesLease(t) \/ WSeesCancel(t) \/
              BeatAges(t)
       PROVE  Launching(u)'
  BY <1>40, SameHolds
     DEF ResumeSkip, WLosesLease, WorkerGoes, WSeesCancel, BeatAges
<1>41. CASE UNCHANGED vars
  BY <1>41, SameHolds
     DEF vars
<1>. QED
  BY <1>1, <1>2, <1>3, <1>4, <1>5, <1>6, <1>7, <1>8, <1>9, <1>10, <1>11,
     <1>12, <1>13, <1>14, <1>15, <1>16, <1>17, <1>18, <1>19, <1>20, <1>21,
     <1>22, <1>23, <1>24, <1>25, <1>26, <1>27, <1>28, <1>29, <1>30, <1>31,
     <1>32, <1>33, <1>34, <1>35, <1>36, <1>37, <1>38, <1>39, <1>40, <1>41
     DEF Next, Boot, Shutdown, User, Thread, Worker, Time

\* A step that leaves a task's own variables alone keeps both invariants, since
\* no worker regains the right to write it.
LEMMA LoadingFrame ==
    ASSUME WriteFence, NEW u \in Tasks, row'[u].status = row[u].status,
           host' = host, todo' = todo, seen' = seen, pc'[u] = pc[u],
           MayWrite(u)' => MayWrite(u) \/ pc[u] = "reserved"
    PROVE  Loading(u)'
BY DEF WriteFence, Loading

\* The same for what is settled: the row, the record and the thread of the task are
\* as before.
LEMMA FencedFrame ==
    ASSUME WriteFence, NEW u \in Tasks, row'[u].status = row[u].status,
           rec'[u] = rec[u], pc'[u] = pc[u], adopted'[u] = adopted[u],
           u \in detached' <=> u \in detached,
           MayWrite(u)' => MayWrite(u) \/ pc[u] = "reserved"
    PROVE  Fenced(u)'
BY DEF WriteFence, Fenced, Ownership

\* Every step keeps what the start-up loop relies on.
LEMMA LoadingStep ==
    ASSUME TypeOK, WriteFence, PromptStart = TRUE, [Next]_vars, NEW u \in Tasks
    PROVE  Loading(u)'
<1> USE DEF Loading, Untouched, Ownership, Launching, Active, Terminal,
            WriteFence, TypeOK, storeVars, fileVars, mainVars, threadVars,
            workerVars
<1>1. CASE HostStart
  BY <1>1, MayWriteStep
     DEF HostStart
<1>2. CASE HostCrash
  BY <1>2, MayWriteStep
     DEF HostCrash, HostGone
<1>3. CASE LoadDone
  BY <1>3, MayWriteStep
     DEF LoadDone
<1>4. CASE ResumeDone
  BY <1>4, MayWriteStep
     DEF ResumeDone
<1>5. CASE ShutdownEnd
  BY <1>5, MayWriteStep
     DEF ShutdownEnd, HostGone
<1>6. CASE BeginShutdown
  BY <1>6, MayWriteStep
     DEF BeginShutdown
<1>7. ASSUME NEW t \in Tasks, RunStart(t)
       PROVE  Loading(u)'
  BY <1>7, RunStartRow, MayWriteStep
     DEF RunStart
<1>8. ASSUME NEW t \in Tasks, Reserve(t)
       PROVE  Loading(u)'
  BY <1>8, MayWriteStep
     DEF Reserve
<1>9. ASSUME NEW t \in Tasks, SpawnFails(t)
       PROVE  Loading(u)'
  BY <1>9, MayWriteStep
     DEF SpawnFails, Terminal
<1>10. ASSUME NEW t \in Tasks, Spawn(t)
       PROVE  Loading(u)'
  BY <1>10, MayWriteStep
     DEF Spawn
<1>11. ASSUME NEW t \in Tasks, Register(t)
       PROVE  Loading(u)'
  BY <1>11, MayWriteStep
     DEF Register
<1>12. ASSUME NEW t \in Tasks, MonDetach(t)
       PROVE  Loading(u)'
  BY <1>12, MayWriteStep
     DEF MonDetach, MonitorEnds
<1>13. ASSUME NEW t \in Tasks, MonRead(t)
       PROVE  Loading(u)'
  BY <1>13, MayWriteStep
     DEF MonRead, MonitorEnds
<1>14. ASSUME NEW t \in Tasks, MonCheck(t)
       PROVE  Loading(u)'
  BY <1>14, MayWriteStep
     DEF MonCheck, MonitorEnds, Terminal
<1>15. ASSUME NEW t \in Tasks, Retire(t)
       PROVE  Loading(u)'
  BY <1>15, MayWriteStep
     DEF Retire
<1>16. ASSUME NEW t \in Tasks, AbortEnd(t)
       PROVE  Loading(u)'
  BY <1>16, FinalizeFact, MayWriteStep
     DEF AbortEnd, LeaveClosing, Verdict
<1>17. ASSUME NEW t \in Tasks, Finalize(t)
       PROVE  Loading(u)'
  BY <1>17, FinalizeFact, MayWriteStep
     DEF Finalize, LeaveClosing, Verdict
<1>18. ASSUME NEW t \in Tasks, Cleanup(t)
       PROVE  Loading(u)'
  BY <1>18, MayWriteStep
     DEF Cleanup
<1>19. ASSUME NEW t \in Tasks, Settle(t)
       PROVE  Loading(u)'
  <2>1. CASE u # t
    <3>1. row'[u].status = row[u].status
      BY <1>19, <2>1, SettleRow
    <3>. QED
      BY <1>19, <2>1, <3>1, MayWriteStep, LoadingFrame
         DEF Settle
  <2>2. CASE u = t
    BY <1>19, <2>2, SettleRow, MayWriteStep
       DEF Settle, Verdict
  <2>. QED
    BY <2>1, <2>2
<1>20. ASSUME NEW t \in Tasks, Load(t)
       PROVE  Loading(u)'
  BY <1>20, MayWriteStep
     DEF Load
<1>21. ASSUME NEW t \in Tasks, MarkInterrupted(t)
       PROVE  Loading(u)'
  BY ZenonT(60), <1>21, MarkRow, MayWriteStep
     DEF MarkInterrupted
<1>22. ASSUME NEW t \in Tasks, ResumeSkip(t)
       PROVE  Loading(u)'
  BY <1>22, MayWriteStep
     DEF ResumeSkip
<1>23. ASSUME NEW t \in Tasks, ResumeClaim(t)
       PROVE  Loading(u)'
  BY <1>23, MayWriteStep
     DEF ResumeClaim
<1>24. ASSUME NEW t \in Tasks, ResumeFails(t)
       PROVE  Loading(u)'
  BY <1>24, MayWriteStep
     DEF ResumeFails
<1>25. ASSUME NEW t \in Tasks, ResumeLink(t)
       PROVE  Loading(u)'
  BY ZenonT(60), <1>25, ResumeLinkRow, MayWriteStep
     DEF ResumeLink
<1>26. ASSUME NEW t \in Tasks, ShutdownVisit(t)
       PROVE  Loading(u)'
  BY <1>26, ShutdownVisitRow, MayWriteStep
     DEF ShutdownVisit
<1>27. ASSUME NEW t \in Tasks, Submit(t)
       PROVE  Loading(u)'
  BY <1>27, SubmitRow, MayWriteStep
     DEF Submit, Admit
<1>28. ASSUME NEW t \in Tasks, SubmitWhileClosing(t)
       PROVE  Loading(u)'
  BY <1>28, SubmitWhileClosingRow, MayWriteStep
     DEF SubmitWhileClosing
<1>29. ASSUME NEW t \in Tasks, Cancel(t)
       PROVE  Loading(u)'
  BY <1>29, CancelRow, MayWriteStep
     DEF Cancel
<1>30. ASSUME NEW t \in Tasks, WFirstFlush(t)
       PROVE  Loading(u)'
  BY ZenonT(60), <1>30, FlushRow, MayWriteStep
     DEF WFirstFlush, WorkerGoes
<1>31. ASSUME NEW t \in Tasks, WFlush(t)
       PROVE  Loading(u)'
  BY <1>31, FlushRow, MayWriteStep
     DEF WFlush, WorkerGoes
<1>32. ASSUME NEW t \in Tasks, WFinalFlush(t)
       PROVE  Loading(u)'
  <2>1. CASE u # t
    <3>1. row'[u].status = row[u].status
      BY <1>32, <2>1, FinalFlushRow
    <3>. QED
      BY <1>32, <2>1, <3>1, MayWriteStep, LoadingFrame
         DEF WFinalFlush
  <2>2. CASE u = t
    <3>1. ~MayWrite(u)'
      BY <1>32, <2>2 DEF WFinalFlush, WorkerGoes, MayWrite
    <3>. QED
      BY <1>32, <2>2, <3>1 DEF WFinalFlush
  <2>. QED
    BY <2>1, <2>2
<1>33. ASSUME NEW t \in Tasks, NEW n \in Tasks, ResumeSubmit(t, n)
       PROVE  Loading(u)'
  <2>1. /\ host # "down" /\ n \notin todo
        /\ host = "loading" => t \notin todo
    BY <1>33 DEF ResumeSubmit, Admit
  <2>2. CASE u \notin {t, n}
    <3>1. row'[u].status = row[u].status
      BY <1>33, <2>2, ResumeSubmitRow
    <3>. QED
      BY <1>33, <2>2, <3>1, MayWriteStep, LoadingFrame
         DEF ResumeSubmit, Admit
  <2>3. CASE u \in {t, n}
    BY <1>33, <2>1, <2>3 DEF ResumeSubmit
  <2>. QED
    BY <2>2, <2>3
<1>34. ASSUME NEW t \in Tasks,
              WClaim(t) \/ WReadRequest(t) \/ WStartFails(t) \/
              WFirstFlushRefused(t) \/ WLosesLease(t) \/ WSeesCancel(t) \/
              WChatEnds(t) \/ WFinalFlushLost(t) \/ WRelease(t) \/
              WExit(t) \/ WDies(t) \/ LeaseExpires(t)
       PROVE  Loading(u)'
  BY <1>34, MayWriteStep
     DEF WClaim, WorkerGoes, WReadRequest, WStartFails,
         WFirstFlushRefused, WLosesLease, WSeesCancel, WChatEnds,
         WFinalFlushLost, WRelease, WExit, WDies, LeaseExpires
<1>35. ASSUME NEW t \in Tasks,
              BeatAges(t)
       PROVE  Loading(u)'
  BY <1>35, MayWriteStep
     DEF BeatAges
<1>36. CASE UNCHANGED vars
  BY <1>36, MayWriteStep
     DEF vars
<1>. QED
  BY <1>1, <1>2, <1>3, <1>4, <1>5, <1>6, <1>7, <1>8, <1>9, <1>10, <1>11,
     <1>12, <1>13, <1>14, <1>15, <1>16, <1>17, <1>18, <1>19, <1>20, <1>21,
     <1>22, <1>23, <1>24, <1>25, <1>26, <1>27, <1>28, <1>29, <1>30, <1>31,
     <1>32, <1>33, <1>34, <1>35, <1>36
     DEF Next, Boot, Shutdown, User, Thread, Worker, Time

\* Every step keeps the settled rows out of the workers' reach.
LEMMA FencedStep ==
    ASSUME TypeOK, WriteFence, PromptStart = TRUE, [Next]_vars, NEW u \in Tasks
    PROVE  Fenced(u)'
<1> USE DEF Fenced, Untouched, Ownership, Launching, CancelKept, Outcomes,
            Loading, MayWrite, Terminal, WriteFence, TypeOK, storeVars,
            fileVars, mainVars, threadVars, workerVars
<1>1. CASE HostCrash
  BY <1>1, MayWriteStep
     DEF HostCrash, HostGone
<1>2. CASE ShutdownEnd
  BY <1>2, MayWriteStep
     DEF ShutdownEnd, HostGone
<1>3. ASSUME NEW t \in Tasks, RunStart(t)
       PROVE  Fenced(u)'
  BY <1>3, RunStartRow, MayWriteStep
     DEF RunStart
<1>4. ASSUME NEW t \in Tasks, Reserve(t)
       PROVE  Fenced(u)'
  BY <1>4, MayWriteStep
     DEF Reserve
<1>5. ASSUME NEW t \in Tasks, SpawnFails(t)
       PROVE  Fenced(u)'
  BY <1>5, MayWriteStep
     DEF SpawnFails, Terminal
<1>6. ASSUME NEW t \in Tasks, Spawn(t)
       PROVE  Fenced(u)'
  BY <1>6, MayWriteStep
     DEF Spawn
<1>7. ASSUME NEW t \in Tasks, Register(t)
       PROVE  Fenced(u)'
  BY <1>7, MayWriteStep
     DEF Register
<1>8. ASSUME NEW t \in Tasks, MonDetach(t)
       PROVE  Fenced(u)'
  BY <1>8, MayWriteStep
     DEF MonDetach, MonitorEnds
<1>9. ASSUME NEW t \in Tasks, MonRead(t)
       PROVE  Fenced(u)'
  BY <1>9, MayWriteStep
     DEF MonRead, MonitorEnds
<1>10. ASSUME NEW t \in Tasks, MonCheck(t)
       PROVE  Fenced(u)'
  <2>1. CASE u # t
    BY <1>10, <2>1, MayWriteStep
       DEF MonCheck, MonitorEnds, Terminal
  <2>2. CASE u = t
    <3>1. MayWrite(t)' => MayWrite(t)
      BY <1>10, MayWriteStep DEF MonCheck
    <3>2. ~HasLiveWorker(t, seen[t]) => ~MayWrite(t)
      BY DEF HasLiveWorker, Holds
    <3>3. /\ row' = row /\ adopted' = adopted /\ detached' = detached
          /\ pc[t] = "check" /\ t \in detached
          /\ \/ ~adopted[t] /\ pc'[t] \in {"retire", "monitor"}
             \/ adopted[t] /\ pc'[t] = "monitor"
             \/ adopted[t] /\ pc'[t] = "settle" /\ ~HasLiveWorker(t, seen[t])
      BY <1>10 DEF MonCheck, MonitorEnds
    <3>. QED
      BY <2>2, <3>1, <3>2, <3>3
  <2>. QED
    BY <2>1, <2>2
<1>11. ASSUME NEW t \in Tasks, Retire(t)
       PROVE  Fenced(u)'
  BY <1>11, MayWriteStep
     DEF Retire
<1>12. ASSUME NEW t \in Tasks, AbortEnd(t)
       PROVE  Fenced(u)'
  BY <1>12, FinalizeFact, MayWriteStep
     DEF AbortEnd, LeaveClosing, Verdict
<1>13. ASSUME NEW t \in Tasks, Finalize(t)
       PROVE  Fenced(u)'
  BY <1>13, FinalizeFact, MayWriteStep
     DEF Finalize, LeaveClosing, Verdict
<1>14. ASSUME NEW t \in Tasks, Cleanup(t)
       PROVE  Fenced(u)'
  <2>1. CASE u # t
    BY <1>14, <2>1, MayWriteStep
       DEF Cleanup
  <2>2. CASE u = t
    <3>1. pc'[t] = "settle" /\ t \in detached /\ ~adopted'[t]
      BY <1>14 DEF Cleanup
    <3>2. CASE host = "closing"
      BY <1>14, <2>2, <3>1, <3>2 DEF Cleanup
    <3>3. CASE host # "closing"
      <4>1. lease' = Released(t, "launch") /\ ~request'[t]
        BY <1>14, <3>3 DEF Cleanup
      <4>2. ~Holds(t, "launch")'
        BY <4>1, ReleasedHolds
      <4>3. ~MayWrite(t)'
        BY <4>1, <4>2
      <4>. QED
        BY <2>2, <3>1, <4>3
    <3>. QED
      BY <3>2, <3>3
  <2>. QED
    BY <2>1, <2>2
<1>15. ASSUME NEW t \in Tasks, Settle(t)
       PROVE  Fenced(u)'
  <2>1. CASE u # t
    <3>1. row'[u].status = row[u].status
      BY <1>15, <2>1, SettleRow
    <3>. QED
      BY <1>15, <2>1, <3>1, MayWriteStep, FencedFrame
         DEF Settle, Verdict
  <2>2. CASE u = t
    BY ZenonT(60), <1>15, <2>2, SettleRow, MayWriteStep
       DEF Settle, Verdict
  <2>. QED
    BY <2>1, <2>2
<1>16. ASSUME NEW t \in Tasks, Load(t)
       PROVE  Fenced(u)'
  BY <1>16, MayWriteStep
     DEF Load
<1>17. ASSUME NEW t \in Tasks, MarkInterrupted(t)
       PROVE  Fenced(u)'
  <2>1. CASE u # t
    BY ZenonT(60), <1>17, <2>1, MarkRow, MayWriteStep
       DEF MarkInterrupted
  <2>2. CASE u = t
    BY <1>17, <2>2, MarkRow, MayWriteStep
       DEF MarkInterrupted
  <2>. QED
    BY <2>1, <2>2
<1>18. ASSUME NEW t \in Tasks, ResumeClaim(t)
       PROVE  Fenced(u)'
  BY <1>18, MayWriteStep
     DEF ResumeClaim
<1>19. ASSUME NEW t \in Tasks, ResumeFails(t)
       PROVE  Fenced(u)'
  BY <1>19, MayWriteStep
     DEF ResumeFails
<1>20. ASSUME NEW t \in Tasks, ResumeLink(t)
       PROVE  Fenced(u)'
  <2>1. CASE u # t
    BY ZenonT(60), <1>20, <2>1, ResumeLinkRow, MayWriteStep
       DEF ResumeLink
  <2>2. CASE u = t
    BY <1>20, <2>2, ResumeLinkRow, MayWriteStep
       DEF ResumeLink
  <2>. QED
    BY <2>1, <2>2
<1>21. ASSUME NEW t \in Tasks, ShutdownVisit(t)
       PROVE  Fenced(u)'
  <2>1. CASE u # t
    <3>1. row'[u].status = row[u].status
      BY <1>21, <2>1, ShutdownVisitRow
    <3>. QED
      BY <1>21, <2>1, <3>1, MayWriteStep, FencedFrame
         DEF ShutdownVisit
  <2>2. CASE u = t
    <3>. DEFINE drop == t \notin detached /\ rec[t] \in {"queued", "running"}
    <3>1. row'[t].status = IF drop THEN "cancelled" ELSE row[t].status
      BY <1>21, ShutdownVisitRow DEF Active
    <3>2. /\ rec'[t] = IF drop THEN "cancelled" ELSE rec[t]
          /\ pc'[t] = IF pc[t] = "admitted" THEN "settled" ELSE pc[t]
          /\ adopted' = adopted /\ detached' = detached
      BY <1>21 DEF ShutdownVisit, Active
    <3>3. pc[t] # "reserved" => (MayWrite(t)' => MayWrite(t))
      BY MayWriteStep
    <3>4. CASE pc[t] = "admitted"
      <4>1. ~MayWrite(t)' /\ t \notin detached
        BY <3>3, <3>4
      <4>2. row'[t].status = rec'[t] /\ rec'[t] = "cancelled"
        BY <3>1, <3>2, <3>4, <4>1
      <4>. QED
        BY <2>2, <3>2, <3>4, <4>1, <4>2
    <3>5. CASE pc[t] # "admitted"
      <4>. HIDE DEF drop
      <4>1. pc[t] = "settled" \/ pc[t] \in {"monitor", "check"} => ~drop
        BY DEF drop
      <4>. QED
        BY <2>2, <3>1, <3>2, <3>3, <3>5, <4>1
    <3>. QED
      BY <3>4, <3>5
  <2>. QED
    BY <2>1, <2>2
<1>22. ASSUME NEW t \in Tasks, Submit(t)
       PROVE  Fenced(u)'
  <2>1. CASE u # t
    <3>1. row'[u].status = row[u].status
      BY <1>22, <2>1, SubmitRow
    <3>. QED
      BY <1>22, <2>1, <3>1, MayWriteStep, FencedFrame
         DEF Submit, Admit
  <2>2. CASE u = t
    BY <1>22, <2>2
       DEF Submit, Admit
  <2>. QED
    BY <2>1, <2>2
<1>23. ASSUME NEW t \in Tasks, SubmitWhileClosing(t)
       PROVE  Fenced(u)'
  <2>1. CASE u # t
    <3>1. row'[u].status = row[u].status
      BY <1>23, <2>1, SubmitWhileClosingRow
    <3>. QED
      BY <1>23, <2>1, <3>1, MayWriteStep, FencedFrame
         DEF SubmitWhileClosing
  <2>2. CASE u = t
    BY <1>23, <2>2, SubmitWhileClosingRow, MayWriteStep
       DEF SubmitWhileClosing
  <2>. QED
    BY <2>1, <2>2
<1>24. ASSUME NEW t \in Tasks, Cancel(t)
       PROVE  Fenced(u)'
  <2>1. CASE u # t
    <3>1. row'[u].status = row[u].status
      BY <1>24, <2>1, CancelRow
    <3>. QED
      BY <1>24, <2>1, <3>1, MayWriteStep, FencedFrame
         DEF Cancel
  <2>2. CASE u = t
    <3>1. /\ rec[t] \in {"queued", "running"} /\ pc' = pc
          /\ adopted' = adopted /\ detached' = detached
      BY <1>24 DEF Cancel, Active
    <3>2. t \in detached => row'[t].status = row[t].status
      BY <1>24, CancelRow
    <3>3. pc[t] # "settled"
      BY <3>1
    <3>4. pc[t] # "reserved" => (MayWrite(t)' => MayWrite(t))
      BY MayWriteStep
    <3>. QED
      BY <2>2, <3>1, <3>2, <3>3, <3>4
  <2>. QED
    BY <2>1, <2>2
<1>25. ASSUME NEW t \in Tasks, WFirstFlush(t)
       PROVE  Fenced(u)'
  <2>1. CASE u # t
    BY ZenonT(60), <1>25, <2>1, FlushRow, MayWriteStep
       DEF WFirstFlush, WorkerGoes
  <2>2. CASE u = t
    BY <1>25, <2>2, FlushRow, MayWriteStep
       DEF WFirstFlush, WorkerGoes
  <2>. QED
    BY <2>1, <2>2
<1>26. ASSUME NEW t \in Tasks, WFlush(t)
       PROVE  Fenced(u)'
  BY <1>26, FlushRow, MayWriteStep
     DEF WFlush, WorkerGoes
<1>27. ASSUME NEW t \in Tasks, WFinalFlush(t)
       PROVE  Fenced(u)'
  <2>1. CASE u # t
    BY ZenonT(60), <1>27, <2>1, FinalFlushRow, MayWriteStep
       DEF WFinalFlush, WorkerGoes
  <2>2. CASE u = t
    BY <1>27, <2>2, FinalFlushRow, MayWriteStep
       DEF WFinalFlush, WorkerGoes
  <2>. QED
    BY <2>1, <2>2
<1>28. ASSUME NEW t \in Tasks, NEW n \in Tasks, ResumeSubmit(t, n)
       PROVE  Fenced(u)'
  <2>1. CASE u \notin {t, n}
    <3>1. row'[u].status = row[u].status
      BY <1>28, <2>1, ResumeSubmitRow
    <3>. QED
      BY <1>28, <2>1, <3>1, MayWriteStep, FencedFrame
         DEF ResumeSubmit, Admit
  <2>2. CASE u \in {t, n}
    <3>1. pc'[u] \in {"link", "admitted"}
      BY <1>28, <2>2 DEF ResumeSubmit
    <3>. QED
      BY <3>1
  <2>. QED
    BY <2>1, <2>2
<1>29. CASE HostStart \/ LoadDone \/ ResumeDone \/ BeginShutdown
  BY <1>29, MayWriteStep
     DEF HostStart, LoadDone, ResumeDone, BeginShutdown
<1>30. ASSUME NEW t \in Tasks,
              ResumeSkip(t) \/ WClaim(t) \/ WReadRequest(t) \/
              WStartFails(t) \/ WFirstFlushRefused(t) \/ WLosesLease(t) \/
              WSeesCancel(t) \/ WChatEnds(t) \/ WFinalFlushLost(t) \/
              WRelease(t) \/ WExit(t) \/ WDies(t)
       PROVE  Fenced(u)'
  BY <1>30, MayWriteStep
     DEF ResumeSkip, WClaim, WorkerGoes, WReadRequest, WStartFails,
         WFirstFlushRefused, WLosesLease, WSeesCancel, WChatEnds,
         WFinalFlushLost, WRelease, WExit, WDies
<1>31. ASSUME NEW t \in Tasks,
              LeaseExpires(t) \/ BeatAges(t)
       PROVE  Fenced(u)'
  BY <1>31, MayWriteStep
     DEF LeaseExpires, BeatAges
<1>32. CASE UNCHANGED vars
  BY <1>32, MayWriteStep
     DEF vars
<1>. QED
  BY <1>1, <1>2, <1>3, <1>4, <1>5, <1>6, <1>7, <1>8, <1>9, <1>10, <1>11,
     <1>12, <1>13, <1>14, <1>15, <1>16, <1>17, <1>18, <1>19, <1>20, <1>21,
     <1>22, <1>23, <1>24, <1>25, <1>26, <1>27, <1>28, <1>29, <1>30, <1>31,
     <1>32
     DEF Next, Boot, Shutdown, User, Thread, Worker, Time

\* The fence holds before the first host starts: nothing has been submitted.
LEMMA FenceInit == Init => WriteFence
BY DEF Init, WriteFence, Untouched, Ownership, Launching, CancelKept, Outcomes,
       Loading, Fenced, Terminal, NoRow, Alive

\* The inductive step of the fence, part by part.
LEMMA FenceStep ==
    ASSUME TypeOK, WriteFence, PromptStart = TRUE, [Next]_vars
    PROVE  WriteFence'
<1>1. \A u \in Tasks : Outcomes(u)'
  BY OutcomesStep DEF Typed, WriteFence
<1>2. ASSUME NEW u \in Tasks
      PROVE  /\ Untouched(u)' /\ Ownership(u)' /\ Launching(u)'
             /\ CancelKept(u)' /\ Loading(u)' /\ Fenced(u)'
  BY UntouchedStep, OwnershipStep, LaunchingStep, CancelKeptStep, LoadingStep,
     FencedStep
<1>. QED
  BY <1>1, <1>2 DEF WriteFence

\* Typing and the fence together are an invariant when workers start promptly.
LEMMA FenceInvariant ==
    ASSUME PromptStart = TRUE
    PROVE  Spec => [](TypeOK /\ WriteFence)
<1>1. Init => TypeOK /\ WriteFence
  BY TypeInit, FenceInit
<1>2. TypeOK /\ WriteFence /\ [Next]_vars => (TypeOK /\ WriteFence)'
  <2>1. TypeOK /\ WriteFence /\ [Next]_vars => TypeOK'
    BY TypeStep DEF Typed, WriteFence
  <2>2. TypeOK /\ WriteFence /\ [Next]_vars => WriteFence'
    BY FenceStep
  <2>. QED
    BY <2>1, <2>2
<1>. QED
  BY <1>1, <1>2, PTL DEF Spec

\* What a host thread settled stays the verdict of the row: the record is
\* terminal, the row agrees with it, and no worker can write the row any more
\* (_run, _finalize_aborted_snapshot and the fenced upsert of the store).
THEOREM SettledVerdictHolds ==
    ASSUME PromptStart = TRUE
    PROVE  Spec => []SettledVerdict
<1>1. TypeOK /\ WriteFence => SettledVerdict
  BY DEF WriteFence, Fenced, SettledVerdict
<1>. QED
  BY <1>1, FenceInvariant, PTL

\* A user's cancellation is the verdict of a settled task (TaskManager.cancel
\* against the result that the worker committed at the same time).
THEOREM CancelWinsHolds ==
    ASSUME PromptStart = TRUE
    PROVE  Spec => []CancelWins
<1>1. TypeOK /\ WriteFence => CancelWins
  BY DEF WriteFence, Fenced, CancelKept, CancelWins
<1>. QED
  BY <1>1, FenceInvariant, PTL

-----------------------------------------------------------------------------
(* One watched worker *)

\* A worker waits for its claim only after Popen.
LEMMA SpawnedStep ==
    ASSUME TypeOK, [Next]_vars, NEW u \in Tasks, wpc'[u] = "spawned"
    PROVE  wpc[u] = "spawned" \/ pc[u] = "reserved"
<1>. USE DEF TypeOK, storeVars, fileVars, mainVars, threadVars, workerVars
<1>1. CASE HostStart
  BY <1>1 DEF HostStart
<1>2. CASE HostCrash
  BY <1>2 DEF HostCrash, HostGone
<1>3. CASE LoadDone
  BY <1>3 DEF LoadDone
<1>4. CASE ResumeDone
  BY <1>4 DEF ResumeDone
<1>5. CASE ShutdownEnd
  BY <1>5 DEF ShutdownEnd, HostGone
<1>6. CASE BeginShutdown
  BY <1>6 DEF BeginShutdown
<1>7. ASSUME NEW t \in Tasks, Spawn(t)
       PROVE  wpc[u] = "spawned" \/ pc[u] = "reserved"
  BY <1>7 DEF Spawn
<1>8. ASSUME NEW t \in Tasks, AbortEnd(t)
       PROVE  wpc[u] = "spawned" \/ pc[u] = "reserved"
  BY <1>8, FinalizeFact DEF AbortEnd, LeaveClosing, Verdict
<1>9. ASSUME NEW t \in Tasks, NEW n \in Tasks, ResumeSubmit(t, n)
       PROVE  wpc[u] = "spawned" \/ pc[u] = "reserved"
  BY <1>9, ResumeSubmitRow DEF ResumeSubmit, Admit
<1>10. ASSUME NEW t \in Tasks, RunStart(t) \/ Reserve(t) \/ SpawnFails(t) \/
  Register(t) \/ MonDetach(t) \/ MonRead(t) \/ MonCheck(t) \/ Retire(t) \/ Finalize(t)
  \/ Cleanup(t) \/ Settle(t)
       PROVE  wpc[u] = "spawned" \/ pc[u] = "reserved"
  BY <1>10, RunStartRow, FinalizeFact, SettleRow DEF RunStart, Reserve, SpawnFails,
    Register, MonDetach, MonitorEnds, MonRead, MonCheck, Retire, Finalize,
    LeaveClosing, Verdict, Cleanup, Settle
<1>11. ASSUME NEW t \in Tasks, Load(t) \/ MarkInterrupted(t) \/ ResumeSkip(t) \/
  ResumeClaim(t) \/ ResumeFails(t) \/ ResumeLink(t) \/ ShutdownVisit(t) \/ Submit(t)
  \/ SubmitWhileClosing(t) \/ Cancel(t)
       PROVE  wpc[u] = "spawned" \/ pc[u] = "reserved"
  BY <1>11, MarkRow, ResumeLinkRow, ShutdownVisitRow, SubmitRow,
    SubmitWhileClosingRow, CancelRow DEF Load, MarkInterrupted, ResumeSkip,
    ResumeClaim, ResumeFails, ResumeLink, ShutdownVisit, Submit, Admit,
    SubmitWhileClosing, Cancel
<1>12. ASSUME NEW t \in Tasks, WClaim(t) \/ WReadRequest(t) \/ WStartFails(t) \/
  WFirstFlush(t) \/ WFlush(t) \/ WLosesLease(t) \/ WSeesCancel(t) \/ WChatEnds(t) \/
  WFinalFlushLost(t) \/ WExit(t) \/ WDies(t) \/ BeatAges(t) \/ WFirstFlushRefused(t)
       PROVE  wpc[u] = "spawned" \/ pc[u] = "reserved"
  BY <1>12, FlushRow DEF WClaim, WorkerGoes, WReadRequest, WStartFails, WFirstFlush,
    WFlush, WLosesLease, WSeesCancel, WChatEnds, WFinalFlushLost, WExit, WDies,
    BeatAges, WFirstFlushRefused
<1>13. ASSUME NEW t \in Tasks, WFinalFlush(t) \/ WRelease(t) \/ LeaseExpires(t)
       PROVE  wpc[u] = "spawned" \/ pc[u] = "reserved"
  BY <1>13, FinalFlushRow DEF WFinalFlush, WorkerGoes, WRelease, LeaseExpires
<1>14. CASE UNCHANGED vars
  BY <1>14 DEF vars
<1>. QED
  BY <1>1, <1>2, <1>3, <1>4, <1>5, <1>6, <1>7, <1>8, <1>9, <1>10, <1>11, <1>12,
    <1>13, <1>14
     DEF Next, Boot, Shutdown, User, Thread, Worker, Time

\* Only the thread that reserves and the worker that claims get a lease.
LEMMA HoldsStep ==
    ASSUME TypeOK, [Next]_vars, NEW u \in Tasks, Holds(u, "launch")'
    PROVE  Holds(u, "launch") \/ pc[u] = "launch" \/ wpc[u] = "spawned"
<1>. USE DEF TypeOK, storeVars, fileVars, mainVars, threadVars, workerVars
<1>1. CASE HostStart
  BY <1>1, SameHolds DEF HostStart
<1>2. CASE HostCrash
  BY <1>2, SameHolds DEF HostCrash, HostGone
<1>3. CASE LoadDone
  BY <1>3, SameHolds DEF LoadDone
<1>4. CASE ResumeDone
  BY <1>4, SameHolds DEF ResumeDone
<1>5. CASE ShutdownEnd
  BY <1>5, SameHolds DEF ShutdownEnd, HostGone
<1>6. CASE BeginShutdown
  BY <1>6, SameHolds DEF BeginShutdown
<1>7. ASSUME NEW t \in Tasks, Reserve(t)
       PROVE  Holds(u, "launch") \/ pc[u] = "launch" \/ wpc[u] = "spawned"
  BY <1>7, GrantedHolds DEF Reserve
<1>8. ASSUME NEW t \in Tasks, SpawnFails(t)
       PROVE  Holds(u, "launch") \/ pc[u] = "launch" \/ wpc[u] = "spawned"
  BY <1>8, ReleasedHolds DEF SpawnFails
<1>9. ASSUME NEW t \in Tasks, AbortEnd(t)
       PROVE  Holds(u, "launch") \/ pc[u] = "launch" \/ wpc[u] = "spawned"
  BY <1>9, FinalizeFact, ReleasedHolds, SameHolds DEF AbortEnd, LeaveClosing,
    Verdict
<1>10. ASSUME NEW t \in Tasks, Finalize(t)
       PROVE  Holds(u, "launch") \/ pc[u] = "launch" \/ wpc[u] = "spawned"
  BY <1>10, FinalizeFact, ReleasedHolds, SameHolds DEF Finalize, LeaveClosing,
    Verdict
<1>11. ASSUME NEW t \in Tasks, Cleanup(t)
       PROVE  Holds(u, "launch") \/ pc[u] = "launch" \/ wpc[u] = "spawned"
  BY <1>11, ReleasedHolds, SameHolds DEF Cleanup
<1>12. ASSUME NEW t \in Tasks, ResumeClaim(t)
       PROVE  Holds(u, "launch") \/ pc[u] = "launch" \/ wpc[u] = "spawned"
  BY <1>12, GrantedHolds DEF ResumeClaim
<1>13. ASSUME NEW t \in Tasks, ResumeFails(t)
       PROVE  Holds(u, "launch") \/ pc[u] = "launch" \/ wpc[u] = "spawned"
  BY <1>13, ReleasedHolds DEF ResumeFails
<1>14. ASSUME NEW t \in Tasks, ResumeLink(t)
       PROVE  Holds(u, "launch") \/ pc[u] = "launch" \/ wpc[u] = "spawned"
  BY <1>14, ResumeLinkRow, ReleasedHolds DEF ResumeLink
<1>15. ASSUME NEW t \in Tasks, WClaim(t)
       PROVE  Holds(u, "launch") \/ pc[u] = "launch" \/ wpc[u] = "spawned"
  BY <1>15, GrantedHolds, SameHolds DEF WClaim, WorkerGoes
<1>16. ASSUME NEW t \in Tasks, WStartFails(t)
       PROVE  Holds(u, "launch") \/ pc[u] = "launch" \/ wpc[u] = "spawned"
  BY <1>16, ReleasedHolds DEF WStartFails, WorkerGoes
<1>17. ASSUME NEW t \in Tasks, WRelease(t)
       PROVE  Holds(u, "launch") \/ pc[u] = "launch" \/ wpc[u] = "spawned"
  BY <1>17, ReleasedHolds DEF WRelease, WorkerGoes
<1>18. ASSUME NEW t \in Tasks, LeaseExpires(t)
       PROVE  Holds(u, "launch") \/ pc[u] = "launch" \/ wpc[u] = "spawned"
  BY <1>18, ExpiredHolds DEF LeaseExpires
<1>19. ASSUME NEW t \in Tasks, NEW n \in Tasks, ResumeSubmit(t, n)
       PROVE  Holds(u, "launch") \/ pc[u] = "launch" \/ wpc[u] = "spawned"
  BY <1>19, ResumeSubmitRow, SameHolds DEF ResumeSubmit, Admit
<1>20. ASSUME NEW t \in Tasks, RunStart(t) \/ Spawn(t) \/ Register(t) \/ MonDetach(t)
  \/ MonRead(t) \/ MonCheck(t) \/ Retire(t) \/ Settle(t)
       PROVE  Holds(u, "launch") \/ pc[u] = "launch" \/ wpc[u] = "spawned"
  BY <1>20, RunStartRow, SettleRow, SameHolds DEF RunStart, Spawn, Register,
    MonDetach, MonitorEnds, MonRead, MonCheck, Retire, Settle, Verdict
<1>21. ASSUME NEW t \in Tasks, Load(t) \/ MarkInterrupted(t) \/ ResumeSkip(t) \/
  ShutdownVisit(t) \/ Submit(t) \/ SubmitWhileClosing(t) \/ Cancel(t)
       PROVE  Holds(u, "launch") \/ pc[u] = "launch" \/ wpc[u] = "spawned"
  BY <1>21, MarkRow, ShutdownVisitRow, SubmitRow, SubmitWhileClosingRow, CancelRow,
    SameHolds DEF Load, MarkInterrupted, ResumeSkip, ShutdownVisit, Submit, Admit,
    SubmitWhileClosing, Cancel
<1>22. ASSUME NEW t \in Tasks, WReadRequest(t) \/ WFirstFlush(t) \/ WFlush(t) \/
  WFinalFlush(t) \/ WLosesLease(t) \/ WSeesCancel(t) \/ WChatEnds(t) \/
  WFinalFlushLost(t) \/ WExit(t) \/ WDies(t) \/ BeatAges(t) \/ WFirstFlushRefused(t)
       PROVE  Holds(u, "launch") \/ pc[u] = "launch" \/ wpc[u] = "spawned"
  BY <1>22, FlushRow, FinalFlushRow, SameHolds DEF WReadRequest, WorkerGoes,
    WFirstFlush, WFlush, WFinalFlush, WLosesLease, WSeesCancel, WChatEnds,
    WFinalFlushLost, WExit, WDies, BeatAges, WFirstFlushRefused
<1>23. CASE UNCHANGED vars
  BY <1>23, SameHolds DEF vars
<1>. QED
  BY <1>1, <1>2, <1>3, <1>4, <1>5, <1>6, <1>7, <1>8, <1>9, <1>10, <1>11, <1>12,
    <1>13, <1>14, <1>15, <1>16, <1>17, <1>18, <1>19, <1>20, <1>21, <1>22, <1>23
     DEF Next, Boot, Shutdown, User, Thread, Worker, Time

\* Typing, the fence and the watch before the step.
Watch == TypeOK /\ WriteFence /\ WatchFence /\ PromptStart = TRUE

\* What is known of one task before the step.
LEMMA OfTask ==
    ASSUME Watch, NEW u \in Tasks
    PROVE  /\ Untouched(u) /\ Ownership(u) /\ Launching(u) /\ CancelKept(u)
           /\ Outcomes(u) /\ Loading(u) /\ Fenced(u)
           /\ Starting(u) /\ Copied(u) /\ Watched(u)
BY DEF Watch, WriteFence, WatchFence

\* The steps that are about one task.
Own(t) ==
    \/ Thread(t) \/ Worker(t) \/ WDies(t) \/ Time(t)
    \/ Load(t) \/ MarkInterrupted(t) \/ ResumeSkip(t) \/ ResumeClaim(t)
    \/ ResumeFails(t) \/ ResumeLink(t) \/ ShutdownVisit(t)
    \/ Submit(t) \/ SubmitWhileClosing(t) \/ Cancel(t)

\* Another task is as it was.
Same(u) ==
    /\ row'[u].status = row[u].status /\ row'[u].source = row[u].source
    /\ request'[u] = request[u] /\ lease'[u] = lease[u]
    /\ rec'[u] = rec[u] /\ adopted'[u] = adopted[u]
    /\ pc'[u] = pc[u] /\ seen'[u] = seen[u] /\ outcome'[u] = outcome[u]
    /\ wpc'[u] = wpc[u] /\ host' = host
    /\ u \in todo' <=> u \in todo
    /\ u \in detached' <=> u \in detached

\* A step about one task leaves the others as they are.
LEMMA OthersSame ==
    ASSUME TypeOK, NEW t \in Tasks, Outcomes(t), Own(t), NEW u \in Tasks, u # t
    PROVE  Same(u)
<1>. USE DEF Same, TypeOK, storeVars, fileVars, mainVars, threadVars, workerVars,
  Granted, Released, Expired, NoLease, Written, HostWrites, WorkerWrites, Persist,
  Inserted, Linked, FinalizeAborted
<1>1. CASE RunStart(t)
  BY <1>1, RunStartRow DEF RunStart
<1>2. CASE Reserve(t)
  BY <1>2 DEF Reserve
<1>3. CASE SpawnFails(t)
  BY <1>3 DEF SpawnFails
<1>4. CASE Spawn(t)
  BY <1>4 DEF Spawn
<1>5. CASE Register(t)
  BY <1>5 DEF Register
<1>6. CASE MonDetach(t)
  BY <1>6 DEF MonDetach, MonitorEnds
<1>7. CASE MonRead(t)
  BY <1>7 DEF MonRead, MonitorEnds
<1>8. CASE MonCheck(t)
  BY <1>8 DEF MonCheck, MonitorEnds
<1>9. CASE Retire(t)
  BY <1>9 DEF Retire
<1>10. CASE AbortEnd(t)
  BY <1>10, FinalizeFact DEF AbortEnd, LeaveClosing, Verdict
<1>11. CASE Finalize(t)
  BY <1>11, FinalizeFact DEF Finalize, LeaveClosing, Verdict
<1>12. CASE Cleanup(t)
  BY <1>12 DEF Cleanup
<1>13. CASE Settle(t)
  BY <1>13, SettleRow DEF Settle, Verdict
<1>14. CASE Load(t)
  BY <1>14 DEF Load
<1>15. CASE MarkInterrupted(t)
  BY <1>15, MarkRow DEF MarkInterrupted
<1>16. CASE ResumeSkip(t)
  BY <1>16 DEF ResumeSkip
<1>17. CASE ResumeClaim(t)
  BY <1>17 DEF ResumeClaim
<1>18. CASE ResumeFails(t)
  BY <1>18 DEF ResumeFails
<1>19. CASE ResumeLink(t)
  BY <1>19, ResumeLinkRow DEF ResumeLink
<1>20. CASE ShutdownVisit(t)
  BY <1>20, ShutdownVisitRow DEF ShutdownVisit
<1>21. CASE Submit(t)
  BY <1>21, SubmitRow DEF Submit, Admit
<1>22. CASE SubmitWhileClosing(t)
  BY <1>22, SubmitWhileClosingRow DEF SubmitWhileClosing
<1>23. CASE Cancel(t)
  BY <1>23, CancelRow DEF Cancel
<1>24. CASE WClaim(t)
  BY <1>24 DEF WClaim, WorkerGoes
<1>25. CASE WReadRequest(t)
  BY <1>25 DEF WReadRequest, WorkerGoes
<1>26. CASE WStartFails(t)
  BY <1>26 DEF WStartFails, WorkerGoes
<1>27. CASE WFirstFlush(t)
  BY <1>27, FlushRow DEF WFirstFlush, WorkerGoes
<1>28. CASE WFirstFlushRefused(t)
  BY <1>28 DEF WFirstFlushRefused, WorkerGoes
<1>29. CASE WFlush(t)
  BY <1>29, FlushRow DEF WFlush, WorkerGoes
<1>30. CASE WLosesLease(t)
  BY <1>30 DEF WLosesLease, WorkerGoes
<1>31. CASE WSeesCancel(t)
  BY <1>31 DEF WSeesCancel, WorkerGoes
<1>32. CASE WChatEnds(t)
  BY <1>32 DEF WChatEnds, WorkerGoes
<1>33. CASE WFinalFlush(t)
  BY <1>33, FinalFlushRow DEF WFinalFlush, WorkerGoes
<1>34. CASE WFinalFlushLost(t)
  BY <1>34 DEF WFinalFlushLost, WorkerGoes
<1>35. CASE WRelease(t)
  BY <1>35 DEF WRelease, WorkerGoes
<1>36. CASE WExit(t)
  BY <1>36 DEF WExit, WorkerGoes
<1>37. CASE WDies(t)
  BY <1>37 DEF WDies, WorkerGoes
<1>38. CASE LeaseExpires(t)
  BY <1>38 DEF LeaseExpires
<1>39. CASE BeatAges(t)
  BY <1>39 DEF BeatAges
<1>. QED
  BY <1>1, <1>2, <1>3, <1>4, <1>5, <1>6, <1>7, <1>8, <1>9, <1>10, <1>11, <1>12,
    <1>13, <1>14, <1>15, <1>16, <1>17, <1>18, <1>19, <1>20, <1>21, <1>22, <1>23,
    <1>24, <1>25, <1>26, <1>27, <1>28, <1>29, <1>30, <1>31, <1>32, <1>33, <1>34,
    <1>35, <1>36, <1>37, <1>38, <1>39
     DEF Own, Thread, Worker, Time

\* Every step of a task keeps what holds between its Popen and its claim.
LEMMA StartingOwn ==
    ASSUME Watch, NEW t \in Tasks, Own(t)
    PROVE  Starting(t)'
<1>0. /\ TypeOK /\ Untouched(t) /\ Ownership(t) /\ Launching(t) /\ CancelKept(t) /\ Outcomes(t)
       /\ Loading(t) /\ Fenced(t) /\ Starting(t) /\ Copied(t) /\ Watched(t)
  BY OfTask DEF Watch
<1>. USE DEF Starting, Untouched, Ownership, Launching, CancelKept, Outcomes, Loading,
  Active, Terminal, TypeOK, storeVars, fileVars, mainVars, threadVars, workerVars
<1>1. CASE RunStart(t)
  BY <1>1, <1>0, RunStartRow DEF RunStart
<1>2. CASE Reserve(t)
  BY <1>2, <1>0 DEF Reserve
<1>3. CASE SpawnFails(t)
  BY <1>3, <1>0 DEF SpawnFails
<1>4. CASE Spawn(t)
  BY <1>4, <1>0 DEF Spawn
<1>5. CASE Register(t)
  BY <1>5, <1>0 DEF Register
<1>6. CASE MonDetach(t)
  BY <1>6, <1>0 DEF MonDetach, MonitorEnds
<1>7. CASE MonRead(t)
  BY <1>7, <1>0 DEF MonRead, MonitorEnds
<1>8. CASE MonCheck(t)
  <2>1. /\ UNCHANGED <<row, request, wpc, host, rec, adopted, seen, todo>>
        /\ pc'[t] \in {"settle", "retire", "monitor"} /\ pc[t] = "check"
    BY <1>8, <1>0 DEF MonCheck, MonitorEnds
  <2>2. ASSUME wpc[t] = "spawned", request[t] PROVE pc'[t] = "monitor"
    <3>1. HasLiveWorker(t, seen[t])
      BY <1>0, <2>2 DEF HasLiveWorker, Holds
    <3>. QED
      BY <1>8, <1>0, <2>2, <3>1 DEF MonCheck
  <2>3. ASSUME wpc[t] = "spawned", ~ request[t]
        PROVE  row[t].status \in Terminal /\ ~ adopted[t] /\ outcome'[t] \in {outcome[t], "failed"}
               /\ pc'[t] # "settle"
    BY <1>8, <1>0, <2>3 DEF MonCheck, MonitorEnds
  <2>4. pc'[t] \in {"retire", "settle"} /\ wpc[t] = "spawned" /\ ~ request[t] => outcome'[t] = "failed"
    BY <1>8, <1>0 DEF MonCheck, MonitorEnds
  <2>. QED
    BY <1>0, <2>1, <2>2, <2>3, <2>4
<1>9. CASE Retire(t)
  BY <1>9, <1>0 DEF Retire
<1>10. CASE AbortEnd(t)
  BY <1>10, <1>0, FinalizeFact DEF AbortEnd, LeaveClosing, Verdict
<1>11. CASE Finalize(t)
  <2>1. wpc'[t] # "spawned" /\ pc'[t] = "left"
    BY <1>11, <1>0 DEF Finalize, LeaveClosing, Alive
  <2>. QED
    BY <2>1
<1>12. CASE Cleanup(t)
  BY <1>12, <1>0 DEF Cleanup
<1>13. CASE Settle(t)
  <2>1. /\ UNCHANGED <<request, wpc, host, adopted, seen, outcome, todo>>
        /\ pc[t] = "settle" /\ pc'[t] \in {"left", "settled"} /\ rec'[t] = Verdict(t)
    BY <1>13, <1>0 DEF Settle
  <2>2. Verdict(t) \in Terminal /\ row'[t].status \in {row[t].status, Verdict(t)}
    BY <1>13, <1>0, SettleRow, Zenon
  <2>3. wpc[t] = "spawned" => Verdict(t) # "interrupted"
    BY <2>1, <1>0 DEF Verdict
  <2>. QED
    BY <2>1, <2>2, <2>3, <1>0
<1>14. CASE Load(t)
  <2>1. /\ UNCHANGED <<row, request, wpc, host>> /\ t \notin todo' /\ host = "loading"
        /\ pc'[t] \in {"monitor", "mark", "loaded"}
    BY <1>14, <1>0 DEF Load
  <2>2. ASSUME wpc[t] = "spawned" PROVE rec'[t] # "interrupted" /\ pc'[t] # "mark"
    <3>1. CASE seen[t].status \in Active
      <4>1. Holds(t, "launch")
        BY <1>14, <1>0, <2>2, <3>1 DEF Load
      <4>2. HasLiveWorker(t, seen[t])
        BY <4>1 DEF HasLiveWorker, Holds
      <4>. QED
        BY <1>14, <1>0, <3>1, <4>2 DEF Load
    <3>2. CASE seen[t].status \notin Active
      BY <1>14, <1>0, <2>2, <3>2 DEF Load
    <3>. QED
      BY <3>1, <3>2
  <2>3. ASSUME wpc[t] = "spawned", adopted'[t] PROVE request[t]
    BY <1>14, <1>0, <2>3 DEF Load
  <2>. QED
    BY <1>0, <2>1, <2>2, <2>3
<1>15. CASE MarkInterrupted(t)
  BY <1>15, <1>0, MarkRow DEF MarkInterrupted
<1>16. CASE ResumeSkip(t)
  BY <1>16, <1>0 DEF ResumeSkip
<1>17. CASE ResumeClaim(t)
  <2>1. wpc[t] # "spawned" /\ wpc' = wpc /\ pc'[t] = "recover"
    BY <1>17, <1>0 DEF ResumeClaim, Resumable
  <2>. QED
    BY <2>1
<1>18. CASE ResumeFails(t)
  BY <1>18, <1>0 DEF ResumeFails
<1>19. CASE ResumeLink(t)
  BY <1>19, <1>0, ResumeLinkRow DEF ResumeLink
<1>20. CASE ShutdownVisit(t)
  <2>1. row'[t].status \in {row[t].status, "cancelled"}
    BY <1>20, <1>0, ShutdownVisitRow
  <2>2. rec'[t] \in {rec[t], "cancelled"}
    BY <1>20, <1>0 DEF ShutdownVisit
  <2>3. pc'[t] \in {pc[t], "settled"} /\ UNCHANGED <<request, wpc, adopted, outcome, seen, host>>
    BY <1>20, <1>0 DEF ShutdownVisit
  <2>. QED
    BY <1>0, <2>1, <2>2, <2>3, <1>20 DEF ShutdownVisit
<1>21. CASE Submit(t)
  BY <1>21, <1>0, SubmitRow DEF Submit, Admit
<1>22. CASE SubmitWhileClosing(t)
  BY <1>22, <1>0, SubmitWhileClosingRow DEF SubmitWhileClosing
<1>23. CASE Cancel(t)
  BY <1>23, <1>0, CancelRow DEF Cancel
<1>24. CASE WClaim(t)
  BY <1>24, <1>0 DEF WClaim, WorkerGoes
<1>25. CASE WReadRequest(t)
  BY <1>25, <1>0 DEF WReadRequest, WorkerGoes
<1>26. CASE WStartFails(t)
  BY <1>26, <1>0 DEF WStartFails, WorkerGoes
<1>27. CASE WFirstFlush(t)
  BY <1>27, <1>0, FlushRow DEF WFirstFlush, WorkerGoes
<1>28. CASE WFirstFlushRefused(t)
  BY <1>28, <1>0 DEF WFirstFlushRefused, WorkerGoes
<1>29. CASE WFlush(t)
  BY <1>29, <1>0, FlushRow DEF WFlush, WorkerGoes
<1>30. CASE WLosesLease(t)
  BY <1>30, <1>0 DEF WLosesLease, WorkerGoes
<1>31. CASE WSeesCancel(t)
  BY <1>31, <1>0 DEF WSeesCancel, WorkerGoes
<1>32. CASE WChatEnds(t)
  BY <1>32, <1>0 DEF WChatEnds, WorkerGoes
<1>33. CASE WFinalFlush(t)
  BY <1>33, <1>0, FinalFlushRow DEF WFinalFlush, WorkerGoes
<1>34. CASE WFinalFlushLost(t)
  BY <1>34, <1>0 DEF WFinalFlushLost, WorkerGoes
<1>35. CASE WRelease(t)
  BY <1>35, <1>0 DEF WRelease, WorkerGoes
<1>36. CASE WExit(t)
  BY <1>36, <1>0 DEF WExit, WorkerGoes
<1>37. CASE WDies(t)
  BY <1>37, <1>0 DEF WDies, WorkerGoes
<1>38. CASE LeaseExpires(t)
  BY <1>38, <1>0 DEF LeaseExpires
<1>39. CASE BeatAges(t)
  BY <1>39, <1>0 DEF BeatAges
<1>. QED
  BY <1>1, <1>2, <1>3, <1>4, <1>5, <1>6, <1>7, <1>8, <1>9, <1>10, <1>11, <1>12,
    <1>13, <1>14, <1>15, <1>16, <1>17, <1>18, <1>19, <1>20, <1>21, <1>22, <1>23,
    <1>24, <1>25, <1>26, <1>27, <1>28, <1>29, <1>30, <1>31, <1>32, <1>33, <1>34,
    <1>35, <1>36, <1>37, <1>38, <1>39
     DEF Own, Thread, Worker, Time

\* A step that leaves a task as it is keeps what holds between Popen and claim.
LEMMA StartingSame ==
    ASSUME NEW u \in Tasks, Starting(u), Same(u)
    PROVE  Starting(u)'
BY DEF Starting, Same

\* Every step keeps what holds between Popen and claim.
LEMMA StartingStep ==
    ASSUME Watch, [Next]_vars, NEW u \in Tasks
    PROVE  Starting(u)'
<1>0. /\ TypeOK /\ Untouched(u) /\ Ownership(u) /\ Launching(u) /\ Outcomes(u)
      /\ Loading(u) /\ Starting(u)
  BY OfTask DEF Watch
<1>. USE DEF Starting, Active, Terminal, storeVars, fileVars, mainVars, threadVars, workerVars
<1>1. CASE HostStart
  BY <1>0, <1>1 DEF HostStart, Loading
<1>2. CASE HostCrash \/ ShutdownEnd
  BY <1>0, <1>2 DEF HostCrash, ShutdownEnd, HostGone
<1>3. CASE LoadDone \/ ResumeDone
  BY <1>0, <1>3 DEF LoadDone, ResumeDone
<1>4. CASE BeginShutdown
  BY <1>0, <1>4 DEF BeginShutdown
<1>5. ASSUME NEW t \in Tasks, Own(t) PROVE Starting(u)'
  <2>1. CASE u = t
    BY <1>5, <2>1, StartingOwn
  <2>2. CASE u # t
    BY <1>0, <1>5, <2>2, OthersSame, OfTask, StartingSame
  <2>. QED
    BY <2>1, <2>2
<1>6. ASSUME NEW t \in Tasks, NEW n \in Tasks, ResumeSubmit(t, n) PROVE Starting(u)'
  <2>1. /\ pc' = [pc EXCEPT ![t] = "link", ![n] = "admitted"] /\ pc[t] = "recover"
        /\ rec' = [rec EXCEPT ![n] = "queued"] /\ row[n].status = "none"
        /\ UNCHANGED <<request, wpc, adopted, outcome, seen, host, todo, lease>>
    BY <1>6 DEF ResumeSubmit, Admit
  <2>2. row'[u].status = IF u = n THEN "queued" ELSE row[u].status
    BY <1>0, <1>6, ResumeSubmitRow
  <2>3. CASE u = n
    BY <1>0, <2>1, <2>2, <2>3 DEF Untouched, TypeOK
  <2>4. CASE u # n
    BY <1>0, <2>1, <2>2, <2>4 DEF TypeOK
  <2>. QED
    BY <2>3, <2>4
<1>7. CASE UNCHANGED vars
  BY <1>0, <1>7 DEF vars
<1>. QED
  BY <1>1, <1>2, <1>3, <1>4, <1>5, <1>6, <1>7
     DEF Next, Boot, Shutdown, User, Own

\* The host's writes keep the source of a row.
LEMMA WrittenSource ==
    ASSUME TypeOK, NEW t \in Tasks
    PROVE  /\ \A s, o : HostWrites(t, s, o) => row'[t].source = row[t].source
           /\ \A s : Persist(t, s) => row'[t].source = row[t].source
BY DEF TypeOK, Persist, HostWrites, Written, Rows

LEMMA SettleKeepsSource ==
    ASSUME TypeOK, NEW t \in Tasks, Settle(t)
    PROVE  row'[t].source = row[t].source
<1>1. UNCHANGED row \/ HostWrites(t, Verdict(t), wpc[t] # "none")
  BY DEF Settle
<1>. QED
  BY <1>1, WrittenSource

\* No step about one task makes it a copy.
LEMMA SourceOwn ==
    ASSUME TypeOK, NEW t \in Tasks, Own(t)
    PROVE  row'[t].source \in {row[t].source, NoTask}
<1>0. TypeOK
  OBVIOUS
<1>. USE DEF TypeOK, Written, HostWrites, WorkerWrites, Persist, Inserted, Linked,
  FinalizeAborted, NoRow, storeVars, fileVars, mainVars, threadVars, workerVars
<1>1. CASE RunStart(t)
  BY <1>1, <1>0, WrittenSource DEF RunStart
<1>2. CASE Reserve(t)
  BY <1>2, <1>0 DEF Reserve
<1>3. CASE SpawnFails(t)
  BY <1>3, <1>0 DEF SpawnFails
<1>4. CASE Spawn(t)
  BY <1>4, <1>0 DEF Spawn
<1>5. CASE Register(t)
  BY <1>5, <1>0 DEF Register
<1>6. CASE MonDetach(t)
  BY <1>6, <1>0 DEF MonDetach, MonitorEnds
<1>7. CASE MonRead(t)
  BY <1>7, <1>0 DEF MonRead, MonitorEnds
<1>8. CASE MonCheck(t)
  BY <1>8, <1>0 DEF MonCheck, MonitorEnds
<1>9. CASE Retire(t)
  BY <1>9, <1>0 DEF Retire
<1>10. CASE AbortEnd(t)
  BY <1>10, <1>0 DEF AbortEnd, LeaveClosing, Verdict
<1>11. CASE Finalize(t)
  BY <1>11, <1>0 DEF Finalize, LeaveClosing, Verdict
<1>12. CASE Cleanup(t)
  BY <1>12, <1>0 DEF Cleanup
<1>13. CASE Settle(t)
  BY <1>13, SettleKeepsSource
<1>14. CASE Load(t)
  BY <1>14, <1>0 DEF Load
<1>15. CASE MarkInterrupted(t)
  BY <1>15, <1>0 DEF MarkInterrupted
<1>16. CASE ResumeSkip(t)
  BY <1>16, <1>0 DEF ResumeSkip
<1>17. CASE ResumeClaim(t)
  BY <1>17, <1>0 DEF ResumeClaim
<1>18. CASE ResumeFails(t)
  BY <1>18, <1>0 DEF ResumeFails
<1>19. CASE ResumeLink(t)
  BY <1>19, <1>0 DEF ResumeLink
<1>20. CASE ShutdownVisit(t)
  BY <1>20, <1>0, WrittenSource DEF ShutdownVisit
<1>21. CASE Submit(t)
  BY <1>21, <1>0 DEF Submit, Admit
<1>22. CASE SubmitWhileClosing(t)
  BY <1>22, <1>0 DEF SubmitWhileClosing
<1>23. CASE Cancel(t)
  BY <1>23, <1>0, WrittenSource DEF Cancel
<1>24. CASE WClaim(t)
  BY <1>24, <1>0 DEF WClaim, WorkerGoes
<1>25. CASE WReadRequest(t)
  BY <1>25, <1>0 DEF WReadRequest, WorkerGoes
<1>26. CASE WStartFails(t)
  BY <1>26, <1>0 DEF WStartFails, WorkerGoes
<1>27. CASE WFirstFlush(t)
  BY <1>27, <1>0 DEF WFirstFlush, WorkerGoes
<1>28. CASE WFirstFlushRefused(t)
  BY <1>28, <1>0 DEF WFirstFlushRefused, WorkerGoes
<1>29. CASE WFlush(t)
  BY <1>29, <1>0 DEF WFlush, WorkerGoes
<1>30. CASE WLosesLease(t)
  BY <1>30, <1>0 DEF WLosesLease, WorkerGoes
<1>31. CASE WSeesCancel(t)
  BY <1>31, <1>0 DEF WSeesCancel, WorkerGoes
<1>32. CASE WChatEnds(t)
  BY <1>32, <1>0 DEF WChatEnds, WorkerGoes
<1>33. CASE WFinalFlush(t)
  BY <1>33, <1>0 DEF WFinalFlush, WorkerGoes
<1>34. CASE WFinalFlushLost(t)
  BY <1>34, <1>0 DEF WFinalFlushLost, WorkerGoes
<1>35. CASE WRelease(t)
  BY <1>35, <1>0 DEF WRelease, WorkerGoes
<1>36. CASE WExit(t)
  BY <1>36, <1>0 DEF WExit, WorkerGoes
<1>37. CASE WDies(t)
  BY <1>37, <1>0 DEF WDies, WorkerGoes
<1>38. CASE LeaseExpires(t)
  BY <1>38, <1>0 DEF LeaseExpires
<1>39. CASE BeatAges(t)
  BY <1>39, <1>0 DEF BeatAges
<1>. QED
  BY <1>1, <1>2, <1>3, <1>4, <1>5, <1>6, <1>7, <1>8, <1>9, <1>10, <1>11, <1>12,
    <1>13, <1>14, <1>15, <1>16, <1>17, <1>18, <1>19, <1>20, <1>21, <1>22, <1>23,
    <1>24, <1>25, <1>26, <1>27, <1>28, <1>29, <1>30, <1>31, <1>32, <1>33, <1>34,
    <1>35, <1>36, <1>37, <1>38, <1>39
     DEF Own, Thread, Worker, Time

\* A task that exists does not get back to its launch, and is recovered only from
\* a claim of auto-resume.
LEMMA PassedOwn ==
    ASSUME Watch, NEW t \in Tasks, Own(t)
    PROVE  /\ pc'[t] \in {"recover", "link"} =>
                pc[t] \in {"recover", "link"} \/ ResumeClaim(t)
           /\ row[t].status # "none" /\ pc[t] \notin {"admitted", "launch", "reserved"} =>
                row'[t].status # "none" /\ pc'[t] \notin {"admitted", "launch", "reserved"}
<1>0. /\ TypeOK /\ Outcomes(t) /\ Launching(t)
  BY OfTask DEF Watch
<1>. USE DEF TypeOK, Outcomes, Terminal, Launching, storeVars, fileVars, mainVars,
  threadVars, workerVars
<1>1. CASE RunStart(t)
  BY <1>1, <1>0, RunStartRow DEF RunStart
<1>2. CASE Reserve(t)
  BY <1>2, <1>0 DEF Reserve
<1>3. CASE SpawnFails(t)
  BY <1>3, <1>0 DEF SpawnFails
<1>4. CASE Spawn(t)
  BY <1>4, <1>0 DEF Spawn
<1>5. CASE Register(t)
  BY <1>5, <1>0 DEF Register
<1>6. CASE MonDetach(t)
  BY <1>6, <1>0 DEF MonDetach, MonitorEnds
<1>7. CASE MonRead(t)
  BY <1>7, <1>0 DEF MonRead, MonitorEnds
<1>8. CASE MonCheck(t)
  BY <1>8, <1>0 DEF MonCheck, MonitorEnds
<1>9. CASE Retire(t)
  BY <1>9, <1>0 DEF Retire
<1>10. CASE AbortEnd(t)
  BY <1>10, <1>0, FinalizeFact DEF AbortEnd, LeaveClosing, Verdict
<1>11. CASE Finalize(t)
  BY <1>11, <1>0, FinalizeFact DEF Finalize, LeaveClosing, Verdict
<1>12. CASE Cleanup(t)
  BY <1>12, <1>0 DEF Cleanup
<1>13. CASE Settle(t)
  BY <1>13, <1>0, SettleRow DEF Settle, Verdict
<1>14. CASE Load(t)
  BY <1>14, <1>0 DEF Load
<1>15. CASE MarkInterrupted(t)
  BY <1>15, <1>0, MarkRow DEF MarkInterrupted
<1>16. CASE ResumeSkip(t)
  BY <1>16, <1>0 DEF ResumeSkip
<1>17. CASE ResumeClaim(t)
  BY <1>17, <1>0 DEF ResumeClaim
<1>18. CASE ResumeFails(t)
  BY <1>18, <1>0 DEF ResumeFails
<1>19. CASE ResumeLink(t)
  BY <1>19, <1>0, ResumeLinkRow DEF ResumeLink
<1>20. CASE ShutdownVisit(t)
  BY <1>20, <1>0, ShutdownVisitRow DEF ShutdownVisit
<1>21. CASE Submit(t)
  BY <1>21, <1>0, SubmitRow DEF Submit, Admit
<1>22. CASE SubmitWhileClosing(t)
  BY <1>22, <1>0, SubmitWhileClosingRow DEF SubmitWhileClosing
<1>23. CASE Cancel(t)
  BY <1>23, <1>0, CancelRow DEF Cancel
<1>24. CASE WClaim(t)
  BY <1>24, <1>0 DEF WClaim, WorkerGoes
<1>25. CASE WReadRequest(t)
  BY <1>25, <1>0 DEF WReadRequest, WorkerGoes
<1>26. CASE WStartFails(t)
  BY <1>26, <1>0 DEF WStartFails, WorkerGoes
<1>27. CASE WFirstFlush(t)
  BY <1>27, <1>0, FlushRow DEF WFirstFlush, WorkerGoes
<1>28. CASE WFirstFlushRefused(t)
  BY <1>28, <1>0 DEF WFirstFlushRefused, WorkerGoes
<1>29. CASE WFlush(t)
  BY <1>29, <1>0, FlushRow DEF WFlush, WorkerGoes
<1>30. CASE WLosesLease(t)
  BY <1>30, <1>0 DEF WLosesLease, WorkerGoes
<1>31. CASE WSeesCancel(t)
  BY <1>31, <1>0 DEF WSeesCancel, WorkerGoes
<1>32. CASE WChatEnds(t)
  BY <1>32, <1>0 DEF WChatEnds, WorkerGoes
<1>33. CASE WFinalFlush(t)
  <2>1. pc' = pc /\ wstat[t] # "none" /\ row'[t].status = wstat[t]
    BY <1>33, <1>0, FinalFlushRow DEF WFinalFlush
  <2>. QED
    BY <2>1
<1>34. CASE WFinalFlushLost(t)
  BY <1>34, <1>0 DEF WFinalFlushLost, WorkerGoes
<1>35. CASE WRelease(t)
  BY <1>35, <1>0 DEF WRelease, WorkerGoes
<1>36. CASE WExit(t)
  BY <1>36, <1>0 DEF WExit, WorkerGoes
<1>37. CASE WDies(t)
  BY <1>37, <1>0 DEF WDies, WorkerGoes
<1>38. CASE LeaseExpires(t)
  BY <1>38, <1>0 DEF LeaseExpires
<1>39. CASE BeatAges(t)
  BY <1>39, <1>0 DEF BeatAges
<1>. QED
  BY <1>1, <1>2, <1>3, <1>4, <1>5, <1>6, <1>7, <1>8, <1>9, <1>10, <1>11, <1>12,
    <1>13, <1>14, <1>15, <1>16, <1>17, <1>18, <1>19, <1>20, <1>21, <1>22, <1>23,
    <1>24, <1>25, <1>26, <1>27, <1>28, <1>29, <1>30, <1>31, <1>32, <1>33, <1>34,
    <1>35, <1>36, <1>37, <1>38, <1>39
     DEF Own, Thread, Worker, Time

\* A task gets a copy only in auto-resume.
LEMMA SourceStep ==
    ASSUME Watch, [Next]_vars, NEW u \in Tasks, NEW n \in Tasks, row'[n].source = u
    PROVE  row[n].source = u \/ pc[u] = "recover"
<1>0. TypeOK /\ u # NoTask
  BY NoTaskAssumption DEF Watch
<1>1. ASSUME NEW t \in Tasks, Own(t) PROVE row[n].source = u
  <2>1. CASE n = t
    BY <1>0, <1>1, <2>1, SourceOwn
  <2>2. CASE n # t
    BY <1>0, <1>1, <2>2, OthersSame, OfTask DEF Same
  <2>. QED
    BY <2>1, <2>2
<1>2. ASSUME NEW t \in Tasks, NEW m \in Tasks, ResumeSubmit(t, m)
      PROVE  row[n].source = u \/ pc[u] = "recover"
  <2>1. row' = [row EXCEPT ![m] = [NoRow EXCEPT !.status = "queued", !.source = t]] /\ pc[t] = "recover"
    BY <1>2 DEF ResumeSubmit, Admit, Inserted
  <2>2. n # m => row'[n] = row[n]
    BY <1>0, <2>1 DEF TypeOK
  <2>3. n = m => row'[n].source = t
    BY <1>0, <2>1 DEF TypeOK, NoRow
  <2>. QED
    BY <2>1, <2>2, <2>3
<1>3. CASE row' = row
  BY <1>3
<1>. QED
  BY <1>1, <1>2, <1>3
     DEF Next, Boot, Shutdown, User, Own, HostStart, HostCrash, LoadDone, ResumeDone,
         ShutdownEnd, HostGone, BeginShutdown, storeVars, vars

\* Every step keeps a copied task out of reach of its first worker.
LEMMA CopiedStep ==
    ASSUME Watch, [Next]_vars, NEW u \in Tasks
    PROVE  Copied(u)'
<1>0. TypeOK /\ Launching(u) /\ Untouched(u) /\ Starting(u) /\ Copied(u)
  BY OfTask DEF Watch
<1>1. ASSUME OutOfReach(u) PROVE OutOfReach(u)'
  <2>1. ~Holds(u, "launch")' /\ wpc'[u] # "spawned"
    BY <1>0, <1>1, HoldsStep, SpawnedStep DEF OutOfReach
  <2>2. row'[u].status # "none" /\ pc'[u] \notin {"admitted", "launch", "reserved"}
    <3>1. ASSUME NEW t \in Tasks, Own(t) PROVE <2>2
      BY <1>0, <1>1, <3>1, PassedOwn, OthersSame, OfTask DEF OutOfReach, Same
    <3>2. ASSUME NEW t \in Tasks, NEW n \in Tasks, ResumeSubmit(t, n) PROVE <2>2
      <4>1. row'[u].status = IF u = n THEN "queued" ELSE row[u].status
        BY <1>0, <3>2, ResumeSubmitRow
      <4>. QED
        BY <1>0, <1>1, <3>2, <4>1 DEF OutOfReach, ResumeSubmit, Admit, TypeOK
    <3>3. CASE row' = row /\ (pc' = pc \/ pc' = [t \in Tasks |-> "none"])
      BY <1>1, <3>3 DEF OutOfReach
    <3>. QED
      BY <3>1, <3>2, <3>3
         DEF Next, Boot, Shutdown, User, Own, HostStart, HostCrash, LoadDone, ResumeDone,
             ShutdownEnd, HostGone, BeginShutdown, storeVars, threadVars, vars
  <2>. QED
    BY <2>1, <2>2 DEF OutOfReach
<1>2. ASSUME ResumeClaim(u) PROVE OutOfReach(u)'
  <2>1. ~Holds(u, "launch")'
    BY <1>0, <1>2, GrantedHolds DEF ResumeClaim, TypeOK
  <2>2. wpc[u] # "spawned" /\ row[u].status # "none"
    BY <1>0, <1>2 DEF ResumeClaim, Resumable, Starting, Untouched
  <2>3. wpc' = wpc /\ row' = row /\ pc'[u] = "recover"
    BY <1>0, <1>2 DEF ResumeClaim, TypeOK, workerVars
  <2>. QED
    BY <2>1, <2>2, <2>3 DEF OutOfReach
<1>3. ASSUME pc'[u] \in {"recover", "link"}
      PROVE  pc[u] \in {"recover", "link"} \/ ResumeClaim(u)
  <2>1. ASSUME NEW t \in Tasks, Own(t) PROVE <1>3!2
    BY <1>0, <1>3, <2>1, PassedOwn, OthersSame, OfTask DEF Same
  <2>2. ASSUME NEW t \in Tasks, NEW n \in Tasks, ResumeSubmit(t, n) PROVE <1>3!2
    BY <1>0, <1>3, <2>2 DEF ResumeSubmit, TypeOK
  <2>3. CASE pc' = pc \/ pc' = [t \in Tasks |-> "none"]
    BY <1>3, <2>3
  <2>. QED
    BY <2>1, <2>2, <2>3
       DEF Next, Boot, Shutdown, User, Own, HostStart, HostCrash, LoadDone, ResumeDone,
           ShutdownEnd, HostGone, BeginShutdown, threadVars, vars
<1>4. (\E n \in Tasks : row'[n].source = u) =>
         pc[u] = "recover" \/ (\E n \in Tasks : row[n].source = u)
  BY SourceStep
<1>. QED
  BY <1>0, <1>1, <1>2, <1>3, <1>4 DEF Copied

\* Every step of a task keeps what the host that watches it relies on.
LEMMA WatchedOwn ==
    ASSUME Watch, NEW t \in Tasks, Own(t),
           MayWrite(t)' => MayWrite(t) \/ pc[t] = "reserved"
    PROVE  Watched(t)'
<1>0. /\ TypeOK /\ Untouched(t) /\ Ownership(t) /\ Launching(t) /\ CancelKept(t) /\ Outcomes(t)
       /\ Loading(t) /\ Fenced(t) /\ Starting(t) /\ Copied(t) /\ Watched(t)
  BY OfTask DEF Watch
<1>. USE DEF Watched, Untouched, Ownership, Launching, CancelKept, Outcomes, Loading,
  Fenced, Starting, Active, Terminal, TypeOK, storeVars, fileVars, mainVars,
  threadVars, workerVars
<1>1. CASE RunStart(t)
  BY <1>1, <1>0, RunStartRow DEF RunStart
<1>2. CASE Reserve(t)
  BY <1>2, <1>0 DEF Reserve
<1>3. CASE SpawnFails(t)
  BY <1>3, <1>0 DEF SpawnFails
<1>4. CASE Spawn(t)
  BY <1>4, <1>0 DEF Spawn
<1>5. CASE Register(t)
  BY <1>5, <1>0 DEF Register
<1>6. CASE MonDetach(t)
  BY <1>6, <1>0 DEF MonDetach, MonitorEnds
<1>7. CASE MonRead(t)
  BY <1>7, <1>0 DEF MonRead, MonitorEnds
<1>8. CASE MonCheck(t)
  BY <1>8, <1>0 DEF MonCheck, MonitorEnds
<1>9. CASE Retire(t)
  BY <1>9, <1>0 DEF Retire
<1>10. CASE AbortEnd(t)
  BY <1>10, <1>0, FinalizeFact DEF AbortEnd, LeaveClosing, Verdict
<1>11. CASE Finalize(t)
  BY <1>11, <1>0, FinalizeFact DEF Finalize, LeaveClosing, Verdict
<1>12. CASE Cleanup(t)
  BY <1>12, <1>0 DEF Cleanup
<1>13. CASE Settle(t)
  BY <1>13, <1>0, SettleRow DEF Settle, Verdict
<1>14. CASE Load(t)
  <2>1. /\ UNCHANGED <<row, lease, request, wpc, host>> /\ t \notin todo' /\ host = "loading"
        /\ pc'[t] \in {"monitor", "mark", "loaded"} /\ pc[t] = "none"
        /\ pc'[t] = "loaded" => rec'[t] = seen[t].status /\ seen[t].status \notin Active
    BY <1>14, <1>0 DEF Load
  <2>2. ASSUME pc'[t] = "mark" PROVE ~ MayWrite(t)
    <3>1. seen[t].status \in Active /\ ~ HasLiveWorker(t, seen[t])
      BY <1>14, <1>0, <2>2 DEF Load
    <3>2. ~ Holds(t, "launch")
      BY <3>1 DEF HasLiveWorker, Holds
    <3>. QED
      BY <1>0, <3>2 DEF MayWrite
  <2>. QED
    BY <1>0, <2>1, <2>2, <1>14 DEF Load
<1>15. CASE MarkInterrupted(t)
  BY <1>15, <1>0, MarkRow DEF MarkInterrupted
<1>16. CASE ResumeSkip(t)
  BY <1>16, <1>0 DEF ResumeSkip
<1>17. CASE ResumeClaim(t)
  BY <1>17, <1>0 DEF ResumeClaim
<1>18. CASE ResumeFails(t)
  <2>1. pc[t] = "recover" /\ pc'[t] = "loaded" /\ UNCHANGED <<host, seen, todo, row>>
    BY <1>18, <1>0 DEF ResumeFails
  <2>2. ~ MayWrite(t)
    BY <1>0, <2>1 DEF Copied, OutOfReach, MayWrite
  <2>. QED
    BY <1>0, <2>1, <2>2
<1>19. CASE ResumeLink(t)
  <2>1. pc[t] = "link" /\ pc'[t] = "loaded" /\ UNCHANGED <<host, seen, todo>>
    BY <1>19, <1>0 DEF ResumeLink
  <2>2. ~ MayWrite(t)
    BY <1>0, <2>1 DEF Copied, OutOfReach, MayWrite
  <2>. QED
    BY <1>0, <2>1, <2>2
<1>20. CASE ShutdownVisit(t)
  BY <1>20, <1>0, ShutdownVisitRow DEF ShutdownVisit
<1>21. CASE Submit(t)
  BY <1>21, <1>0, SubmitRow DEF Submit, Admit
<1>22. CASE SubmitWhileClosing(t)
  BY <1>22, <1>0, SubmitWhileClosingRow DEF SubmitWhileClosing
<1>23. CASE Cancel(t)
  BY <1>23, <1>0, CancelRow DEF Cancel
<1>24. CASE WClaim(t)
  BY <1>24, <1>0 DEF WClaim, WorkerGoes
<1>25. CASE WReadRequest(t)
  BY <1>25, <1>0 DEF WReadRequest, WorkerGoes
<1>26. CASE WStartFails(t)
  BY <1>26, <1>0 DEF WStartFails, WorkerGoes
<1>27. CASE WFirstFlush(t)
  BY <1>27, <1>0, FlushRow DEF WFirstFlush, WorkerGoes
<1>28. CASE WFirstFlushRefused(t)
  BY <1>28, <1>0 DEF WFirstFlushRefused, WorkerGoes
<1>29. CASE WFlush(t)
  BY <1>29, <1>0, FlushRow DEF WFlush, WorkerGoes
<1>30. CASE WLosesLease(t)
  BY <1>30, <1>0 DEF WLosesLease, WorkerGoes
<1>31. CASE WSeesCancel(t)
  BY <1>31, <1>0 DEF WSeesCancel, WorkerGoes
<1>32. CASE WChatEnds(t)
  BY <1>32, <1>0 DEF WChatEnds, WorkerGoes
<1>33. CASE WFinalFlush(t)
  <2>1. /\ ~ MayWrite(t)' /\ wpc[t] = "ended"
        /\ UNCHANGED <<pc, rec, seen, host, todo, detached, adopted>>
    BY <1>33, <1>0 DEF WFinalFlush, WorkerGoes, MayWrite
  <2>2. wstat[t] # "none" /\ row'[t].status = wstat[t]
    BY <1>33, <1>0, FinalFlushRow DEF WFinalFlush
  <2>. QED
    BY <1>0, <2>1, <2>2
<1>34. CASE WFinalFlushLost(t)
  BY <1>34, <1>0 DEF WFinalFlushLost, WorkerGoes
<1>35. CASE WRelease(t)
  BY <1>35, <1>0 DEF WRelease, WorkerGoes
<1>36. CASE WExit(t)
  BY <1>36, <1>0 DEF WExit, WorkerGoes
<1>37. CASE WDies(t)
  BY <1>37, <1>0 DEF WDies, WorkerGoes
<1>38. CASE LeaseExpires(t)
  BY <1>38, <1>0 DEF LeaseExpires
<1>39. CASE BeatAges(t)
  BY <1>39, <1>0 DEF BeatAges
<1>. QED
  BY <1>1, <1>2, <1>3, <1>4, <1>5, <1>6, <1>7, <1>8, <1>9, <1>10, <1>11, <1>12,
    <1>13, <1>14, <1>15, <1>16, <1>17, <1>18, <1>19, <1>20, <1>21, <1>22, <1>23,
    <1>24, <1>25, <1>26, <1>27, <1>28, <1>29, <1>30, <1>31, <1>32, <1>33, <1>34,
    <1>35, <1>36, <1>37, <1>38, <1>39
     DEF Own, Thread, Worker, Time

\* A step about another task keeps what the host relies on.
LEMMA WatchedSame ==
    ASSUME NEW u \in Tasks, Watched(u), Same(u),
           MayWrite(u)' => MayWrite(u) \/ pc[u] = "reserved",
           Starting(u), Loading(u)
    PROVE  Watched(u)'
BY DEF Watched, Same, Starting, Loading, Active, Terminal

\* Every step keeps what the host that watches a task relies on.
LEMMA WatchedStep ==
    ASSUME Watch, [Next]_vars, NEW u \in Tasks
    PROVE  Watched(u)'
<1>0. /\ TypeOK /\ Untouched(u) /\ Ownership(u) /\ Launching(u) /\ Outcomes(u)
      /\ Loading(u) /\ Starting(u) /\ Watched(u) /\ Copied(u)
  BY OfTask DEF Watch
<1>a. MayWrite(u)' => MayWrite(u) \/ pc[u] = "reserved"
  <2>1. TypeOK /\ PromptStart = TRUE /\ \A t \in Tasks : Launching(t)
    BY DEF Watch, WriteFence
  <2>. QED
    BY <2>1, MayWriteStep
<1>. USE DEF Watched, Active, Terminal, storeVars, fileVars, mainVars, threadVars, workerVars
<1>1. CASE HostStart
  <2>1. MayWrite(u)' => MayWrite(u)
    BY <1>0, <1>1, <1>a DEF HostStart, Loading
  <2>. QED
    <3>1. row[u] \in Rows /\ row[u].status \in {"none"} \cup Active \cup Terminal
      BY <1>0, StatusFact DEF TypeOK, Statuses
    <3>2. /\ host = "down" /\ host' = "loading" /\ pc[u] = "none" /\ pc' = pc /\ row' = row
          /\ seen' = row /\ (u \in todo' <=> row[u].status # "none")
      BY <1>0, <1>1 DEF HostStart, Loading
    <3>. QED
      BY <1>0, <2>1, <3>1, <3>2
<1>2. CASE HostCrash \/ ShutdownEnd
  <2>1. host' = "down" /\ row' = row /\ pc'[u] = "none"
    BY <1>2 DEF HostCrash, ShutdownEnd, HostGone
  <2>2. MayWrite(u)' => MayWrite(u)
    BY <1>2, SameHolds DEF MayWrite, HostCrash, ShutdownEnd, HostGone
  <2>. QED
    BY <1>0, <2>1, <2>2
<1>3. CASE LoadDone \/ ResumeDone
  <2>1. /\ UNCHANGED <<row, rec, pc, seen, detached, adopted>> /\ todo = {}
        /\ host \in {"loading", "resuming"} /\ host' \in {"resuming", "up"}
    BY <1>3 DEF LoadDone, ResumeDone
  <2>2. MayWrite(u)' => MayWrite(u)
    BY <1>3, SameHolds DEF MayWrite, LoadDone, ResumeDone
  <2>. QED
    BY <1>0, <2>1, <2>2
<1>4. CASE BeginShutdown
  <2>1. /\ UNCHANGED <<row, rec, pc, seen, detached, adopted>> /\ host = "up" /\ host' = "closing"
    BY <1>4 DEF BeginShutdown
  <2>2. MayWrite(u)' => MayWrite(u)
    BY <1>4, SameHolds DEF MayWrite, BeginShutdown
  <2>. QED
    BY <1>0, <2>1, <2>2
<1>5. ASSUME NEW t \in Tasks, Own(t) PROVE Watched(u)'
  <2>1. CASE u = t
    BY <1>5, <1>a, <2>1, WatchedOwn
  <2>2. CASE u # t
    BY <1>0, <1>5, <1>a, <2>2, OthersSame, OfTask, WatchedSame
  <2>. QED
    BY <2>1, <2>2
<1>6. ASSUME NEW t \in Tasks, NEW n \in Tasks, ResumeSubmit(t, n) PROVE Watched(u)'
  <2>1. /\ pc' = [pc EXCEPT ![t] = "link", ![n] = "admitted"] /\ pc[t] = "recover"
        /\ rec' = [rec EXCEPT ![n] = "queued"] /\ row[n].status = "none"
        /\ UNCHANGED <<seen, host, todo, detached, adopted>>
    BY <1>6 DEF ResumeSubmit, Admit
  <2>2. row'[u].status = IF u = n THEN "queued" ELSE row[u].status
    BY <1>0, <1>6, ResumeSubmitRow
  <2>3. MayWrite(u)' => MayWrite(u)
    BY <1>6, SameHolds DEF MayWrite, ResumeSubmit
  <2>4. CASE u = n
    BY <1>0, <2>1, <2>2, <2>3, <2>4 DEF Untouched, TypeOK
  <2>5. CASE u # n
    BY <1>0, <2>1, <2>2, <2>3, <2>5 DEF TypeOK
  <2>. QED
    BY <2>4, <2>5
<1>7. CASE UNCHANGED vars
  <2>1. UNCHANGED <<row, rec, pc, seen, detached, adopted, host, todo>>
    BY <1>7 DEF vars
  <2>2. MayWrite(u)' => MayWrite(u)
    BY <1>7, SameHolds DEF MayWrite, vars
  <2>. QED
    BY <1>0, <2>1, <2>2
<1>. QED
  BY <1>1, <1>2, <1>3, <1>4, <1>5, <1>6, <1>7
     DEF Next, Boot, Shutdown, User, Own

\* Nothing has started yet.
LEMMA WatchInit == Init => WatchFence
BY NoTaskAssumption
   DEF Init, WatchFence, Starting, Copied, OutOfReach, Watched, NoRow, Holds, NoLease,
       MayWrite, Terminal

\* The fence and the watch together are an invariant when workers start promptly.
LEMMA WatchInvariant ==
    ASSUME PromptStart = TRUE
    PROVE  Spec => [](TypeOK /\ WriteFence /\ WatchFence)
<1>1. Init => WatchFence
  BY WatchInit
<1>2. WatchFence /\ TypeOK /\ WriteFence /\ [Next]_vars => WatchFence'
  <2>1. ASSUME Watch, [Next]_vars PROVE WatchFence'
    BY <2>1, StartingStep, CopiedStep, WatchedStep DEF WatchFence
  <2>. QED
    BY <2>1 DEF Watch
<1>. QED
  BY <1>1, <1>2, FenceInvariant, PTL DEF Spec

\* Auto-resume never has two workers drive one task: the worker that ran it first
\* cannot write once the copy exists. And a host that serves watches every worker
\* that runs under its lease, but the one whose user had cancelled the task
\* before a host that died could watch it.
THEOREM OneWatchedWorkerHolds ==
    ASSUME PromptStart = TRUE
    PROVE  Spec => []OneWatchedWorker
<1>1. ASSUME TypeOK, WriteFence, WatchFence PROVE ResumedIsFenced
  BY <1>1 DEF WatchFence, Copied, OutOfReach, ResumedIsFenced
<1>2. ASSUME TypeOK, WriteFence, WatchFence PROVE NoOrphanWorker
  <2>. SUFFICES ASSUME NEW t \in Tasks, host = "up", wpc[t] = "running", Holds(t, "launch"),
                       pc[t] \in Idle
                PROVE  rec[t] = "cancelled"
    BY DEF NoOrphanWorker
  <2>1. MayWrite(t)
    BY DEF MayWrite
  <2>2. Watched(t) /\ Untouched(t) /\ Fenced(t)
    BY <1>2 DEF WriteFence, WatchFence
  <2>. QED
    BY <2>1, <2>2 DEF Watched, Untouched, Fenced, Idle
<1>3. TypeOK /\ WriteFence /\ WatchFence => OneWatchedWorker
  BY <1>1, <1>2 DEF OneWatchedWorker
<1>. QED
  BY <1>3, WatchInvariant, PTL

=============================================================================
