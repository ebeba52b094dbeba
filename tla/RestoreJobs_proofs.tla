------------------------- MODULE RestoreJobs_proofs -------------------------
(* Proofs about RestoreJobs for every set of jobs and every bound.         *)
EXTENDS RestoreJobs, SequenceTheorems, TLAPS

USE RestoreAssumption DEF Bundles

\* The records the code builds are job records.
LEMMA AbsentType ==
  /\ Absent \in JobRecord /\ Nothing \in JobTable
  /\ [phase |-> "stopping", upid |-> 0, attempt |-> 1] \in JobRecord
BY DEF Absent, Nothing, JobRecord, JobTable

LEMMA SnapshotType ==
  ASSUME TypeOK, NEW b \in Bundles
  PROVE  Snapshot(b) \in JobTable
BY AbsentType DEF Snapshot, JobTable, TypeOK

\* Editing a job object yields a job object.
LEMMA EditTypes ==
  ASSUME NEW r \in JobRecord, NEW n \in Nat
  PROVE  /\ [r EXCEPT !.phase = "error"] \in JobRecord
         /\ [r EXCEPT !.phase = "running"] \in JobRecord
         /\ [r EXCEPT !.upid = n, !.phase = "running"] \in JobRecord
         /\ [r EXCEPT !.attempt = @ + 1] \in JobRecord
<1>1. [r EXCEPT !.phase = "error"] \in JobRecord
  BY DEF JobRecord
<1>2. [r EXCEPT !.phase = "running"] \in JobRecord
  BY DEF JobRecord
<1>3. [r EXCEPT !.upid = n, !.phase = "running"] \in JobRecord
  BY DEF JobRecord
<1>4. [r EXCEPT !.attempt = @ + 1] \in JobRecord
  BY DEF JobRecord
<1> QED BY <1>1, <1>2, <1>3, <1>4

LEMMA CellType ==
  ASSUME TypeOK, NEW b \in Bundles, NEW j \in Jobs
  PROVE  job[b][j] \in JobRecord /\ reply[b][j] \in Nat
BY DEF TypeOK, JobTable

\* The pieces of steps keep the type of the variable they assign.
LEMMA SetType ==
  ASSUME TypeOK, NEW b \in Bundles, NEW j \in Jobs, NEW r \in JobRecord, Set(b, j, r)
  PROVE  job' \in [Bundles -> JobTable]
BY DEF TypeOK, Set, JobTable

LEMMA GoType ==
  ASSUME TypeOK, NEW b \in Bundles, NEW j \in Jobs, NEW s \in Steps, Go(b, j, s)
  PROVE  pc' \in [Bundles -> [Jobs -> Steps]]
BY DEF TypeOK, Go

LEMMA PersistType ==
  ASSUME TypeOK, NEW b \in Bundles, NEW w \in Jobs \cup {Nobody}, Persist(b, w)
  PROVE  chain' \in [Bundles -> Seq(Jobs \cup {Nobody})]
BY DEF TypeOK, Persist

LEMMA DropHeadType ==
  ASSUME TypeOK, NEW b \in Bundles, Len(chain[b]) > 0, DropHead(b)
  PROVE  chain' \in [Bundles -> Seq(Jobs \cup {Nobody})]
<1>1. Tail(chain[b]) \in Seq(Jobs \cup {Nobody})
  BY DEF TypeOK
<1> QED BY <1>1 DEF TypeOK, DropHead

LEMMA RequeueType ==
  ASSUME TypeOK, NEW b \in Bundles, NEW j \in Jobs, Len(chain[b]) > 0, Requeue(b, j)
  PROVE  chain' \in [Bundles -> Seq(Jobs \cup {Nobody})]
<1>1. Append(Tail(chain[b]), j) \in Seq(Jobs \cup {Nobody})
  BY DEF TypeOK
<1> QED BY <1>1 DEF TypeOK, Requeue

LEMMA TellType ==
  ASSUME TypeOK, NEW j \in Jobs, NEW l \in {"success", "error"}, NEW t \in Nat,
         Tell(j, l, t)
  PROVE  verdicts' \in [Jobs -> Seq(Verdict)]
<1>1. [level |-> l, task |-> t] \in Verdict
  BY DEF Verdict
<1>2. Append(verdicts[j], [level |-> l, task |-> t]) \in Seq(Verdict)
  BY <1>1 DEF TypeOK
<1> QED BY <1>2 DEF TypeOK, Tell

LEMMA FailType ==
  ASSUME TypeOK, NEW b \in Bundles, NEW j \in Jobs, Fail(b, j)
  PROVE  job' \in [Bundles -> JobTable] /\ pc' \in [Bundles -> [Jobs -> Steps]]
<1>1. [job[b][j] EXCEPT !.phase = "error"] \in JobRecord
  BY EditTypes, CellType
<1>2. "saveError" \in Steps
  BY DEF Steps
<1> QED BY <1>1, <1>2, SetType, GoType DEF Fail

LEMMA WriteTypes ==
  ASSUME TypeOK, NEW b \in Bundles, WriteSucceeds(b) \/ WriteFails(b)
  PROVE  /\ busy' \in SUBSET Bundles /\ image' \in [Bundles -> JobTable]
         /\ store' \in JobTable /\ recorded' \in SUBSET Jobs /\ dbFailures' \in Nat
<1>1. image[b] \in JobTable /\ store \in JobTable
  BY DEF TypeOK
<1>2. CASE WriteSucceeds(b)
  BY <1>1, <1>2, AbsentType DEF WriteSucceeds, TypeOK
<1>3. CASE WriteFails(b)
  BY <1>1, <1>3, AbsentType DEF WriteFails, TypeOK
<1> QED BY <1>2, <1>3

\* A step keeps the types: one case per action.
LEMMA TypeStep == TypeOK /\ [Next]_vars => TypeOK'
<1> SUFFICES ASSUME TypeOK, [Next]_vars PROVE TypeOK'
  OBVIOUS
<1> USE DEF bundleVars, history, bounds
<1>1. ASSUME NEW j \in Jobs, Enqueue(j) PROVE TypeOK'
  <2>1. chain[RouteBundle] \o <<Nobody, j>> \in Seq(Jobs \cup {Nobody})
    BY DEF TypeOK
  <2>2. chain' \in [Bundles -> Seq(Jobs \cup {Nobody})]
    BY <1>1, <2>1 DEF Enqueue, TypeOK
  <2>3. job' \in [Bundles -> JobTable] /\ pc' \in [Bundles -> [Jobs -> Steps]]
    BY <1>1, AbsentType, SetType, GoType DEF Enqueue, Steps
  <2> QED BY <1>1, <2>2, <2>3 DEF Enqueue, TypeOK
<1>2. ASSUME NEW b \in Bundles, WriteStart(b) PROVE TypeOK'
  BY <1>2, SnapshotType DEF WriteStart, TypeOK
<1>3. ASSUME NEW b \in Bundles, BackgroundWriteEnds(b) PROVE TypeOK'
  BY <1>3, WriteTypes, DropHeadType DEF BackgroundWriteEnds, TypeOK
<1>4. ASSUME NEW b \in Bundles, NEW j \in Jobs, AttemptSaved(b, j) PROVE TypeOK'
  BY <1>4, WriteTypes, DropHeadType, GoType DEF AttemptSaved, TypeOK, Awaits, Steps
<1>5. ASSUME NEW b \in Bundles, NEW j \in Jobs, StillStopping(b, j) PROVE TypeOK'
  BY <1>5, EditTypes, CellType, SetType, PersistType, GoType DEF StillStopping, TypeOK, Steps
<1>6. ASSUME NEW b \in Bundles, NEW j \in Jobs, Accepted(b, j) PROVE TypeOK'
  <2>1. Append(tasks[j], "running") \in Seq({"running", "ok", "failed"})
    BY DEF TypeOK
  <2>2. tasks' \in [Jobs -> Seq({"running", "ok", "failed"})]
    BY <1>6, <2>1 DEF Accepted, TypeOK
  <2>3. Len(tasks[j]) + 1 \in Nat
    BY DEF TypeOK
  <2>4. reply' \in [Bundles -> [Jobs -> Nat]]
    BY <1>6, <2>3 DEF Accepted, TypeOK
  <2>5. pc' \in [Bundles -> [Jobs -> Steps]]
    BY <1>6, GoType DEF Accepted, Steps
  <2> QED BY <1>6, <2>2, <2>4, <2>5 DEF Accepted, TypeOK
<1>7. ASSUME NEW b \in Bundles, NEW j \in Jobs, UpidReceived(b, j) PROVE TypeOK'
  BY <1>7, EditTypes, CellType, SetType, PersistType, GoType DEF UpidReceived, TypeOK, Steps
<1>8. ASSUME NEW b \in Bundles, NEW j \in Jobs, CallFails(b, j) PROVE TypeOK'
  BY <1>8, FailType, PersistType DEF CallFails, TypeOK
<1>9. ASSUME NEW b \in Bundles, NEW j \in Jobs, UpidSaved(b, j) PROVE TypeOK'
  BY <1>9, WriteTypes, RequeueType, GoType DEF UpidSaved, TypeOK, Awaits, Steps
<1>10. ASSUME NEW b \in Bundles, NEW j \in Jobs, RunningSaved(b, j) PROVE TypeOK'
  BY <1>10, WriteTypes, DropHeadType, GoType DEF RunningSaved, TypeOK, Awaits, Steps
<1>11. ASSUME NEW b \in Bundles, NEW j \in Jobs, SaveThrows(b, j) PROVE TypeOK'
  BY <1>11, WriteTypes, RequeueType, FailType DEF SaveThrows, TypeOK, Awaits
<1>12. ASSUME NEW b \in Bundles, NEW j \in Jobs, TaskSeenOk(b, j) PROVE TypeOK'
  BY <1>12, PersistType, GoType DEF TaskSeenOk, TypeOK, Steps
<1>13. ASSUME NEW b \in Bundles, NEW j \in Jobs, WaitThrows(b, j) PROVE TypeOK'
  BY <1>13, FailType, PersistType DEF WaitThrows, TypeOK
<1>14. ASSUME NEW b \in Bundles, NEW j \in Jobs, DeleteSaved(b, j) PROVE TypeOK'
  BY <1>14, WriteTypes, DropHeadType, GoType, TellType, CellType, AbsentType, SetType DEF DeleteSaved, TypeOK, Awaits, JobRecord, Steps
<1>15. ASSUME NEW b \in Bundles, NEW j \in Jobs, DeleteNotSaved(b, j) PROVE TypeOK'
  BY <1>15, WriteTypes, DropHeadType, GoType DEF DeleteNotSaved, TypeOK, Awaits, Steps
<1>16. ASSUME NEW b \in Bundles, NEW j \in Jobs, ErrorSaveEnds(b, j) PROVE TypeOK'
  BY <1>16, WriteTypes, DropHeadType, GoType, TellType, CellType DEF ErrorSaveEnds, TypeOK, Awaits, JobRecord, Steps
<1>17. ASSUME NEW b \in Bundles, NEW j \in Jobs, Forget(b, j) PROVE TypeOK'
  <2>1. timers' \in [Bundles -> SUBSET Jobs]
    BY <1>17 DEF Forget, TypeOK
  <2>2. /\ job' \in [Bundles -> JobTable]
        /\ listed' \in [Bundles -> SUBSET Jobs]
        /\ chain' \in [Bundles -> Seq(Jobs \cup {Nobody})]
    <3>1. CASE j \in listed[b] /\ job[b][j].phase = "error"
      <4>1. Set(b, j, Absent) /\ Persist(b, Nobody)
        BY <1>17, <3>1 DEF Forget
      <4>2. listed' = [listed EXCEPT ![b] = @ \ {j}]
        BY <1>17, <3>1 DEF Forget
      <4> QED BY <4>1, <4>2, AbsentType, SetType, PersistType DEF TypeOK
    <3>2. CASE ~(j \in listed[b] /\ job[b][j].phase = "error")
      BY <1>17, <3>2 DEF Forget, TypeOK
    <3> QED BY <3>1, <3>2
  <2> QED BY <1>17, <2>1, <2>2 DEF Forget, TypeOK
<1>18. CASE ResumeRead
  BY <1>18 DEF ResumeRead, TypeOK
<1>19. ASSUME NEW j \in Jobs, ResumeSkip(j) PROVE TypeOK'
  BY <1>19, AbsentType DEF ResumeSkip, TypeOK, JobTable
<1>20. ASSUME NEW j \in Jobs, ResumeTake(j) PROVE TypeOK'
  BY <1>20, AbsentType, SetType DEF ResumeTake, TypeOK, JobTable
<1>21. ASSUME NEW j \in Jobs, ResumeUserFound(j) PROVE TypeOK'
  BY <1>21, EditTypes, CellType, SetType, GoType, PersistType DEF ResumeUserFound, TypeOK, NextEntry, Steps
<1>22. ASSUME NEW j \in Jobs, ResumeUserGone(j) PROVE TypeOK'
  BY <1>22, EditTypes, CellType, SetType DEF ResumeUserGone, TypeOK, NextEntry
<1>23. CASE ResumeEnd
  BY <1>23, PersistType DEF ResumeEnd, TypeOK
<1>24. CASE ResumeThrows
  BY <1>24, AbsentType DEF ResumeThrows, TypeOK
<1>25. ASSUME NEW j \in Jobs, NEW k \in 1..Len(tasks[j]), TaskEnds(j, k) PROVE TypeOK'
  BY <1>25 DEF TaskEnds, TypeOK
<1>26. CASE Crash
  BY <1>26, AbsentType DEF Crash, TypeOK, NotResuming, Steps
<1>27. CASE UNCHANGED vars
  BY <1>27 DEF vars, TypeOK
<1> QED
  BY <1>1, <1>2, <1>3, <1>4, <1>5, <1>6, <1>7, <1>8, <1>9, <1>10, <1>11, <1>12, <1>13, <1>14, <1>15, <1>16, <1>17, <1>18, <1>19, <1>20, <1>21, <1>22, <1>23, <1>24, <1>25, <1>26, <1>27
  DEF Next, Work, Resume

\* The Maps, the queues and the row of restore-jobs.ts keep their types.
LEMMA TypeCorrectInit == Init => TypeOK
BY AbsentType DEF Init, NotResuming, TypeOK, Steps, Verdict

THEOREM TypeCorrect == Spec => []TypeOK
<1>1. Init => TypeOK
  BY TypeCorrectInit
<1>2. TypeOK /\ [Next]_vars => TypeOK'
  BY TypeStep
<1> QED BY <1>1, <1>2, PTL DEF Spec

----------------------------------------------------------------------------
(* NoResubmitKnown: a step seen from one copy of one job, from the row and *)
(* from resumeRestoreJobs; the invariant follows from these views alone.   *)

\* What one step does to one copy of one job: the object and its worker.
Same(c, i) == job'[c][i] = job[c][i] /\ pc'[c][i] = pc[c][i]
Began(c, i) ==
  /\ c = RouteBundle /\ i \notin enqueued /\ i \in enqueued'
  /\ job'[c][i].phase = "stopping" /\ job'[c][i].upid = 0
  /\ pc'[c][i] = "saveAttempt" /\ resume' = resume
  /\ EarlyEnqueue \/ resume.step /= "read"
Late == {"saveUpid", "saveRunning", "wait", "saveDelete"}
Advanced(c, i) ==
  /\ job'[c][i] = job[c][i]
  /\ pc'[c][i] \in Late => pc[c][i] \in Late
  /\ pc'[c][i] = "saveDelete" => tasks[i][job[c][i].upid] = "ok"
  /\ pc[c][i] /= "idle"
  /\ pc'[c][i] \in PreCall => pc[c][i] \in PreCall
  /\ pc'[c][i] \in {"saveAttempt", "call"} => pc[c][i] \in {"saveAttempt", "call"}
  /\ pc'[c][i] /= "idle" => pc[c][i] /= "saveError" /\ pc'[c][i] /= "saveError"
Retried(c, i) ==
  /\ pc[c][i] = "call" /\ pc'[c][i] = "saveAttempt"
  /\ job'[c][i].phase = job[c][i].phase /\ job'[c][i].upid = job[c][i].upid
Named(c, i) ==
  /\ pc[c][i] = "posted" /\ pc'[c][i] = "saveUpid"
  /\ job'[c][i].phase = "running"
  /\ job'[c][i].upid = reply[c][i] /\ reply[c][i] /= 0
Failed(c, i) ==
  /\ pc[c][i] \notin {"idle", "saveError"} /\ pc'[c][i] = "saveError"
  /\ job'[c][i].phase = "error" /\ job'[c][i].upid = job[c][i].upid
Dropped(c, i) ==
  /\ job'[c][i] = Absent
  /\ \/ pc[c][i] = "saveDelete" /\ pc'[c][i] = "idle"
     \/ job[c][i].phase = "error" /\ pc'[c][i] = pc[c][i]
Taken(c, i) ==
  /\ c = ServerBundle /\ resume.step = "loop"
  /\ resume.left[i].phase /= "none" /\ resume'.left[i] = Absent
  /\ job'[c][i] = resume.left[i] /\ pc'[c][i] = pc[c][i]
Restarted(c, i) ==
  /\ c = ServerBundle /\ resume.step = "user" /\ resume.current = i
  /\ resume'.step = "loop" /\ resume'.left = resume.left
  /\ job'[c][i].upid = job[c][i].upid
  /\ \/ /\ IsActive(job'[c][i])
        /\ pc'[c][i] = IF job[c][i].upid /= 0 THEN "saveRunning" ELSE "saveAttempt"
     \/ job'[c][i].phase = "error" /\ pc'[c][i] = pc[c][i]

CellMove(c, i) ==
  \/ Same(c, i) \/ Began(c, i) \/ Advanced(c, i) \/ Retried(c, i) \/ Named(c, i)
  \/ Failed(c, i) \/ Dropped(c, i) \/ Taken(c, i) \/ Restarted(c, i)

\* What one step does to the row and to the writes on their way to it.
RowMove ==
  \/ store' = store /\ image' = image
  \/ \E b \in Bundles :
       /\ store' = store /\ job' = job
       /\ \A i \in Jobs : /\ image'[b][i] \in {job[b][i], Absent}
                          /\ \A c \in Bundles \ {b} : image'[c][i] = image[c][i]
  \/ \E b \in Bundles :
       \A i \in Jobs : /\ store'[i] \in {store[i], image[b][i]}
                       /\ image'[b][i] = Absent
                       /\ \A c \in Bundles \ {b} : image'[c][i] = image[c][i]

\* What one step does to resumeRestoreJobs.
ResumeMove ==
  \/ resume' = resume /\ known' = known
  \/ /\ resume.step = "read" /\ resume'.step = "loop" /\ resume'.left = store
     /\ known' = known \cup {j \in Jobs : store[j].upid /= 0}
     /\ job' = job /\ pc' = pc /\ store' = store /\ image' = image
  \/ /\ resume'.step \in {"loop", "done"} /\ known' = known
     /\ \A i \in Jobs : resume'.left[i] \in {resume.left[i], Absent}
  \/ /\ resume'.step = "user" /\ known' = known
     /\ \A i \in Jobs : resume'.left[i] \in {resume.left[i], Absent}
     /\ resume'.current \in Jobs /\ resume'.left[resume'.current] = Absent
     /\ resume.left[resume'.current].phase /= "none"
     /\ IsActive(job'[ServerBundle][resume'.current])
     /\ pc' = pc

\* The process dies.
Died ==
  /\ known' = known /\ resume' = NotResuming
  /\ \A i \in Jobs :
       /\ \E b \in Bundles : store'[i] \in {store[i], image[b][i]}
       /\ \A c \in Bundles : /\ job'[c][i] = Absent /\ image'[c][i] = Absent
                             /\ pc'[c][i] = "idle"

Seen ==
  /\ RowMove /\ ResumeMove /\ enqueued \subseteq enqueued'
  /\ \A c \in Bundles, i \in Jobs :
       CellMove(c, i) /\ (pc'[c][i] = "posted" => reply'[c][i] /= 0)

LEMMA SetCell ==
  ASSUME TypeOK, NEW b \in Bundles, NEW j \in Jobs, NEW r, Set(b, j, r)
  PROVE  /\ job'[b][j] = r
         /\ \A c \in Bundles, i \in Jobs : c /= b \/ i /= j => job'[c][i] = job[c][i]
BY DEF TypeOK, Set, JobTable

LEMMA GoCell ==
  ASSUME TypeOK, NEW b \in Bundles, NEW j \in Jobs, NEW s, Go(b, j, s)
  PROVE  /\ pc'[b][j] = s
         /\ \A c \in Bundles, i \in Jobs : c /= b \/ i /= j => pc'[c][i] = pc[c][i]
BY DEF TypeOK, Go

LEMMA EditFields ==
  ASSUME NEW r \in JobRecord, NEW n \in Nat
  PROVE  /\ [r EXCEPT !.phase = "error"].phase = "error"
         /\ [r EXCEPT !.phase = "error"].upid = r.upid
         /\ [r EXCEPT !.phase = "running"].phase = "running"
         /\ [r EXCEPT !.phase = "running"].upid = r.upid
         /\ [r EXCEPT !.upid = n, !.phase = "running"].phase = "running"
         /\ [r EXCEPT !.upid = n, !.phase = "running"].upid = n
         /\ [r EXCEPT !.attempt = @ + 1].phase = r.phase
         /\ [r EXCEPT !.attempt = @ + 1].upid = r.upid
BY DEF JobRecord

LEMMA FailCell ==
  ASSUME TypeOK, NEW b \in Bundles, NEW j \in Jobs, Fail(b, j)
  PROVE  /\ job'[b][j].phase = "error" /\ job'[b][j].upid = job[b][j].upid
         /\ pc'[b][j] = "saveError"
         /\ \A c \in Bundles, i \in Jobs : c /= b \/ i /= j => Same(c, i)
<1>1. Set(b, j, [job[b][j] EXCEPT !.phase = "error"]) /\ Go(b, j, "saveError")
  BY DEF Fail
<1>2. job'[b][j] = [job[b][j] EXCEPT !.phase = "error"] /\ pc'[b][j] = "saveError"
  BY <1>1, SetCell, GoCell
<1>3. job[b][j] \in JobRecord /\ 0 \in Nat
  BY CellType
<1>4. \A c \in Bundles, i \in Jobs : c /= b \/ i /= j => Same(c, i)
  BY <1>1, SetCell, GoCell DEF Same
<1> QED BY <1>2, <1>3, <1>4, EditFields

\* Either end of a write moves the row as RowMove says.
LEMMA WriteEnds ==
  ASSUME TypeOK, NEW b \in Bundles, WriteSucceeds(b) \/ WriteFails(b)
  PROVE  RowMove
<1>1. store' \in {store, image[b]} /\ image' = [image EXCEPT ![b] = Nothing]
  BY DEF WriteSucceeds, WriteFails
<1>2. \A i \in Jobs : /\ store'[i] \in {store[i], image[b][i]}
                      /\ image'[b][i] = Absent
                      /\ \A c \in Bundles \ {b} : image'[c][i] = image[c][i]
  BY <1>1 DEF TypeOK, JobTable, Nothing
<1> QED BY <1>2 DEF RowMove

\* Every step but a crash is one that Seen describes.
LEMMA SeenStep == IInv /\ Next => Seen \/ Crash
<1> SUFFICES ASSUME IInv, Next PROVE Seen \/ Crash
  OBVIOUS
<1>t. TypeOK /\ WorkerHoldsJob /\ ResumeOrder
  BY DEF IInv
<1>1. ASSUME NEW j \in Jobs, Enqueue(j) PROVE Seen
  <2>1. RowMove /\ ResumeMove /\ enqueued \subseteq enqueued'
    BY <1>1 DEF Enqueue, RowMove, ResumeMove
  <2>2. Began(RouteBundle, j)
    BY <1>t, <1>1, SetCell, GoCell DEF Enqueue, Began
  <2>3. \A c \in Bundles, i \in Jobs : c /= RouteBundle \/ i /= j => Same(c, i)
    BY <1>t, <1>1, SetCell, GoCell DEF Enqueue, Same
  <2>4. reply' = reply /\ pc'[RouteBundle][j] /= "posted"
    BY <1>1, <2>2 DEF Enqueue, Began
  <2> QED BY <1>t, <2>1, <2>2, <2>3, <2>4 DEF Seen, CellMove, Same, WorkerHoldsJob
<1>2. ASSUME NEW b \in Bundles, WriteStart(b) PROVE Seen
  <2>1. \A i \in Jobs : /\ image'[b][i] \in {job[b][i], Absent}
                        /\ \A c \in Bundles \ {b} : image'[c][i] = image[c][i]
    BY <1>t, <1>2 DEF WriteStart, TypeOK, Snapshot
  <2>2. RowMove /\ ResumeMove /\ enqueued' = enqueued
    BY <1>2, <2>1 DEF WriteStart, RowMove, ResumeMove, history
  <2>3. job' = job /\ pc' = pc /\ reply' = reply
    BY <1>2 DEF WriteStart
  <2> QED BY <1>t, <2>2, <2>3 DEF Seen, CellMove, Same, WorkerHoldsJob
<1>3. ASSUME NEW b \in Bundles, BackgroundWriteEnds(b) PROVE Seen
  <2>1. RowMove /\ ResumeMove /\ enqueued' = enqueued
    BY <1>t, <1>3, WriteEnds DEF BackgroundWriteEnds, ResumeMove, bundleVars, history, bounds
  <2>2. \A c \in Bundles, i \in Jobs : CellMove(c, i) /\ (pc'[c][i] = "posted" => reply'[c][i] /= 0)
    BY <1>t, <1>3 DEF BackgroundWriteEnds, CellMove, Same, WorkerHoldsJob, bundleVars, history, bounds
  <2> QED BY <2>1, <2>2 DEF Seen
<1>4. ASSUME NEW b \in Bundles, NEW j \in Jobs, AttemptSaved(b, j) PROVE Seen
  <2>1. RowMove /\ ResumeMove /\ enqueued' = enqueued
    BY <1>t, <1>4, WriteEnds DEF AttemptSaved, ResumeMove, bundleVars, history, bounds
  <2>2. \A c \in Bundles, i \in Jobs : CellMove(c, i) /\ (pc'[c][i] = "posted" => reply'[c][i] /= 0)
    BY <1>t, <1>4, GoCell DEF AttemptSaved, CellMove, Same, WorkerHoldsJob, bundleVars, history, bounds, Awaits, Advanced, PreCall, Late
  <2> QED BY <2>1, <2>2 DEF Seen
<1>5. ASSUME NEW b \in Bundles, NEW j \in Jobs, StillStopping(b, j) PROVE Seen
  <2>1. RowMove /\ ResumeMove /\ enqueued' = enqueued
    BY <1>5 DEF StillStopping, RowMove, ResumeMove, history
  <2>2. job[b][j] \in JobRecord /\ reply[b][j] \in Nat /\ 0 \in Nat
    BY <1>t, CellType
  <2>3. job'[b][j] = [job[b][j] EXCEPT !.attempt = @ + 1] /\ pc'[b][j] = "saveAttempt"
    BY <1>t, <1>5, SetCell, GoCell DEF StillStopping
  <2>4. Retried(b, j)
    BY <1>t, <1>5, <2>2, <2>3, EditFields DEF StillStopping, Retried, WorkerHoldsJob
  <2>5. \A c \in Bundles, i \in Jobs : c /= b \/ i /= j => Same(c, i)
    BY <1>t, <1>5, SetCell, GoCell DEF StillStopping, Same
  <2>6. \A c \in Bundles, i \in Jobs : c /= b \/ i /= j => reply'[c][i] = reply[c][i]
    BY <1>t, <1>5 DEF StillStopping, TypeOK
  <2> QED BY <1>t, <2>1, <2>3, <2>4, <2>5, <2>6 DEF Seen, CellMove, Same, WorkerHoldsJob
<1>6. ASSUME NEW b \in Bundles, NEW j \in Jobs, Accepted(b, j) PROVE Seen
  <2>1. RowMove /\ ResumeMove /\ enqueued' = enqueued
    BY <1>6 DEF Accepted, RowMove, ResumeMove, history
  <2>2. Advanced(b, j)
    BY <1>t, <1>6, GoCell DEF Accepted, Advanced, PreCall, Late
  <2>3. \A c \in Bundles, i \in Jobs : c /= b \/ i /= j => Same(c, i)
    BY <1>t, <1>6, GoCell DEF Accepted, Same
  <2>4. reply'[b][j] /= 0
    BY <1>t, <1>6 DEF Accepted, TypeOK
  <2>5. \A c \in Bundles, i \in Jobs : c /= b \/ i /= j => reply'[c][i] = reply[c][i]
    BY <1>t, <1>6 DEF Accepted, TypeOK
  <2> QED BY <1>t, <2>1, <2>2, <2>3, <2>4, <2>5 DEF Seen, CellMove, Same, WorkerHoldsJob
<1>7. ASSUME NEW b \in Bundles, NEW j \in Jobs, UpidReceived(b, j) PROVE Seen
  <2>1. RowMove /\ ResumeMove /\ enqueued' = enqueued
    BY <1>7 DEF UpidReceived, RowMove, ResumeMove, history
  <2>2. job[b][j] \in JobRecord /\ reply[b][j] \in Nat /\ 0 \in Nat
    BY <1>t, CellType
  <2>3. job'[b][j] = [job[b][j] EXCEPT !.upid = reply[b][j], !.phase = "running"] /\ pc'[b][j] = "saveUpid"
    BY <1>t, <1>7, SetCell, GoCell DEF UpidReceived
  <2>4. Named(b, j)
    BY <1>t, <1>7, <2>2, <2>3, EditFields DEF UpidReceived, Named, WorkerHoldsJob
  <2>5. \A c \in Bundles, i \in Jobs : c /= b \/ i /= j => Same(c, i)
    BY <1>t, <1>7, SetCell, GoCell DEF UpidReceived, Same
  <2>6. \A c \in Bundles, i \in Jobs : c /= b \/ i /= j => reply'[c][i] = reply[c][i]
    BY <1>t, <1>7 DEF UpidReceived, TypeOK
  <2> QED BY <1>t, <2>1, <2>3, <2>4, <2>5, <2>6 DEF Seen, CellMove, Same, WorkerHoldsJob
<1>8. ASSUME NEW b \in Bundles, NEW j \in Jobs, CallFails(b, j) PROVE Seen
  <2>1. RowMove /\ ResumeMove /\ enqueued' = enqueued
    BY <1>t, <1>8 DEF CallFails, ResumeMove, bundleVars, history, bounds, RowMove
  <2>2. \A c \in Bundles, i \in Jobs : CellMove(c, i) /\ (pc'[c][i] = "posted" => reply'[c][i] /= 0)
    BY <1>t, <1>8, FailCell DEF CallFails, CellMove, Same, WorkerHoldsJob, bundleVars, history, bounds, Failed
  <2> QED BY <2>1, <2>2 DEF Seen
<1>9. ASSUME NEW b \in Bundles, NEW j \in Jobs, UpidSaved(b, j) PROVE Seen
  <2>1. RowMove /\ ResumeMove /\ enqueued' = enqueued
    BY <1>t, <1>9, WriteEnds DEF UpidSaved, ResumeMove, bundleVars, history, bounds
  <2>2. \A c \in Bundles, i \in Jobs : CellMove(c, i) /\ (pc'[c][i] = "posted" => reply'[c][i] /= 0)
    BY <1>t, <1>9, GoCell DEF UpidSaved, CellMove, Same, WorkerHoldsJob, bundleVars, history, bounds, Awaits, Advanced, PreCall, Late
  <2> QED BY <2>1, <2>2 DEF Seen
<1>10. ASSUME NEW b \in Bundles, NEW j \in Jobs, RunningSaved(b, j) PROVE Seen
  <2>1. RowMove /\ ResumeMove /\ enqueued' = enqueued
    BY <1>t, <1>10, WriteEnds DEF RunningSaved, ResumeMove, bundleVars, history, bounds
  <2>2. \A c \in Bundles, i \in Jobs : CellMove(c, i) /\ (pc'[c][i] = "posted" => reply'[c][i] /= 0)
    BY <1>t, <1>10, GoCell DEF RunningSaved, CellMove, Same, WorkerHoldsJob, bundleVars, history, bounds, Awaits, Advanced, PreCall, Late
  <2> QED BY <2>1, <2>2 DEF Seen
<1>11. ASSUME NEW b \in Bundles, NEW j \in Jobs, SaveThrows(b, j) PROVE Seen
  <2>1. RowMove /\ ResumeMove /\ enqueued' = enqueued
    BY <1>t, <1>11, WriteEnds DEF SaveThrows, ResumeMove, bundleVars, history, bounds
  <2>2. \A c \in Bundles, i \in Jobs : CellMove(c, i) /\ (pc'[c][i] = "posted" => reply'[c][i] /= 0)
    BY <1>t, <1>11, FailCell DEF SaveThrows, CellMove, Same, WorkerHoldsJob, bundleVars, history, bounds, Awaits, Failed
  <2> QED BY <2>1, <2>2 DEF Seen
<1>12. ASSUME NEW b \in Bundles, NEW j \in Jobs, TaskSeenOk(b, j) PROVE Seen
  <2>1. RowMove /\ ResumeMove /\ enqueued' = enqueued
    BY <1>t, <1>12 DEF TaskSeenOk, ResumeMove, bundleVars, history, bounds, RowMove
  <2>2. \A c \in Bundles, i \in Jobs : CellMove(c, i) /\ (pc'[c][i] = "posted" => reply'[c][i] /= 0)
    BY <1>t, <1>12, GoCell DEF TaskSeenOk, CellMove, Same, WorkerHoldsJob, bundleVars, history, bounds, Advanced, PreCall, Late
  <2> QED BY <2>1, <2>2 DEF Seen
<1>13. ASSUME NEW b \in Bundles, NEW j \in Jobs, WaitThrows(b, j) PROVE Seen
  <2>1. RowMove /\ ResumeMove /\ enqueued' = enqueued
    BY <1>t, <1>13 DEF WaitThrows, ResumeMove, bundleVars, history, bounds, RowMove
  <2>2. \A c \in Bundles, i \in Jobs : CellMove(c, i) /\ (pc'[c][i] = "posted" => reply'[c][i] /= 0)
    BY <1>t, <1>13, FailCell DEF WaitThrows, CellMove, Same, WorkerHoldsJob, bundleVars, history, bounds, Failed
  <2> QED BY <2>1, <2>2 DEF Seen
<1>14. ASSUME NEW b \in Bundles, NEW j \in Jobs, DeleteSaved(b, j) PROVE Seen
  <2>1. RowMove /\ ResumeMove /\ enqueued' = enqueued
    BY <1>t, <1>14, WriteEnds DEF DeleteSaved, ResumeMove, bundleVars, history, bounds
  <2>2. \A c \in Bundles, i \in Jobs : CellMove(c, i) /\ (pc'[c][i] = "posted" => reply'[c][i] /= 0)
    BY <1>t, <1>14, GoCell, SetCell DEF DeleteSaved, CellMove, Same, WorkerHoldsJob, bundleVars, history, bounds, Awaits, Dropped
  <2> QED BY <2>1, <2>2 DEF Seen
<1>15. ASSUME NEW b \in Bundles, NEW j \in Jobs, DeleteNotSaved(b, j) PROVE Seen
  <2>1. RowMove /\ ResumeMove /\ enqueued' = enqueued
    BY <1>t, <1>15, WriteEnds DEF DeleteNotSaved, ResumeMove, bundleVars, history, bounds
  <2>2. \A c \in Bundles, i \in Jobs : CellMove(c, i) /\ (pc'[c][i] = "posted" => reply'[c][i] /= 0)
    BY <1>t, <1>15, GoCell DEF DeleteNotSaved, CellMove, Same, WorkerHoldsJob, bundleVars, history, bounds, Awaits, Advanced, PreCall, Late
  <2> QED BY <2>1, <2>2 DEF Seen
<1>16. ASSUME NEW b \in Bundles, NEW j \in Jobs, ErrorSaveEnds(b, j) PROVE Seen
  <2>1. RowMove /\ ResumeMove /\ enqueued' = enqueued
    BY <1>t, <1>16, WriteEnds DEF ErrorSaveEnds, ResumeMove, bundleVars, history, bounds
  <2>2. \A c \in Bundles, i \in Jobs : CellMove(c, i) /\ (pc'[c][i] = "posted" => reply'[c][i] /= 0)
    BY <1>t, <1>16, GoCell DEF ErrorSaveEnds, CellMove, Same, WorkerHoldsJob, bundleVars, history, bounds, Awaits, Advanced, PreCall, Late
  <2> QED BY <2>1, <2>2 DEF Seen
<1>17. ASSUME NEW b \in Bundles, NEW j \in Jobs, Forget(b, j) PROVE Seen
  <2>1. RowMove /\ ResumeMove /\ enqueued' = enqueued
    BY <1>t, <1>17 DEF Forget, ResumeMove, bundleVars, history, bounds, RowMove
  <2>2. \A c \in Bundles, i \in Jobs : CellMove(c, i) /\ (pc'[c][i] = "posted" => reply'[c][i] /= 0)
    BY <1>t, <1>17, SetCell DEF Forget, CellMove, Same, WorkerHoldsJob, bundleVars, history, bounds, Dropped
  <2> QED BY <2>1, <2>2 DEF Seen
<1>18. CASE ResumeRead
  <2>1. RowMove /\ ResumeMove /\ enqueued' = enqueued
    BY <1>t, <1>18 DEF ResumeRead, ResumeMove, bundleVars, history, bounds, RowMove
  <2>2. \A c \in Bundles, i \in Jobs : CellMove(c, i) /\ (pc'[c][i] = "posted" => reply'[c][i] /= 0)
    BY <1>t, <1>18 DEF ResumeRead, CellMove, Same, WorkerHoldsJob, bundleVars, history, bounds
  <2> QED BY <2>1, <2>2 DEF Seen
<1>19. ASSUME NEW j \in Jobs, ResumeSkip(j) PROVE Seen
  <2>1. RowMove /\ ResumeMove /\ enqueued' = enqueued
    BY <1>t, <1>19 DEF ResumeSkip, ResumeMove, bundleVars, history, bounds, RowMove
  <2>2. \A c \in Bundles, i \in Jobs : CellMove(c, i) /\ (pc'[c][i] = "posted" => reply'[c][i] /= 0)
    BY <1>t, <1>19 DEF ResumeSkip, CellMove, Same, WorkerHoldsJob, bundleVars, history, bounds
  <2> QED BY <2>1, <2>2 DEF Seen
<1>20. ASSUME NEW j \in Jobs, ResumeTake(j) PROVE Seen
  <2>1. store' = store /\ image' = image /\ pc' = pc /\ reply' = reply
        /\ known' = known /\ enqueued' = enqueued
    BY <1>20 DEF ResumeTake, history
  <2>2. job'[ServerBundle][j] = resume.left[j]
    BY <1>t, <1>20, SetCell DEF ResumeTake
  <2>3. /\ resume'.left[j] = Absent
        /\ \A i \in Jobs : resume'.left[i] \in {resume.left[i], Absent}
    BY <1>t, <1>20 DEF ResumeTake, TypeOK, JobTable
  <2>4. Taken(ServerBundle, j)
    BY <1>20, <2>1, <2>2, <2>3 DEF ResumeTake, Taken
  <2>5. \A c \in Bundles, i \in Jobs : c /= ServerBundle \/ i /= j => Same(c, i)
    BY <1>t, <1>20, <2>1, SetCell DEF ResumeTake, Same
  <2>6. resume.left[j] \in JobRecord
    BY <1>t DEF TypeOK, JobTable
  <2>7. ResumeMove
    <3>1. CASE resume.left[j].phase = "error"
      <4>1. resume'.step = "loop"
        BY <1>t, <1>20, <3>1 DEF ResumeTake, TypeOK
      <4> QED BY <4>1, <2>1, <2>3 DEF ResumeMove
    <3>2. CASE resume.left[j].phase /= "error"
      <4>1. resume'.step = "user" /\ resume'.current = j
        BY <1>t, <1>20, <3>2 DEF ResumeTake, TypeOK
      <4>2. IsActive(resume.left[j])
        BY <1>20, <2>6, <3>2 DEF ResumeTake, IsActive, JobRecord
      <4>3. resume.left[j].phase /= "none"
        BY <1>20 DEF ResumeTake
      <4> QED BY <4>1, <4>2, <4>3, <2>1, <2>2, <2>3 DEF ResumeMove
    <3> QED BY <3>1, <3>2
  <2> QED BY <1>t, <2>1, <2>4, <2>5, <2>7 DEF Seen, RowMove, CellMove, Same, WorkerHoldsJob
<1>21. ASSUME NEW j \in Jobs, ResumeUserFound(j) PROVE Seen
  <2>1. store' = store /\ image' = image /\ known' = known /\ enqueued' = enqueued
        /\ reply' = reply /\ resume' = [resume EXCEPT !.step = "loop", !.current = Nobody]
    BY <1>21 DEF ResumeUserFound, NextEntry, history
  <2>2. resume'.step = "loop" /\ resume'.left = resume.left
    BY <1>t, <2>1 DEF TypeOK
  <2>3. job[ServerBundle][j] \in JobRecord /\ 0 \in Nat /\ IsActive(job[ServerBundle][j])
    BY <1>t, <1>21, CellType DEF ResumeUserFound, ResumeOrder
  <2>4. pc'[ServerBundle][j] = IF job[ServerBundle][j].upid /= 0 THEN "saveRunning" ELSE "saveAttempt"
    BY <1>t, <1>21, GoCell DEF ResumeUserFound
  <2>5. /\ job'[ServerBundle][j].upid = job[ServerBundle][j].upid
        /\ IsActive(job'[ServerBundle][j])
    <3>1. CASE job[ServerBundle][j].upid /= 0
      <4>1. job'[ServerBundle][j] = [job[ServerBundle][j] EXCEPT !.phase = "running"]
        BY <1>t, <1>21, <3>1, SetCell DEF ResumeUserFound
      <4> QED BY <4>1, <2>3, EditFields DEF IsActive
    <3>2. CASE job[ServerBundle][j].upid = 0
      BY <1>21, <2>3, <3>2 DEF ResumeUserFound
    <3> QED BY <3>1, <3>2
  <2>6. Restarted(ServerBundle, j)
    BY <1>21, <2>2, <2>4, <2>5 DEF ResumeUserFound, Restarted, PreCall
  <2>7. \A c \in Bundles, i \in Jobs : c /= ServerBundle \/ i /= j => Same(c, i)
    <3>1. \A c \in Bundles, i \in Jobs : c /= ServerBundle \/ i /= j => job'[c][i] = job[c][i]
      BY <1>t, <1>21, SetCell DEF ResumeUserFound
    <3>2. \A c \in Bundles, i \in Jobs : c /= ServerBundle \/ i /= j => pc'[c][i] = pc[c][i]
      BY <1>t, <1>21, GoCell DEF ResumeUserFound
    <3> QED BY <3>1, <3>2 DEF Same
  <2>8. RowMove /\ ResumeMove
    BY <2>1, <2>2 DEF RowMove, ResumeMove
  <2> QED BY <1>t, <2>1, <2>4, <2>6, <2>7, <2>8 DEF Seen, CellMove, Same, WorkerHoldsJob
<1>22. ASSUME NEW j \in Jobs, ResumeUserGone(j) PROVE Seen
  <2>1. store' = store /\ image' = image /\ known' = known /\ enqueued' = enqueued
        /\ reply' = reply /\ pc' = pc
        /\ resume' = [resume EXCEPT !.step = "loop", !.current = Nobody]
    BY <1>22 DEF ResumeUserGone, NextEntry, history
  <2>2. resume'.step = "loop" /\ resume'.left = resume.left
    BY <1>t, <2>1 DEF TypeOK
  <2>3. job[ServerBundle][j] \in JobRecord /\ 0 \in Nat
    BY <1>t, CellType
  <2>4. job'[ServerBundle][j] = [job[ServerBundle][j] EXCEPT !.phase = "error"]
    BY <1>t, <1>22, SetCell DEF ResumeUserGone
  <2>5. Restarted(ServerBundle, j)
    BY <1>22, <2>1, <2>2, <2>3, <2>4, EditFields DEF ResumeUserGone, Restarted
  <2>6. \A c \in Bundles, i \in Jobs : c /= ServerBundle \/ i /= j => Same(c, i)
    BY <1>t, <1>22, <2>1, SetCell DEF ResumeUserGone, Same
  <2>7. RowMove /\ ResumeMove
    BY <2>1, <2>2 DEF RowMove, ResumeMove
  <2> QED BY <1>t, <2>1, <2>5, <2>6, <2>7 DEF Seen, CellMove, Same, WorkerHoldsJob
<1>23. CASE ResumeEnd
  <2>1. RowMove /\ ResumeMove /\ enqueued' = enqueued
    BY <1>t, <1>23 DEF ResumeEnd, ResumeMove, bundleVars, history, bounds, RowMove
  <2>2. \A c \in Bundles, i \in Jobs : CellMove(c, i) /\ (pc'[c][i] = "posted" => reply'[c][i] /= 0)
    BY <1>t, <1>23 DEF ResumeEnd, CellMove, Same, WorkerHoldsJob, bundleVars, history, bounds
  <2> QED BY <2>1, <2>2 DEF Seen
<1>24. CASE ResumeThrows
  <2>1. job' = job /\ pc' = pc /\ reply' = reply /\ store' = store /\ image' = image
        /\ known' = known /\ enqueued' = enqueued
        /\ resume' = [step |-> "done", left |-> Nothing, current |-> Nobody]
    BY <1>24 DEF ResumeThrows, history
  <2>2. resume'.step = "done" /\ \A i \in Jobs : resume'.left[i] = Absent
    BY <2>1 DEF Nothing
  <2>3. RowMove /\ ResumeMove
    BY <2>1, <2>2 DEF RowMove, ResumeMove
  <2> QED BY <1>t, <2>1, <2>3 DEF Seen, CellMove, Same, WorkerHoldsJob
<1>25. ASSUME NEW j \in Jobs, NEW k \in 1..Len(tasks[j]), TaskEnds(j, k) PROVE Seen
  <2>1. RowMove /\ ResumeMove /\ enqueued' = enqueued
    BY <1>t, <1>25 DEF TaskEnds, ResumeMove, bundleVars, history, bounds, RowMove
  <2>2. \A c \in Bundles, i \in Jobs : CellMove(c, i) /\ (pc'[c][i] = "posted" => reply'[c][i] /= 0)
    BY <1>t, <1>25 DEF TaskEnds, CellMove, Same, WorkerHoldsJob, bundleVars, history, bounds
  <2> QED BY <2>1, <2>2 DEF Seen
<1> QED
  BY <1>1, <1>2, <1>3, <1>4, <1>5, <1>6, <1>7, <1>8, <1>9, <1>10, <1>11, <1>12, <1>13, <1>14, <1>15, <1>16, <1>17, <1>18, <1>19, <1>20, <1>21, <1>22, <1>23, <1>24, <1>25
  DEF Next, Work, Resume

LEMMA CrashDied == TypeOK /\ Crash => Died
<1> SUFFICES ASSUME TypeOK, Crash PROVE Died
  OBVIOUS
<1>1. known' = known /\ resume' = NotResuming
  BY DEF Crash, history
<1>2. \A i \in Jobs : \E b \in Bundles : store'[i] \in {store[i], image[b][i]}
  BY DEF Crash, TypeOK
<1>3. \A i \in Jobs, c \in Bundles : /\ job'[c][i] = Absent /\ image'[c][i] = Absent
                                     /\ pc'[c][i] = "idle"
  BY DEF Crash, Nothing
<1> QED BY <1>1, <1>2, <1>3 DEF Died

\* The parts of IInv, from the views.
LEMMA FreshStep == IInv /\ Seen => FreshAbsent' /\ known' \subseteq enqueued'
<1> SUFFICES ASSUME IInv, Seen PROVE FreshAbsent' /\ known' \subseteq enqueued'
  OBVIOUS
<1>1. \A j \in Jobs \ enqueued' : store'[j] = Absent /\ \A b \in Bundles : image'[b][j] = Absent
  BY DEF IInv, FreshAbsent, Seen, RowMove
<1>2. \A j \in Jobs \ enqueued' : resume'.left[j] = Absent
  BY DEF IInv, FreshAbsent, Seen, ResumeMove
<1>3. ASSUME NEW j \in Jobs \ enqueued', NEW b \in Bundles PROVE job'[b][j] = Absent
  <2>1. job[b][j] = Absent /\ resume.left[j] = Absent /\ j \notin enqueued
    BY DEF IInv, FreshAbsent, Seen
  <2>2. pc[b][j] \in {"idle", "saveError"}
    BY <2>1 DEF IInv, WorkerHoldsJob, Absent, IsActive
  <2>3. resume.step = "user" /\ b = ServerBundle => resume.current /= j
    BY <2>1 DEF IInv, ResumeOrder, Absent, IsActive
  <2>4. CellMove(b, j)
    BY DEF Seen
  <2> QED BY <2>1, <2>2, <2>3, <2>4 DEF CellMove, Same, Began, Advanced, Retried,
            Named, Failed, Dropped, Taken, Restarted, Absent
<1>4. known' \subseteq enqueued'
  <2>1. \A j \in Jobs : store[j].upid /= 0 => j \in enqueued
    BY DEF IInv, FreshAbsent, Absent
  <2> QED BY <2>1 DEF IInv, Seen, ResumeMove
<1> QED BY <1>1, <1>2, <1>3, <1>4 DEF FreshAbsent

LEMMA WorkerStep == IInv /\ Seen => WorkerHoldsJob'
<1> SUFFICES ASSUME IInv, Seen, NEW b \in Bundles, NEW j \in Jobs
             PROVE  /\ pc'[b][j] \notin {"idle", "saveError"} => IsActive(job'[b][j])
                    /\ pc'[b][j] \in PreCall => job'[b][j].upid = 0
                    /\ pc'[b][j] = "posted" => reply'[b][j] /= 0
  BY DEF WorkerHoldsJob
<1>1. CellMove(b, j) /\ (pc'[b][j] = "posted" => reply'[b][j] /= 0)
  BY DEF Seen
<1>2. /\ pc[b][j] \notin {"idle", "saveError"} => IsActive(job[b][j])
      /\ pc[b][j] \in PreCall => job[b][j].upid = 0
  BY DEF IInv, WorkerHoldsJob
<1>3. CASE Taken(b, j)
  BY <1>1, <1>3 DEF Taken, IInv, ResumeOrder, PreCall
<1>4. CASE Restarted(b, j)
  BY <1>1, <1>4 DEF Restarted, IInv, ResumeOrder, PreCall
<1> QED BY <1>1, <1>2, <1>3, <1>4 DEF CellMove, Same, Began, Advanced, Retried,
           Named, Failed, Dropped, IsActive, PreCall

LEMMA ResumeStep == IInv /\ Seen => ResumeOrder'
<1> SUFFICES ASSUME IInv, Seen PROVE ResumeOrder'
  OBVIOUS
<1> DEFINE b == ServerBundle
<1>1. ASSUME NEW j \in Jobs, resume'.step = "read" \/ resume'.left[j].phase /= "none"
      PROVE  pc'[b][j] = "idle" /\ job'[b][j] = Absent
  <2>1. /\ resume.step = "read" \/ resume.left[j].phase /= "none"
        /\ resume'.step = "read" => resume' = resume
    BY <1>1 DEF Seen, ResumeMove, Absent
  <2>2. pc[b][j] = "idle" /\ job[b][j] = Absent
    BY <2>1 DEF IInv, ResumeOrder
  <2>3. ~Taken(b, j)
    BY <1>1, <2>1 DEF Taken, Absent
  <2>4. ~Restarted(b, j)
    BY <1>1, <2>1 DEF Restarted, IInv, ResumeOrder
  <2>5. CellMove(b, j)
    BY DEF Seen
  <2> QED BY <2>2, <2>3, <2>4, <2>5 DEF CellMove, Same, Began, Advanced, Retried,
            Named, Failed, Dropped, Absent
<1>2. ASSUME resume'.step = "read", NEW j \in Jobs PROVE image'[b][j] = Absent
  <2>1. resume.step = "read"
    BY <1>2 DEF Seen, ResumeMove
  <2>2. image[b][j] = Absent /\ job[b][j] = Absent
    BY <2>1 DEF IInv, ResumeOrder
  <2> QED BY <2>2 DEF Seen, RowMove
<1>3. ASSUME resume'.step = "user"
      PROVE  /\ resume'.current \in Jobs
             /\ IsActive(job'[b][resume'.current])
             /\ pc'[b][resume'.current] = "idle"
             /\ resume'.left[resume'.current].phase = "none"
  <2>1. CASE resume' = resume
    <3>1. /\ resume.current \in Jobs /\ IsActive(job[b][resume.current])
          /\ pc[b][resume.current] = "idle"
          /\ resume.left[resume.current].phase = "none" /\ resume.step = "user"
      BY <1>3, <2>1 DEF IInv, ResumeOrder
    <3>2. CellMove(b, resume.current)
      BY <3>1 DEF Seen
    <3> QED BY <2>1, <3>1, <3>2 DEF CellMove, Same, Began, Advanced, Retried,
            Named, Failed, Dropped, Taken, Restarted, IsActive
  <2>2. CASE resume' /= resume
    <3>1. /\ resume'.current \in Jobs /\ resume'.left[resume'.current] = Absent
          /\ resume.left[resume'.current].phase /= "none"
          /\ IsActive(job'[b][resume'.current]) /\ pc' = pc
      BY <1>3, <2>2 DEF Seen, ResumeMove
    <3> QED BY <3>1 DEF IInv, ResumeOrder, Absent
  <2> QED BY <2>1, <2>2
<1> QED BY <1>1, <1>2, <1>3 DEF ResumeOrder

\* A copy that names its task goes on naming it, whatever happens to it.
LEMMA TaskKept ==
  ASSUME IInv, Seen, NEW b \in Bundles, NEW j \in Jobs, HasTask(job[b][j]),
         j \in enqueued, HasTask(resume.left[j])
  PROVE  HasTask(job'[b][j])
<1>1. CellMove(b, j)
  BY DEF Seen
<1>2. pc[b][j] \notin {"idle", "saveError"} => job[b][j].upid /= 0 /\ pc[b][j] \notin PreCall
  BY DEF IInv, WorkerHoldsJob, HasTask, IsActive
<1>3. Restarted(b, j) => job[b][j].upid /= 0
  BY DEF Restarted, IInv, ResumeOrder, HasTask, IsActive
<1> QED BY <1>1, <1>2, <1>3 DEF CellMove, Same, Began, Advanced, Retried, Named,
           Failed, Dropped, Taken, Restarted, HasTask, PreCall, Absent

LEMMA StoredStep == IInv /\ Seen => StoredIsOld'
<1> DEFINE b == RouteBundle
<1> SUFFICES ASSUME IInv, Seen, resume'.step = "read", NEW j \in Jobs
             PROVE  /\ store'[j].upid /= 0 \/ image'[b][j].upid /= 0 => HasTask(job'[b][j])
                    /\ store'[j].upid /= 0 => HasTask(image'[b][j])
  BY DEF StoredIsOld
<1>1. resume' = resume /\ resume.step = "read"
  BY DEF Seen, ResumeMove
<1>2. image[ServerBundle][j] = Absent
  BY <1>1 DEF IInv, ResumeOrder
<1>3. /\ store[j].upid /= 0 \/ image[b][j].upid /= 0 => HasTask(job[b][j]) /\ j \in enqueued
      /\ store[j].upid /= 0 => HasTask(image[b][j])
  BY <1>1 DEF IInv, StoredIsOld, FreshAbsent, Absent
<1>4. store[j].upid /= 0 \/ image[b][j].upid /= 0 => HasTask(job'[b][j])
  <2>1. ~Taken(b, j) /\ ~Restarted(b, j)
    BY <1>1 DEF Taken, Restarted
  <2>2. pc[b][j] \notin {"idle", "saveError"} => IsActive(job[b][j])
    BY DEF IInv, WorkerHoldsJob
  <2>3. pc[b][j] \in PreCall => job[b][j].upid = 0 /\ IsActive(job[b][j])
    BY DEF IInv, WorkerHoldsJob, PreCall
  <2>4. CellMove(b, j)
    BY DEF Seen
  <2> QED BY <1>3, <2>1, <2>2, <2>3, <2>4 DEF CellMove, Same, Began, Advanced,
            Retried, Named, Failed, Dropped, HasTask, PreCall, Absent, IsActive
<1>5. CASE store' = store /\ image' = image
  BY <1>3, <1>4, <1>5
<1>6. ASSUME NEW c \in Bundles, store' = store, job' = job,
             \A i \in Jobs : /\ image'[c][i] \in {job[c][i], Absent}
                             /\ \A d \in Bundles \ {c} : image'[d][i] = image[d][i]
      PROVE  /\ store'[j].upid /= 0 \/ image'[b][j].upid /= 0 => HasTask(job'[b][j])
             /\ store'[j].upid /= 0 => HasTask(image'[b][j])
  BY <1>3, <1>4, <1>6 DEF HasTask, Absent
<1>7. ASSUME NEW c \in Bundles,
             \A i \in Jobs : /\ store'[i] \in {store[i], image[c][i]}
                             /\ image'[c][i] = Absent
                             /\ \A d \in Bundles \ {c} : image'[d][i] = image[d][i]
      PROVE  /\ store'[j].upid /= 0 \/ image'[b][j].upid /= 0 => HasTask(job'[b][j])
             /\ store'[j].upid /= 0 => HasTask(image'[b][j])
  BY <1>2, <1>3, <1>4, <1>7 DEF HasTask, Absent
<1> QED BY <1>5, <1>6, <1>7 DEF Seen, RowMove

LEMMA KnownStep == IInv /\ Seen => KnownEverywhere'
<1> SUFFICES ASSUME IInv, Seen, NEW j \in known', NEW b \in Bundles
             PROVE  /\ HasTask(store'[j]) /\ HasTask(resume'.left[j])
                    /\ HasTask(image'[b][j]) /\ HasTask(job'[b][j])
  BY DEF KnownEverywhere
<1>1. j \in Jobs /\ known \subseteq enqueued
  BY DEF IInv, TypeOK, Seen, ResumeMove
<1>2. HasTask(Absent)
  BY DEF HasTask, Absent
<1>3. CASE j \in known
  <2>1. /\ HasTask(store[j]) /\ HasTask(resume.left[j])
        /\ \A c \in Bundles : HasTask(image[c][j]) /\ HasTask(job[c][j])
    BY <1>3 DEF IInv, KnownEverywhere
  <2>2. HasTask(job'[b][j])
    BY <1>1, <1>3, <2>1, TaskKept
  <2>3. HasTask(store'[j]) /\ HasTask(image'[b][j])
    BY <1>1, <1>2, <2>1 DEF Seen, RowMove
  <2>4. HasTask(resume'.left[j])
    BY <1>1, <1>2, <2>1 DEF Seen, ResumeMove
  <2> QED BY <2>2, <2>3, <2>4
<1>4. CASE j \notin known
  <2>1. /\ resume.step = "read" /\ resume'.left = store /\ store[j].upid /= 0
        /\ job' = job /\ store' = store /\ image' = image
    BY <1>4 DEF Seen, ResumeMove
  <2>2. HasTask(store[j])
    BY <2>1 DEF HasTask
  <2>3. HasTask(job[RouteBundle][j]) /\ HasTask(image[RouteBundle][j])
    BY <1>1, <2>1 DEF IInv, StoredIsOld
  <2>4. job[ServerBundle][j] = Absent /\ image[ServerBundle][j] = Absent
    BY <1>1, <2>1 DEF IInv, ResumeOrder
  <2> QED BY <1>2, <2>1, <2>2, <2>3, <2>4
<1> QED BY <1>3, <1>4

\* A crash leaves only the row, which IInv already covers.
LEMMA DiedStep ==
  ASSUME IInv, Died, enqueued' = enqueued
  PROVE  /\ FreshAbsent' /\ WorkerHoldsJob' /\ ResumeOrder' /\ StoredIsOld'
         /\ KnownEverywhere' /\ known' \subseteq enqueued'
<1>1. /\ known' = known /\ resume'.step = "read" /\ known \subseteq enqueued
      /\ \A j \in Jobs : resume'.left[j] = Absent
  BY DEF Died, NotResuming, IInv, Nothing
<1>2. \A j \in Jobs : /\ \E b \in Bundles : store'[j] \in {store[j], image[b][j]}
                      /\ \A c \in Bundles : /\ job'[c][j] = Absent /\ image'[c][j] = Absent
                                            /\ pc'[c][j] = "idle"
  BY DEF Died
<1>3. Absent.phase = "none" /\ Absent.upid = 0 /\ HasTask(Absent)
  BY DEF Absent, HasTask
<1>4. FreshAbsent'
  BY <1>1, <1>2 DEF FreshAbsent, IInv
<1>5. WorkerHoldsJob'
  BY <1>2 DEF WorkerHoldsJob, PreCall
<1>6. ResumeOrder' /\ StoredIsOld'
  BY <1>1, <1>2, <1>3 DEF ResumeOrder, StoredIsOld
<1>7. KnownEverywhere'
  <2>1. known \subseteq Jobs
    BY DEF IInv, TypeOK
  <2> QED BY <1>1, <1>2, <1>3, <2>1 DEF KnownEverywhere, IInv
<1> QED BY <1>1, <1>4, <1>5, <1>6, <1>7

\* IInv, the inductive invariant about the copies of a job in the Maps, in the
\* writes under way, in the row and in resumeRestoreJobs.
THEOREM CopiesAgree == Spec => []IInv
<1>1. Init => IInv
  BY TypeCorrectInit DEF Init, IInv, FreshAbsent, WorkerHoldsJob, ResumeOrder, StoredIsOld,
     KnownEverywhere, NotResuming, Nothing, Absent, PreCall
<1>2. IInv /\ [Next]_vars => IInv'
  <2> SUFFICES ASSUME IInv, [Next]_vars PROVE IInv'
    OBVIOUS
  <2>1. TypeOK'
    BY TypeStep DEF IInv
  <2>2. CASE Next
    <3>1. CASE Seen
      BY <2>1, <3>1, FreshStep, WorkerStep, ResumeStep, StoredStep, KnownStep DEF IInv
    <3>2. CASE Crash
      <4>1. enqueued' = enqueued /\ Died
        BY <3>2, CrashDied DEF Crash, history, IInv
      <4> QED BY <2>1, <4>1, DiedStep DEF IInv
    <3> QED BY <2>2, <3>1, <3>2, SeenStep
  <2>3. CASE UNCHANGED vars
    BY <2>1, <2>3 DEF vars, bundleVars, history, bounds, IInv, FreshAbsent,
       WorkerHoldsJob, ResumeOrder, StoredIsOld, KnownEverywhere
  <2> QED BY <2>2, <2>3
<1> QED BY <1>1, <1>2, PTL DEF Spec

\* A restore that was resumed with its task is never requested again, for any
\* number of jobs, restarts and failing writes.
THEOREM NeverResubmitted == Spec => NoResubmitKnown
<1>1. IInv /\ [Next]_vars => [\A j \in known : Len(tasks'[j]) = Len(tasks[j])]_vars
  <2> SUFFICES ASSUME IInv, Next, NEW i \in known
               PROVE  Len(tasks'[i]) = Len(tasks[i])
    OBVIOUS
  <2>1. TypeOK /\ i \in Jobs
    BY DEF IInv, TypeOK
  <2>2. ASSUME NEW b \in Bundles, NEW j \in Jobs, Accepted(b, j)
        PROVE  Len(tasks'[i]) = Len(tasks[i])
    <3>1. IsActive(job[b][j]) /\ job[b][j].upid = 0
      BY <2>2 DEF Accepted, IInv, WorkerHoldsJob, PreCall
    <3>2. HasTask(job[b][i])
      BY DEF IInv, KnownEverywhere
    <3>3. i /= j
      BY <3>1, <3>2 DEF HasTask, IsActive
    <3> QED BY <2>1, <2>2, <3>3 DEF Accepted, TypeOK
  <2>3. ASSUME NEW j \in Jobs, NEW k \in 1..Len(tasks[j]), TaskEnds(j, k)
        PROVE  Len(tasks'[i]) = Len(tasks[i])
    <3>1. PICK r : tasks' = [tasks EXCEPT ![j][k] = r]
      BY <2>3 DEF TaskEnds
    <3>2. tasks[j] \in Seq({"running", "ok", "failed"})
      BY DEF IInv, TypeOK
    <3>3. Len([tasks[j] EXCEPT ![k] = r]) = Len(tasks[j])
      BY <3>2
    <3> QED BY <2>1, <3>1, <3>3 DEF TypeOK
  <2>4. ASSUME NEW b \in Bundles, NEW j \in Jobs, Work(b, j), ~Accepted(b, j)
        PROVE  tasks' = tasks
    BY <2>4 DEF Work, AttemptSaved, StillStopping, UpidReceived, CallFails,
       UpidSaved, RunningSaved, SaveThrows, TaskSeenOk, WaitThrows, DeleteSaved,
       DeleteNotSaved, ErrorSaveEnds
  <2>5. ASSUME Resume PROVE tasks' = tasks
    BY <2>5 DEF Resume, ResumeRead, ResumeSkip, ResumeTake, ResumeUserFound,
       ResumeUserGone, ResumeEnd, ResumeThrows
  <2>6. ASSUME NEW b \in Bundles, NEW j \in Jobs,
               Enqueue(j) \/ WriteStart(b) \/ BackgroundWriteEnds(b) \/ Forget(b, j)
        PROVE  tasks' = tasks
    BY <2>6 DEF Enqueue, WriteStart, BackgroundWriteEnds, Forget
  <2>7. ASSUME Crash PROVE tasks' = tasks
    BY <2>7 DEF Crash
  <2> QED BY <2>1, <2>2, <2>3, <2>4, <2>5, <2>6, <2>7 DEF Next
<1> QED BY <1>1, CopiesAgree, PTL DEF Spec, NoResubmitKnown

=============================================================================
