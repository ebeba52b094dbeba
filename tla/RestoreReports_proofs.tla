------------------------ MODULE RestoreReports_proofs ------------------------
(* What RestoreJobs tells the user, for every set of jobs and every bound:  *)
(* successes are true, and no unfinished entry is left without a worker.    *)
(* The views of a step are those of RestoreJobs_proofs.                     *)
EXTENDS RestoreJobs_proofs

USE RestoreAssumption DEF Bundles

----------------------------------------------------------------------------
(* SuccessIsTrue.                                                          *)

\* Whatever copy of a job names a task, Proxmox has accepted it.
TasksExist ==
  \A j \in Jobs :
    /\ store[j].upid <= Len(tasks[j]) /\ resume.left[j].upid <= Len(tasks[j])
    /\ \A b \in Bundles : /\ image[b][j].upid <= Len(tasks[j])
                          /\ job[b][j].upid <= Len(tasks[j])
                          /\ reply[b][j] <= Len(tasks[j])

\* A worker past the call watches a task, and one that removes the entry has
\* seen it end well.
WorkerWatches ==
  \A b \in Bundles, j \in Jobs :
    /\ pc[b][j] \in Late => job[b][j].upid /= 0
    /\ pc[b][j] = "saveDelete" => tasks[j][job[b][j].upid] = "ok"

ReportInv == TasksExist /\ WorkerWatches /\ SuccessIsTrue

\* What one step does to the tasks at Proxmox and the replies about them.
TaskMove ==
  \A i \in Jobs :
    /\ Len(tasks'[i]) \in Nat /\ Len(tasks[i]) <= Len(tasks'[i])
    /\ \A k \in 1..Len(tasks[i]) : tasks[i][k] = "ok" => tasks'[i][k] = "ok"
    /\ \A c \in Bundles : reply'[c][i] \in {reply[c][i], 0, Len(tasks'[i])}

LEMMA TasksGrow == TypeOK /\ Next => TaskMove
<1> SUFFICES ASSUME TypeOK, Next PROVE TaskMove
  OBVIOUS
<1>t. /\ \A i \in Jobs : tasks[i] \in Seq({"running", "ok", "failed"}) /\ Len(tasks[i]) \in Nat
      /\ \A c \in Bundles, i \in Jobs : reply[c][i] \in Nat
      /\ tasks \in [Jobs -> Seq({"running", "ok", "failed"})]
      /\ reply \in [Bundles -> [Jobs -> Nat]]
  BY DEF TypeOK
<1>1. ASSUME tasks' = tasks, \A c \in Bundles, i \in Jobs : reply'[c][i] \in {reply[c][i], 0}
      PROVE  TaskMove
  BY <1>t, <1>1 DEF TaskMove
<1>2. ASSUME NEW b \in Bundles, NEW j \in Jobs, Accepted(b, j) PROVE TaskMove
  <2>1. /\ tasks' = [tasks EXCEPT ![j] = Append(@, "running")]
        /\ reply' = [reply EXCEPT ![b][j] = Len(tasks[j]) + 1]
    BY <1>2 DEF Accepted
  <2>2. \A i \in Jobs : i /= j => /\ tasks'[i] = tasks[i]
                                  /\ \A c \in Bundles : reply'[c][i] = reply[c][i]
    BY <1>t, <2>1
  <2>3. tasks'[j] = Append(tasks[j], "running")
    BY <1>t, <2>1
  <2>4. /\ Len(tasks'[j]) = Len(tasks[j]) + 1
        /\ \A k \in 1..Len(tasks[j]) : tasks'[j][k] = tasks[j][k]
    BY <1>t, <2>3
  <2>5. \A c \in Bundles : reply'[c][j] \in {reply[c][j], Len(tasks[j]) + 1}
    BY <1>t, <2>1
  <2> SUFFICES ASSUME NEW i \in Jobs
               PROVE  /\ Len(tasks'[i]) \in Nat /\ Len(tasks[i]) <= Len(tasks'[i])
                      /\ \A k \in 1..Len(tasks[i]) : tasks[i][k] = "ok" => tasks'[i][k] = "ok"
                      /\ \A c \in Bundles : reply'[c][i] \in {reply[c][i], 0, Len(tasks'[i])}
    BY DEF TaskMove
  <2>6. CASE i = j
    BY <1>t, <2>4, <2>5, <2>6
  <2>7. CASE i /= j
    BY <1>t, <2>2, <2>7
  <2> QED BY <2>6, <2>7
<1>3. ASSUME NEW j \in Jobs, NEW k \in 1..Len(tasks[j]), TaskEnds(j, k) PROVE TaskMove
  <2>1. PICK r : tasks' = [tasks EXCEPT ![j][k] = r]
    BY <1>3 DEF TaskEnds
  <2>2. reply' = reply /\ tasks[j][k] = "running"
    BY <1>3 DEF TaskEnds, bundleVars
  <2>3. tasks'[j] = [tasks[j] EXCEPT ![k] = r] /\ \A i \in Jobs : i /= j => tasks'[i] = tasks[i]
    BY <1>t, <2>1
  <2>4. /\ Len(tasks'[j]) = Len(tasks[j])
        /\ \A n \in 1..Len(tasks[j]) : n /= k => tasks'[j][n] = tasks[j][n]
    BY <1>t, <2>3
  <2> SUFFICES ASSUME NEW i \in Jobs
               PROVE  /\ Len(tasks'[i]) \in Nat /\ Len(tasks[i]) <= Len(tasks'[i])
                      /\ \A n \in 1..Len(tasks[i]) : tasks[i][n] = "ok" => tasks'[i][n] = "ok"
                      /\ \A c \in Bundles : reply'[c][i] \in {reply[c][i], 0, Len(tasks'[i])}
    BY DEF TaskMove
  <2>5. CASE i = j
    BY <1>t, <2>2, <2>4, <2>5
  <2>6. CASE i /= j
    BY <1>t, <2>2, <2>3, <2>6
  <2> QED BY <2>5, <2>6
<1>4. ASSUME NEW b \in Bundles, NEW j \in Jobs, UpidReceived(b, j) \/ CallFails(b, j)
      PROVE  TaskMove
  <2>1. tasks' = tasks /\ reply' = [reply EXCEPT ![b][j] = 0]
    BY <1>4 DEF UpidReceived, CallFails
  <2> QED BY <1>t, <1>1, <2>1
<1>5. CASE Crash
  <2>1. tasks' = tasks /\ \A c \in Bundles, i \in Jobs : reply'[c][i] = 0
    BY <1>5 DEF Crash
  <2> QED BY <1>1, <2>1
<1>6. ASSUME NEW b \in Bundles, NEW j \in Jobs, Work(b, j), ~Accepted(b, j),
             ~UpidReceived(b, j), ~CallFails(b, j)
      PROVE  tasks' = tasks /\ reply' = reply
  BY <1>6 DEF Work, AttemptSaved, StillStopping, UpidSaved, RunningSaved, SaveThrows,
     TaskSeenOk, WaitThrows, DeleteSaved, DeleteNotSaved, ErrorSaveEnds
<1>7. ASSUME Resume PROVE tasks' = tasks /\ reply' = reply
  BY <1>7 DEF Resume, ResumeRead, ResumeSkip, ResumeTake, ResumeUserFound,
     ResumeUserGone, ResumeEnd, ResumeThrows
<1>8. ASSUME NEW b \in Bundles, NEW j \in Jobs,
             Enqueue(j) \/ WriteStart(b) \/ BackgroundWriteEnds(b) \/ Forget(b, j)
      PROVE  tasks' = tasks /\ reply' = reply
  BY <1>8 DEF Enqueue, WriteStart, BackgroundWriteEnds, Forget
<1>9. tasks' = tasks /\ reply' = reply => TaskMove
  BY <1>1
<1> HIDE DEF TaskMove
<1>10. CASE \E b \in Bundles, j \in Jobs : Work(b, j)
  <2>1. PICK b \in Bundles, j \in Jobs : Work(b, j)
    BY <1>10
  <2> QED BY <2>1, <1>2, <1>4, <1>6, <1>9
<1>11. CASE Resume
  BY <1>7, <1>9, <1>11
<1>12. CASE \E j \in Jobs : \E k \in 1..Len(tasks[j]) : TaskEnds(j, k)
  BY <1>3, <1>12
<1>13. CASE \/ \E j \in Jobs : Enqueue(j)
            \/ \E b \in Bundles : WriteStart(b) \/ BackgroundWriteEnds(b)
            \/ \E b \in Bundles, j \in Jobs : Forget(b, j)
  <2>1. ASSUME NEW b \in Bundles, BackgroundWriteEnds(b) \/ WriteStart(b)
        PROVE  tasks' = tasks /\ reply' = reply
    BY <2>1 DEF BackgroundWriteEnds, WriteStart
  <2> QED BY <1>8, <1>9, <1>13, <2>1
<1> QED BY <1>5, <1>10, <1>11, <1>12, <1>13 DEF Next

\* A step sends at most one notification about a job, and a success only when
\* the entry has left the row.
VerdictMove ==
  \A i \in Jobs :
    \/ verdicts'[i] = verdicts[i]
    \/ \E v \in Verdict :
         /\ verdicts'[i] = Append(verdicts[i], v)
         /\ v.level = "success" =>
              \E b \in Bundles : pc[b][i] = "saveDelete" /\ v.task = job[b][i].upid

LEMMA VerdictsGrow == TypeOK /\ Next => VerdictMove
<1> SUFFICES ASSUME TypeOK, Next PROVE VerdictMove
  OBVIOUS
<1>1. ASSUME NEW b \in Bundles, NEW j \in Jobs, NEW l \in {"success", "error"},
             Tell(j, l, job[b][j].upid), l = "success" => pc[b][j] = "saveDelete"
      PROVE  VerdictMove
  <2> DEFINE v == [level |-> l, task |-> job[b][j].upid]
  <2>1. v \in Verdict /\ v.level = l /\ v.task = job[b][j].upid
    BY CellType DEF Verdict, JobRecord
  <2>2. /\ verdicts'[j] = Append(verdicts[j], v)
        /\ \A i \in Jobs : i /= j => verdicts'[i] = verdicts[i]
    BY <1>1 DEF Tell, TypeOK
  <2> HIDE DEF v
  <2> QED BY <1>1, <2>1, <2>2 DEF VerdictMove
<1>2. ASSUME NEW b \in Bundles, NEW j \in Jobs, DeleteSaved(b, j) PROVE VerdictMove
  BY <1>1, <1>2 DEF DeleteSaved, Awaits
<1>3. ASSUME NEW b \in Bundles, NEW j \in Jobs, ErrorSaveEnds(b, j) PROVE VerdictMove
  BY <1>1, <1>3 DEF ErrorSaveEnds, Awaits
<1>4. ASSUME NEW b \in Bundles, NEW j \in Jobs, Work(b, j) \/ Forget(b, j),
             ~DeleteSaved(b, j), ~ErrorSaveEnds(b, j)
      PROVE  verdicts' = verdicts
  BY <1>4 DEF Work, AttemptSaved, StillStopping, Accepted, UpidReceived, CallFails,
     UpidSaved, RunningSaved, SaveThrows, TaskSeenOk, WaitThrows, DeleteNotSaved,
     Forget, history
<1>5. ASSUME Resume \/ Crash PROVE verdicts' = verdicts
  BY <1>5 DEF Resume, ResumeRead, ResumeSkip, ResumeTake, ResumeUserFound,
     ResumeUserGone, ResumeEnd, ResumeThrows, Crash, history
<1>6. ASSUME NEW b \in Bundles, WriteStart(b) \/ BackgroundWriteEnds(b)
      PROVE  verdicts' = verdicts
  BY <1>6 DEF WriteStart, BackgroundWriteEnds, history
<1>7. ASSUME NEW j \in Jobs, Enqueue(j) \/ \E k \in 1..Len(tasks[j]) : TaskEnds(j, k)
      PROVE  verdicts' = verdicts
  BY <1>7 DEF Enqueue, TaskEnds, history
<1>8. verdicts' = verdicts => VerdictMove
  BY DEF VerdictMove
<1> HIDE DEF VerdictMove
<1> QED BY <1>2, <1>3, <1>4, <1>5, <1>6, <1>7, <1>8 DEF Next

LEMMA AbsentUpid == Absent.upid = 0 /\ Absent.phase = "none"
BY DEF Absent

\* The new copies of a job come from its old ones or from a reply.
LEMMA TasksStep == TypeOK /\ TasksExist /\ Seen /\ TaskMove => TasksExist'
<1> SUFFICES ASSUME TypeOK, TasksExist, Seen, TaskMove, NEW i \in Jobs, NEW b \in Bundles
             PROVE  /\ store'[i].upid <= Len(tasks'[i])
                    /\ resume'.left[i].upid <= Len(tasks'[i])
                    /\ image'[b][i].upid <= Len(tasks'[i])
                    /\ job'[b][i].upid <= Len(tasks'[i])
                    /\ reply'[b][i] <= Len(tasks'[i])
  BY DEF TasksExist
<1> DEFINE Names(r) == r \in Nat /\ r <= Len(tasks[i])
<1>1. Len(tasks[i]) \in Nat /\ Len(tasks'[i]) \in Nat /\ Len(tasks[i]) <= Len(tasks'[i])
  BY DEF TypeOK, TaskMove
<1>2. /\ Names(0) /\ Names(store[i].upid) /\ Names(resume.left[i].upid)
      /\ \A c \in Bundles : Names(image[c][i].upid) /\ Names(job[c][i].upid) /\ Names(reply[c][i])
  BY <1>1 DEF TypeOK, TasksExist, JobTable, JobRecord
<1>3. \A r : Names(r) => r <= Len(tasks'[i])
  BY <1>1
<1> HIDE DEF Names
<1>4. Names(store'[i].upid) /\ Names(image'[b][i].upid)
  BY <1>2, AbsentUpid DEF Seen, RowMove
<1>5. Names(resume'.left[i].upid)
  BY <1>2, AbsentUpid DEF Seen, ResumeMove
<1>6. CellMove(b, i)
  BY DEF Seen
<1>7. Names(job'[b][i].upid)
  BY <1>2, <1>6, AbsentUpid DEF CellMove, Same, Began, Advanced, Retried, Named, Failed,
     Dropped, Taken, Restarted
<1>8. reply'[b][i] \in {reply[b][i], 0, Len(tasks'[i])}
  BY DEF TaskMove
<1>9. reply'[b][i] <= Len(tasks'[i])
  BY <1>1, <1>2, <1>3, <1>8
<1> QED BY <1>3, <1>4, <1>5, <1>7, <1>9

LEMMA UpidNames ==
  ASSUME TypeOK, TasksExist, NEW b \in Bundles, NEW j \in Jobs
  PROVE  /\ job[b][j].upid \in Nat /\ Len(tasks[j]) \in Nat
         /\ job[b][j].upid <= Len(tasks[j])
<1>1. job[b][j] \in JobRecord
  <2>1. job \in [Bundles -> JobTable]
    BY DEF TypeOK
  <2> QED BY <2>1, Zenon DEF JobTable
<1>2. Len(tasks[j]) \in Nat
  <2>1. tasks \in [Jobs -> Seq({"running", "ok", "failed"})]
    BY DEF TypeOK
  <2> QED BY <2>1
<1> QED BY <1>1, <1>2 DEF JobRecord, TasksExist

\* A worker gets past the call with the name of a task only.
LEMMA WatchStep == IInv /\ TasksExist /\ WorkerWatches /\ Seen /\ TaskMove => WorkerWatches'
<1> SUFFICES ASSUME IInv, TasksExist, WorkerWatches, Seen, TaskMove,
                    NEW b \in Bundles, NEW j \in Jobs
             PROVE  /\ pc'[b][j] \in Late => job'[b][j].upid /= 0
                    /\ pc'[b][j] = "saveDelete" => tasks'[j][job'[b][j].upid] = "ok"
  BY DEF WorkerWatches
<1>1. /\ pc[b][j] \in Late => job[b][j].upid /= 0
      /\ pc[b][j] = "saveDelete" => tasks[j][job[b][j].upid] = "ok"
  BY DEF WorkerWatches
<1>2. CellMove(b, j)
  BY DEF Seen
<1>3. pc[b][j] \in Late => IsActive(job[b][j])
  BY DEF Late, IInv, WorkerHoldsJob
<1>4. b = ServerBundle /\ resume.left[j].phase /= "none" => pc[b][j] = "idle"
  BY DEF IInv, ResumeOrder
<1>5. resume.step = "user" => pc[ServerBundle][resume.current] = "idle"
  BY DEF IInv, ResumeOrder
<1>6. /\ "idle" \notin Late /\ "saveAttempt" \notin Late /\ "saveError" \notin Late
      /\ "saveUpid" \in Late /\ "saveDelete" \in Late
      /\ "saveUpid" /= "saveDelete" /\ "saveRunning" /= "saveDelete"
  BY DEF Late
<1>7. pc'[b][j] \in Late => job'[b][j].upid /= 0
  BY <1>1, <1>2, <1>3, <1>4, <1>5, <1>6, AbsentUpid DEF CellMove, Same, Began, Advanced,
     Retried, Named, Failed, Dropped, Taken, Restarted, IsActive
<1>8. pc'[b][j] = "saveDelete" =>
        /\ job'[b][j] = job[b][j] /\ pc[b][j] \in Late
        /\ tasks[j][job[b][j].upid] = "ok"
  BY <1>1, <1>2, <1>3, <1>4, <1>5, <1>6, AbsentUpid DEF CellMove, Same, Began, Advanced,
     Retried, Named, Failed, Dropped, Taken, Restarted, IsActive
<1>9. /\ job[b][j].upid \in Nat /\ Len(tasks[j]) \in Nat
      /\ job[b][j].upid <= Len(tasks[j])
  BY UpidNames DEF IInv
<1>10. ASSUME pc'[b][j] = "saveDelete" PROVE tasks'[j][job'[b][j].upid] = "ok"
  <2>1. job[b][j].upid \in 1..Len(tasks[j])
    BY <1>1, <1>8, <1>9, <1>10
  <2> QED BY <1>8, <1>10, <2>1 DEF TaskMove
<1> QED BY <1>7, <1>10

\* Every success that was told was the truth, and stays it.
LEMMA SuccessStep ==
  TypeOK /\ TasksExist /\ WorkerWatches /\ SuccessIsTrue /\ TaskMove /\ VerdictMove
    => SuccessIsTrue'
<1> SUFFICES ASSUME TypeOK, TasksExist, WorkerWatches, SuccessIsTrue, TaskMove, VerdictMove,
                    NEW j \in Jobs, NEW i \in 1..Len(verdicts'[j]),
                    verdicts'[j][i].level = "success"
             PROVE  /\ verdicts'[j][i].task \in 1..Len(tasks'[j])
                    /\ tasks'[j][verdicts'[j][i].task] = "ok"
  BY DEF SuccessIsTrue
<1>1. /\ verdicts[j] \in Seq(Verdict) /\ Len(tasks[j]) \in Nat /\ Len(tasks'[j]) \in Nat
      /\ Len(tasks[j]) <= Len(tasks'[j])
  BY DEF TypeOK, TaskMove
<1>2. \A k \in 1..Len(tasks[j]) : tasks[j][k] = "ok" =>
        k \in 1..Len(tasks'[j]) /\ tasks'[j][k] = "ok"
  BY <1>1 DEF TaskMove
<1>3. ASSUME i \in 1..Len(verdicts[j]), verdicts'[j][i] = verdicts[j][i]
      PROVE  /\ verdicts'[j][i].task \in 1..Len(tasks'[j])
             /\ tasks'[j][verdicts'[j][i].task] = "ok"
  BY <1>2, <1>3 DEF SuccessIsTrue
<1>4. CASE verdicts'[j] = verdicts[j]
  BY <1>3, <1>4
<1>5. ASSUME NEW v \in Verdict, verdicts'[j] = Append(verdicts[j], v),
             v.level = "success" =>
               \E b \in Bundles : pc[b][j] = "saveDelete" /\ v.task = job[b][j].upid
      PROVE  /\ verdicts'[j][i].task \in 1..Len(tasks'[j])
             /\ tasks'[j][verdicts'[j][i].task] = "ok"
  <2>1. \/ i \in 1..Len(verdicts[j]) /\ verdicts'[j][i] = verdicts[j][i]
        \/ verdicts'[j][i] = v
    BY <1>1, <1>5
  <2>2. ASSUME verdicts'[j][i] = v
        PROVE  v.task \in 1..Len(tasks[j]) /\ tasks[j][v.task] = "ok"
    <3>1. PICK b \in Bundles : pc[b][j] = "saveDelete" /\ v.task = job[b][j].upid
      BY <1>5, <2>2
    <3>2. job[b][j].upid /= 0 /\ tasks[j][job[b][j].upid] = "ok"
      BY <3>1 DEF WorkerWatches, Late
    <3>3. job[b][j].upid \in Nat /\ job[b][j].upid <= Len(tasks[j])
      BY UpidNames
    <3> QED BY <1>1, <3>1, <3>2, <3>3
  <2> QED BY <1>2, <1>3, <2>1, <2>2
<1> QED BY <1>4, <1>5 DEF VerdictMove

LEMMA DiedReports ==
  TypeOK /\ TasksExist /\ Died /\ TaskMove => TasksExist' /\ WorkerWatches'
<1> SUFFICES ASSUME TypeOK, TasksExist, Died, TaskMove PROVE TasksExist' /\ WorkerWatches'
  OBVIOUS
<1>1. ASSUME NEW j \in Jobs, NEW b \in Bundles
      PROVE  /\ job'[b][j] = Absent /\ image'[b][j] = Absent /\ pc'[b][j] = "idle"
             /\ resume'.left[j] = Absent
  BY <1>1 DEF Died, NotResuming, Nothing
<1>2. ASSUME NEW j \in Jobs
      PROVE  /\ Len(tasks[j]) \in Nat /\ Len(tasks'[j]) \in Nat
             /\ Len(tasks[j]) <= Len(tasks'[j]) /\ store'[j].upid <= Len(tasks'[j])
  <2>1. /\ store[j].upid \in Nat /\ store[j].upid <= Len(tasks[j])
        /\ \A b \in Bundles : image[b][j].upid \in Nat /\ image[b][j].upid <= Len(tasks[j])
    BY DEF TypeOK, JobTable, JobRecord, TasksExist
  <2>2. PICK b \in Bundles : store'[j] \in {store[j], image[b][j]}
    BY DEF Died
  <2>3. Len(tasks[j]) \in Nat /\ Len(tasks'[j]) \in Nat /\ Len(tasks[j]) <= Len(tasks'[j])
    BY DEF TypeOK, TaskMove
  <2> QED BY <2>1, <2>2, <2>3
<1>3. ASSUME NEW j \in Jobs, NEW b \in Bundles PROVE reply'[b][j] <= Len(tasks'[j])
  <2>1. reply'[b][j] \in {reply[b][j], 0, Len(tasks'[j])}
    BY DEF TaskMove
  <2>2. reply[b][j] \in Nat /\ reply[b][j] <= Len(tasks[j])
    BY DEF TypeOK, TasksExist
  <2> QED BY <1>2, <2>1, <2>2
<1>4. TasksExist'
  BY <1>1, <1>2, <1>3, AbsentUpid DEF TasksExist
<1>5. WorkerWatches'
  BY <1>1 DEF WorkerWatches, Late
<1> QED BY <1>4, <1>5

\* ReportInv, the inductive invariant about the tasks that copies and reports name.
LEMMA ReportsAgree == Spec => []ReportInv
<1>1. Init => ReportInv
  <2> SUFFICES ASSUME Init PROVE ReportInv
    OBVIOUS
  <2>1. /\ \A j \in Jobs : tasks[j] = <<>> /\ verdicts[j] = <<>>
        /\ \A j \in Jobs : store[j].upid = 0 /\ resume.left[j].upid = 0
        /\ \A b \in Bundles, j \in Jobs : /\ image[b][j].upid = 0 /\ job[b][j].upid = 0
                                         /\ reply[b][j] = 0 /\ pc[b][j] = "idle"
    BY AbsentUpid DEF Init, Nothing, NotResuming
  <2> QED BY <2>1 DEF ReportInv, TasksExist, WorkerWatches, SuccessIsTrue, Late
<1>2. IInv /\ ReportInv /\ [Next]_vars => ReportInv'
  <2> SUFFICES ASSUME IInv, ReportInv, [Next]_vars PROVE ReportInv'
    OBVIOUS
  <2>1. TypeOK
    BY DEF IInv
  <2>2. CASE Next
    <3>1. TaskMove /\ VerdictMove /\ SuccessIsTrue'
      BY <2>1, <2>2, TasksGrow, VerdictsGrow, SuccessStep DEF ReportInv
    <3>2. CASE Seen
      BY <2>1, <3>1, <3>2, TasksStep, WatchStep DEF ReportInv
    <3>3. CASE Crash
      BY <2>1, <3>1, <3>3, CrashDied, DiedReports DEF ReportInv
    <3> QED BY <2>2, <3>2, <3>3, SeenStep
  <2>3. CASE UNCHANGED vars
    BY <2>3 DEF vars, bundleVars, history, bounds, ReportInv, TasksExist, WorkerWatches,
       SuccessIsTrue
  <2> QED BY <2>2, <2>3
<1> QED BY <1>1, <1>2, CopiesAgree, PTL DEF Spec

\* "Backup eingespielt" is never sent about a restore that did not end well,
\* whichever copy works on it and however often the process restarts.
THEOREM ReportsTrue == Spec => []SuccessIsTrue
<1>1. ReportInv => SuccessIsTrue
  BY DEF ReportInv
<1> QED BY <1>1, ReportsAgree, PTL

----------------------------------------------------------------------------
(* NoOrphan.                                                               *)

\* A worker that is about to report an error has noted it in the entry.
RestsInError == \A b \in Bundles, j \in Jobs : pc[b][j] = "saveError" => ~IsActive(job[b][j])

LEMMA RestsStep == IInv /\ RestsInError /\ Seen => RestsInError'
<1> SUFFICES ASSUME IInv, RestsInError, Seen, NEW b \in Bundles, NEW j \in Jobs,
                    pc'[b][j] = "saveError"
             PROVE  ~IsActive(job'[b][j])
  BY DEF RestsInError
<1>1. CellMove(b, j)
  BY DEF Seen
<1>2. pc[b][j] = "saveError" => ~IsActive(job[b][j])
  BY DEF RestsInError
<1>3. b = ServerBundle /\ resume.left[j].phase /= "none" => pc[b][j] = "idle"
  BY DEF IInv, ResumeOrder
<1>4. resume.step = "user" => pc[ServerBundle][resume.current] = "idle"
  BY DEF IInv, ResumeOrder
<1>5. ~IsActive(Absent)
  BY DEF IsActive, Absent
<1> QED BY <1>1, <1>2, <1>3, <1>4, <1>5 DEF CellMove, Same, Began, Advanced, Retried, Named,
     Failed, Dropped, Taken, Restarted, IsActive

LEMMA DbFailuresGrow ==
  TypeOK /\ Next => dbFailures' \in Nat /\ dbFailures <= dbFailures'
<1> SUFFICES ASSUME TypeOK, Next PROVE dbFailures' \in Nat /\ dbFailures <= dbFailures'
  OBVIOUS
<1>1. dbFailures \in Nat
  BY DEF TypeOK
<1>2. \/ dbFailures' = dbFailures \/ dbFailures' = dbFailures + 1
  <2>1. ASSUME NEW b \in Bundles, NEW j \in Jobs, Work(b, j)
        PROVE  dbFailures' = dbFailures \/ dbFailures' = dbFailures + 1
    BY <2>1 DEF Work, AttemptSaved, StillStopping, Accepted, UpidReceived, CallFails,
       UpidSaved, RunningSaved, SaveThrows, TaskSeenOk, WaitThrows, DeleteSaved,
       DeleteNotSaved, ErrorSaveEnds, WriteSucceeds, WriteFails, bounds
  <2>2. ASSUME Resume PROVE dbFailures' = dbFailures \/ dbFailures' = dbFailures + 1
    BY <2>2 DEF Resume, ResumeRead, ResumeSkip, ResumeTake, ResumeUserFound,
       ResumeUserGone, ResumeEnd, ResumeThrows, bounds
  <2>3. ASSUME NEW b \in Bundles, WriteStart(b) \/ BackgroundWriteEnds(b)
        PROVE  dbFailures' = dbFailures \/ dbFailures' = dbFailures + 1
    BY <2>3 DEF WriteStart, BackgroundWriteEnds, WriteSucceeds, WriteFails, bounds
  <2>4. ASSUME NEW j \in Jobs, \/ Enqueue(j) \/ \E b \in Bundles : Forget(b, j)
                               \/ \E k \in 1..Len(tasks[j]) : TaskEnds(j, k)
        PROVE  dbFailures' = dbFailures
    BY <2>4 DEF Enqueue, Forget, TaskEnds, bounds
  <2>5. ASSUME Crash PROVE dbFailures' = dbFailures
    BY <2>5 DEF Crash
  <2> QED BY <2>1, <2>2, <2>3, <2>4, <2>5 DEF Next
<1> QED BY <1>1, <1>2

\* A step that touches one cell, and leaves it tended, makes no orphan.
Tended(b, j) ==
  \/ ~IsActive(job[b][j]) \/ pc[b][j] /= "idle"
  \/ resume.step = "user" /\ resume.current = j /\ b = ServerBundle
  \/ dbFailures > 0

LEMMA OneCell ==
  ASSUME TypeOK, NoOrphan, Next, NEW b \in Bundles, NEW j \in Jobs,
         \A c \in Bundles, i \in Jobs : c /= b \/ i /= j =>
           Same(c, i) /\ (i \in listed'[c] => i \in listed[c]),
         resume.step = "user" =>
           \/ resume'.step = "user" /\ resume'.current = resume.current
           \/ b = ServerBundle /\ resume.current = j,
         Tended(b, j)' \/ j \notin listed'[b],
         TypeOK'
  PROVE  NoOrphan'
<1> SUFFICES ASSUME NEW c \in Bundles, NEW i \in listed'[c] PROVE Tended(c, i)'
  BY DEF NoOrphan, Tended
<1>1. i \in Jobs
  BY DEF TypeOK
<1>2. CASE c = b /\ i = j
  BY <1>2
<1>3. CASE c /= b \/ i /= j
  <2>1. Same(c, i) /\ i \in listed[c]
    BY <1>1, <1>3
  <2>2. Tended(c, i)
    BY <2>1 DEF NoOrphan, Tended
  <2>3. dbFailures > 0 => dbFailures' > 0
    <3>1. dbFailures \in Nat
      BY DEF TypeOK
    <3> QED BY <3>1, DbFailuresGrow
  <2> QED BY <1>3, <2>1, <2>2, <2>3 DEF Tended, Same
<1> QED BY <1>2, <1>3

LEMMA NoCell ==
  ASSUME TypeOK, NoOrphan, Next, job' = job, pc' = pc, listed' = listed,
         resume.step = "user" => resume'.step = "user" /\ resume'.current = resume.current
  PROVE  NoOrphan'
<1>1. dbFailures > 0 => dbFailures' > 0
  BY DbFailuresGrow DEF TypeOK
<1> QED BY <1>1 DEF NoOrphan

LEMMA OrphanStep == IInv /\ RestsInError /\ NoOrphan /\ Next => NoOrphan'
<1> SUFFICES ASSUME IInv, RestsInError, NoOrphan, Next PROVE NoOrphan'
  OBVIOUS
<1>t. TypeOK /\ TypeOK'
  BY TypeStep DEF IInv
<1>1. ASSUME NEW b \in Bundles, NEW j \in Jobs, NEW s \in Steps \ {"idle"},
             Go(b, j, s), resume' = resume,
             job' = job \/ \E r : Set(b, j, r),
             \A c \in Bundles, i \in Jobs : c /= b \/ i /= j =>
               (i \in listed'[c] => i \in listed[c])
      PROVE  NoOrphan'
  <2>1. pc'[b][j] = s /\ \A c \in Bundles, i \in Jobs : c /= b \/ i /= j => Same(c, i)
    BY <1>1, <1>t, SetCell, GoCell DEF Same
  <2>2. Tended(b, j)'
    BY <1>1, <2>1 DEF Tended
  <2> QED BY <1>1, <1>t, <2>1, <2>2, OneCell
<1>2. ASSUME NEW b \in Bundles, NEW j \in Jobs,
             listed' = listed \/ listed' = [listed EXCEPT ![b] = @ \ {j}]
      PROVE  \A c \in Bundles, i \in Jobs : i \in listed'[c] => i \in listed[c]
  <2>1. listed \in [Bundles -> SUBSET Jobs]
    BY <1>t DEF TypeOK
  <2>2. CASE listed' = listed
    BY <2>2
  <2>3. CASE listed' = [listed EXCEPT ![b] = @ \ {j}]
    BY <2>1, <2>3
  <2> QED BY <1>2, <2>2, <2>3
<1>3. ASSUME NEW j \in Jobs, Enqueue(j) PROVE NoOrphan'
  <2>1. /\ Set(RouteBundle, j, [phase |-> "stopping", upid |-> 0, attempt |-> 1])
        /\ Go(RouteBundle, j, "saveAttempt") /\ resume' = resume
        /\ listed' = [listed EXCEPT ![RouteBundle] = @ \cup {j}]
    BY <1>3 DEF Enqueue
  <2>2. \A c \in Bundles, i \in Jobs : c /= RouteBundle \/ i /= j =>
          (i \in listed'[c] => i \in listed[c])
    BY <1>t, <2>1 DEF TypeOK
  <2> QED BY <1>1, <2>1, <2>2 DEF Steps
<1>4. ASSUME NEW b \in Bundles, NEW j \in Jobs,
             \/ AttemptSaved(b, j) \/ StillStopping(b, j) \/ Accepted(b, j)
             \/ UpidReceived(b, j) \/ CallFails(b, j) \/ UpidSaved(b, j)
             \/ RunningSaved(b, j) \/ SaveThrows(b, j) \/ TaskSeenOk(b, j)
             \/ WaitThrows(b, j)
      PROVE  NoOrphan'
  <2>1. /\ resume' = resume
        /\ job' = job \/ \E r : Set(b, j, r)
        /\ \E s \in Steps \ {"idle"} : Go(b, j, s)
        /\ listed' = listed \/ listed' = [listed EXCEPT ![b] = @ \ {j}]
    BY <1>4 DEF AttemptSaved, StillStopping, Accepted, UpidReceived, CallFails, UpidSaved,
       RunningSaved, SaveThrows, TaskSeenOk, WaitThrows, Fail, Steps
  <2>2. PICK s \in Steps \ {"idle"} : Go(b, j, s)
    BY <2>1
  <2>3. \A c \in Bundles, i \in Jobs : i \in listed'[c] => i \in listed[c]
    BY <1>2, <2>1
  <2> QED BY <1>1, <2>1, <2>2, <2>3
<1>5. ASSUME NEW b \in Bundles, NEW j \in Jobs, DeleteSaved(b, j) PROVE NoOrphan'
  <2>1. Set(b, j, Absent) /\ Go(b, j, "idle") /\ resume' = resume /\ listed' = listed
    BY <1>5 DEF DeleteSaved
  <2>2. /\ job'[b][j] = Absent
        /\ \A c \in Bundles, i \in Jobs : c /= b \/ i /= j => Same(c, i)
    BY <1>t, <2>1, SetCell, GoCell DEF Same
  <2>3. Tended(b, j)'
    BY <2>2 DEF Tended, IsActive, Absent
  <2> QED BY <1>t, <2>1, <2>2, <2>3, OneCell
<1>6. ASSUME NEW b \in Bundles, NEW j \in Jobs, DeleteNotSaved(b, j) PROVE NoOrphan'
  <2>1. dbFailures' = dbFailures + 1
    BY <1>6 DEF DeleteNotSaved, WriteFails
  <2>2. dbFailures' > 0
    BY <1>t, <2>1 DEF TypeOK
  <2> QED BY <2>2 DEF NoOrphan
<1>7. ASSUME NEW b \in Bundles, NEW j \in Jobs, ErrorSaveEnds(b, j) PROVE NoOrphan'
  <2>1. /\ job' = job /\ Go(b, j, "idle") /\ resume' = resume /\ listed' = listed
        /\ pc[b][j] = "saveError"
    BY <1>7 DEF ErrorSaveEnds, Awaits
  <2>2. Tended(b, j)'
    BY <2>1 DEF Tended, RestsInError
  <2>3. \A c \in Bundles, i \in Jobs : c /= b \/ i /= j => Same(c, i)
    BY <1>t, <2>1, GoCell DEF Same
  <2> QED BY <1>t, <2>1, <2>2, <2>3, OneCell
<1>8. ASSUME NEW b \in Bundles, NEW j \in Jobs, Forget(b, j) PROVE NoOrphan'
  <2>1. pc' = pc /\ resume' = resume
    BY <1>8 DEF Forget
  <2>2. CASE job' = job /\ listed' = listed
    BY <1>t, <2>1, <2>2, NoCell
  <2>3. CASE Set(b, j, Absent) /\ listed' = [listed EXCEPT ![b] = @ \ {j}]
    <3>1. \A c \in Bundles, i \in Jobs : c /= b \/ i /= j => Same(c, i)
      BY <1>t, <2>1, <2>3, SetCell DEF Same
    <3>2. j \notin listed'[b]
      BY <1>t, <2>3 DEF TypeOK
    <3>3. \A c \in Bundles, i \in Jobs : i \in listed'[c] => i \in listed[c]
      BY <1>2, <2>3
    <3> QED BY <1>t, <2>1, <3>1, <3>2, <3>3, OneCell
  <2> QED BY <1>8, <2>2, <2>3 DEF Forget
<1>9. ASSUME NEW b \in Bundles, WriteStart(b) \/ BackgroundWriteEnds(b) PROVE NoOrphan'
  <2>1. job' = job /\ pc' = pc /\ listed' = listed /\ resume' = resume
    BY <1>9 DEF WriteStart, BackgroundWriteEnds
  <2> QED BY <1>t, <2>1, NoCell
<1>10. ASSUME NEW j \in Jobs, NEW k \in 1..Len(tasks[j]), TaskEnds(j, k) PROVE NoOrphan'
  <2>1. job' = job /\ pc' = pc /\ listed' = listed /\ resume' = resume
    BY <1>10 DEF TaskEnds, bundleVars
  <2> QED BY <1>t, <2>1, NoCell
<1>11. ASSUME ResumeRead \/ ResumeEnd \/ \E j \in Jobs : ResumeSkip(j) PROVE NoOrphan'
  <2>1. job' = job /\ pc' = pc /\ listed' = listed /\ resume.step /= "user"
    BY <1>11 DEF ResumeRead, ResumeEnd, ResumeSkip
  <2> QED BY <1>t, <2>1, NoCell
<1>12. ASSUME NEW j \in Jobs, ResumeTake(j) PROVE NoOrphan'
  <2> DEFINE r == resume.left[j]
  <2>1. /\ Set(ServerBundle, j, r) /\ pc' = pc /\ resume.step = "loop"
        /\ listed' = [listed EXCEPT ![ServerBundle] = @ \cup {j}]
        /\ r.phase /= "error" =>
             resume' = [resume EXCEPT !.left[j] = Absent, !.step = "user", !.current = j]
    BY <1>12 DEF ResumeTake
  <2>2. r.phase /= "error" => resume'.step = "user" /\ resume'.current = j
    BY <1>t, <2>1 DEF TypeOK
  <2>3. /\ job'[ServerBundle][j] = r
        /\ \A c \in Bundles, i \in Jobs : c /= ServerBundle \/ i /= j => Same(c, i)
    BY <1>t, <2>1, SetCell DEF Same
  <2>4. Tended(ServerBundle, j)'
    BY <2>2, <2>3 DEF Tended, IsActive
  <2>5. \A c \in Bundles, i \in Jobs : c /= ServerBundle \/ i /= j =>
          (i \in listed'[c] => i \in listed[c])
    BY <1>t, <2>1 DEF TypeOK
  <2> QED BY <1>t, <2>1, <2>3, <2>4, <2>5, OneCell
<1>13. ASSUME NEW j \in Jobs, ResumeUserFound(j) PROVE NoOrphan'
  <2>1. /\ resume.current = j /\ listed' = listed
        /\ job' = job \/ \E r : Set(ServerBundle, j, r)
        /\ \E s \in Steps \ {"idle"} : Go(ServerBundle, j, s)
    BY <1>13 DEF ResumeUserFound, Steps
  <2>2. /\ pc'[ServerBundle][j] /= "idle"
        /\ \A c \in Bundles, i \in Jobs : c /= ServerBundle \/ i /= j => Same(c, i)
    BY <1>t, <2>1, SetCell, GoCell DEF Same
  <2>3. Tended(ServerBundle, j)'
    BY <2>2 DEF Tended
  <2> QED BY <1>t, <2>1, <2>2, <2>3, OneCell
<1>14. ASSUME NEW j \in Jobs, ResumeUserGone(j) PROVE NoOrphan'
  <2>1. /\ resume.current = j /\ listed' = listed /\ pc' = pc
        /\ Set(ServerBundle, j, [job[ServerBundle][j] EXCEPT !.phase = "error"])
    BY <1>14 DEF ResumeUserGone
  <2>2. /\ job'[ServerBundle][j] = [job[ServerBundle][j] EXCEPT !.phase = "error"]
        /\ \A c \in Bundles, i \in Jobs : c /= ServerBundle \/ i /= j => Same(c, i)
    BY <1>t, <2>1, SetCell DEF Same
  <2>3. job'[ServerBundle][j].phase = "error"
    BY <1>t, <2>2, CellType, EditFields
  <2>4. Tended(ServerBundle, j)'
    BY <2>3 DEF Tended, IsActive
  <2> QED BY <1>t, <2>1, <2>2, <2>4, OneCell
<1>15. ASSUME ResumeThrows PROVE NoOrphan'
  <2>1. dbFailures' > 0
    BY <1>15, <1>t DEF ResumeThrows, TypeOK
  <2> QED BY <2>1 DEF NoOrphan
<1>16. ASSUME Crash PROVE NoOrphan'
  BY <1>16 DEF Crash, NoOrphan
<1>17. ASSUME NEW b \in Bundles, NEW j \in Jobs, Work(b, j) PROVE NoOrphan'
  BY <1>4, <1>5, <1>6, <1>7, <1>17 DEF Work
<1>18. ASSUME Resume PROVE NoOrphan'
  BY <1>11, <1>12, <1>13, <1>14, <1>15, <1>18 DEF Resume
<1> QED BY <1>3, <1>8, <1>9, <1>10, <1>16, <1>17, <1>18 DEF Next

LEMMA ErrorsNoted == Spec => []RestsInError
<1>1. Init => RestsInError
  BY DEF Init, RestsInError
<1>2. IInv /\ RestsInError /\ [Next]_vars => RestsInError'
  <2> SUFFICES ASSUME IInv, RestsInError, [Next]_vars PROVE RestsInError'
    OBVIOUS
  <2>1. CASE Seen
    BY <2>1, RestsStep
  <2>2. CASE Crash
    BY <2>2 DEF Crash, RestsInError
  <2>3. CASE UNCHANGED vars
    BY <2>3 DEF vars, bundleVars, RestsInError
  <2> QED BY <2>1, <2>2, <2>3, SeenStep
<1> QED BY <1>1, <1>2, CopiesAgree, PTL DEF Spec

\* Nothing sits in a Map as "stopping" or "running" with nobody at work on it,
\* for any number of jobs and restarts, until a database call fails.
THEOREM NobodyForgotten == Spec => []NoOrphan
<1>1. Init => NoOrphan
  BY DEF Init, NoOrphan
<1>2. IInv /\ RestsInError /\ NoOrphan /\ [Next]_vars => NoOrphan'
  <2> SUFFICES ASSUME IInv, RestsInError, NoOrphan, [Next]_vars PROVE NoOrphan'
    OBVIOUS
  <2>1. CASE Next
    BY <2>1, OrphanStep
  <2>2. CASE UNCHANGED vars
    BY <2>2 DEF vars, bundleVars, history, bounds, NoOrphan
  <2> QED BY <2>1, <2>2
<1> QED BY <1>1, <1>2, CopiesAgree, ErrorsNoted, PTL DEF Spec

=============================================================================
