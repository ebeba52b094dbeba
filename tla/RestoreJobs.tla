---------------------------- MODULE RestoreJobs ----------------------------
(***************************************************************************)
(* Backup restores that outlive a request: server/services/restore-jobs.ts.*)
(*                                                                         *)
(* A restore job is an entry of an in-memory Map, worked on by an async    *)
(* function and copied, with every other entry of the Map, into one row    *)
(* of the database (setting "restore.jobs.v1") whenever it changes.  At    *)
(* boot the row is read back and the unfinished jobs are worked on again.  *)
(*                                                                         *)
(* The production build holds the source file twice in one process: the    *)
(* custom server (dist/server.cjs) calls resumeRestoreJobs, the compiled   *)
(* API routes call enqueueRestoreJob, and each copy has a Map and a        *)
(* persistChain of its own.  Both write the same row.                      *)
(*                                                                         *)
(* An action is what runs between two awaits; a crash may come between     *)
(* any two actions, with a database write on its way.                      *)
(***************************************************************************)
EXTENDS Naturals, Sequences

CONSTANTS
  Jobs,           \* job ids; an id is enqueued at most once
  ServerBundle,   \* the copy that resumes stored jobs at boot
  RouteBundle,    \* the copy that serves the API routes
  Nobody,         \* the waiter of a write that nothing awaits
  MaxAttempts,    \* tries to find the guest stopped (50 in the code)
  EarlyEnqueue,   \* may a request enqueue before resume has read the row?
  MaxCrashes,     \* bound on restarts of the process
  MaxDbFailures   \* bound on failing database calls

ASSUME RestoreAssumption ==
  /\ ServerBundle /= RouteBundle
  /\ Nobody \notin Jobs
  /\ MaxAttempts \in Nat \ {0}
  /\ EarlyEnqueue \in BOOLEAN
  /\ MaxCrashes \in Nat
  /\ MaxDbFailures \in Nat

VARIABLES
  job,         \* job[b][j]: the job object bundle b holds for j
  listed,      \* listed[b]: the ids in the Map of bundle b
  pc,          \* pc[b][j]: where runRestoreJob of b stands with j
  reply,       \* reply[b][j]: the task named by the response on its way to b
  chain,       \* chain[b]: persistChain, who awaits each queued write
  busy,        \* the bundles whose first queued write is at the database
  image,       \* image[b]: what that write stores
  timers,      \* timers[b]: the jobs forgetRestoreJob will drop
  resume,      \* progress of resumeRestoreJobs
  store,       \* the row "restore.jobs.v1"
  tasks,       \* tasks[j]: the restore tasks Proxmox accepted for j
  enqueued,    \* history: ids handed out
  recorded,    \* history: jobs a completed write has stored
  known,       \* history: jobs resume has read together with their task
  verdicts,    \* history: the notifications sent about j
  crashes, dbFailures

Bundles == {ServerBundle, RouteBundle}

bundleVars == <<job, listed, pc, reply, chain, busy, image, timers, resume>>
history    == <<enqueued, recorded, known, verdicts>>
bounds     == <<crashes, dbFailures>>
vars == <<bundleVars, store, tasks, history, bounds>>

Steps == {"idle", "saveAttempt", "call", "posted", "saveUpid", "saveRunning",
          "wait", "saveDelete", "saveError"}

\* Task number 0 stands for a job whose upid is still undefined.
JobRecord == [phase : {"none", "stopping", "running", "error"},
              upid : Nat, attempt : Nat]
Absent == [phase |-> "none", upid |-> 0, attempt |-> 0]
Nothing == [j \in Jobs |-> Absent]
IsActive(r) == r.phase \in {"stopping", "running"}

Snapshot(b) == [j \in Jobs |-> IF j \in listed[b] THEN job[b][j] ELSE Absent]

NotResuming == [step |-> "read", left |-> Nothing, current |-> Nobody]

Init ==
  /\ job = [b \in Bundles |-> Nothing]
  /\ listed = [b \in Bundles |-> {}]
  /\ pc = [b \in Bundles |-> [j \in Jobs |-> "idle"]]
  /\ reply = [b \in Bundles |-> [j \in Jobs |-> 0]]
  /\ chain = [b \in Bundles |-> <<>>]
  /\ busy = {}
  /\ image = [b \in Bundles |-> Nothing]
  /\ timers = [b \in Bundles |-> {}]
  /\ resume = NotResuming
  /\ store = Nothing
  /\ tasks = [j \in Jobs |-> <<>>]
  /\ enqueued = {} /\ recorded = {} /\ known = {}
  /\ verdicts = [j \in Jobs |-> <<>>]
  /\ crashes = 0 /\ dbFailures = 0

----------------------------------------------------------------------------
(* Pieces of steps.                                                        *)

Set(b, j, record) == job' = [job EXCEPT ![b][j] = record]
Go(b, j, step) == pc' = [pc EXCEPT ![b][j] = step]
Persist(b, waiter) == chain' = [chain EXCEPT ![b] = Append(@, waiter)]
Tell(j, level, task) ==
  verdicts' = [verdicts EXCEPT ![j] = Append(@, [level |-> level, task |-> task])]

\* Mutants of Fail: an unknown phase; only the worker notes the failure.
FailMisnamed(b, j) ==
  /\ Set(b, j, [job[b][j] EXCEPT !.phase = "failed"])
  /\ Go(b, j, "saveError")

FailUnnoted(b, j) == Go(b, j, "saveError") /\ UNCHANGED job

\* The catch block up to its await: the entry turns into an error.
Fail(b, j) ==
  /\ Set(b, j, [job[b][j] EXCEPT !.phase = "error"])
  /\ Go(b, j, "saveError")

\* The first half of a completed write; the waiter's continuation follows.
WriteSucceeds(b) ==
  /\ b \in busy
  /\ busy' = busy \ {b}
  /\ store' = image[b]
  /\ recorded' = recorded \cup {j \in Jobs : image[b][j].phase /= "none"}
  /\ image' = [image EXCEPT ![b] = Nothing]
  /\ UNCHANGED dbFailures

\* The database reports an error; the row may have been written all the same.
WriteFails(b) ==
  /\ b \in busy
  /\ dbFailures < MaxDbFailures
  /\ dbFailures' = dbFailures + 1
  /\ busy' = busy \ {b}
  /\ store' \in {store, image[b]}
  /\ image' = [image EXCEPT ![b] = Nothing]
  /\ UNCHANGED recorded

Awaits(b, j, step) == Len(chain[b]) > 0 /\ Head(chain[b]) = j /\ pc[b][j] = step
DropHead(b) == chain' = [chain EXCEPT ![b] = Tail(@)]
Requeue(b, j) == chain' = [chain EXCEPT ![b] = Append(Tail(@), j)]

----------------------------------------------------------------------------
(* enqueueRestoreJob and the write queue.                                  *)

\* Mutant of Enqueue: ids come around again, as with one per guest.
EnqueueAgain(j) ==
  LET b == RouteBundle IN
  /\ EarlyEnqueue \/ resume.step /= "read"
  /\ enqueued' = enqueued \cup {j}
  /\ Set(b, j, [phase |-> "stopping", upid |-> 0, attempt |-> 1])
  /\ listed' = [listed EXCEPT ![b] = @ \cup {j}]
  /\ chain' = [chain EXCEPT ![b] = @ \o <<Nobody, j>>]
  /\ Go(b, j, "saveAttempt")
  /\ UNCHANGED <<reply, busy, image, timers, resume, store, tasks, recorded, known,
                 verdicts, bounds>>

Enqueue(j) ==
  LET b == RouteBundle IN
  /\ j \notin enqueued
  /\ EarlyEnqueue \/ resume.step /= "read"
  /\ enqueued' = enqueued \cup {j}
  /\ Set(b, j, [phase |-> "stopping", upid |-> 0, attempt |-> 1])
  /\ listed' = [listed EXCEPT ![b] = @ \cup {j}]
  /\ chain' = [chain EXCEPT ![b] = @ \o <<Nobody, j>>]
  /\ Go(b, j, "saveAttempt")
  /\ UNCHANGED <<reply, busy, image, timers, resume, store, tasks, recorded, known,
                 verdicts, bounds>>

WriteStart(b) ==
  /\ b \notin busy /\ Len(chain[b]) > 0
  /\ busy' = busy \cup {b}
  /\ image' = [image EXCEPT ![b] = Snapshot(b)]
  /\ UNCHANGED <<job, listed, pc, reply, chain, timers, resume, store, tasks,
                 history, bounds>>

BackgroundWriteEnds(b) ==
  /\ Len(chain[b]) > 0 /\ Head(chain[b]) = Nobody
  /\ WriteSucceeds(b) \/ WriteFails(b)
  /\ DropHead(b)
  /\ UNCHANGED <<job, listed, pc, reply, timers, resume, tasks, enqueued, known,
                 verdicts, crashes>>

----------------------------------------------------------------------------
(* runRestoreJob, one action from await to await.                          *)

AttemptSaved(b, j) ==
  /\ Awaits(b, j, "saveAttempt")
  /\ WriteSucceeds(b)
  /\ DropHead(b)
  /\ Go(b, j, "call")
  /\ UNCHANGED <<job, listed, reply, timers, resume, tasks, enqueued, known, verdicts,
                 crashes>>

\* restoreBackup finds the guest running: wait 1.5 s, try again.
StillStopping(b, j) ==
  /\ pc[b][j] = "call"
  /\ job[b][j].attempt < MaxAttempts
  /\ Set(b, j, [job[b][j] EXCEPT !.attempt = @ + 1])
  /\ Persist(b, j)
  /\ Go(b, j, "saveAttempt")
  /\ UNCHANGED <<listed, reply, busy, image, timers, resume, store, tasks, history,
                 bounds>>

\* Proxmox takes the restore request and starts a task.
Accepted(b, j) ==
  /\ pc[b][j] = "call"
  /\ tasks' = [tasks EXCEPT ![j] = Append(@, "running")]
  /\ reply' = [reply EXCEPT ![b][j] = Len(tasks[j]) + 1]
  /\ Go(b, j, "posted")
  /\ UNCHANGED <<job, listed, chain, busy, image, timers, resume, store,
                 history, bounds>>

\* The response arrives with the upid of the task.
UpidReceived(b, j) ==
  /\ pc[b][j] = "posted"
  /\ Set(b, j, [job[b][j] EXCEPT !.upid = reply[b][j], !.phase = "running"])
  /\ reply' = [reply EXCEPT ![b][j] = 0]
  /\ Persist(b, j)
  /\ Go(b, j, "saveUpid")
  /\ UNCHANGED <<listed, busy, image, timers, resume, store, tasks, history,
                 bounds>>

\* Mutant of CallFails: a call whose answer is lost is made again.
CallFailsAgain(b, j) ==
  /\ pc[b][j] \in {"call", "posted"}
  /\ Go(b, j, "saveAttempt")
  /\ Persist(b, j)
  /\ reply' = [reply EXCEPT ![b][j] = 0]
  /\ UNCHANGED <<job, listed, busy, image, timers, resume, store, tasks, history,
                 bounds>>

\* The call throws: before Proxmox saw the request, after it accepted it, or
\* because the guest was still running at the last attempt.
CallFails(b, j) ==
  /\ pc[b][j] \in {"call", "posted"}
  /\ Fail(b, j)
  /\ Persist(b, j)
  /\ reply' = [reply EXCEPT ![b][j] = 0]
  /\ UNCHANGED <<listed, busy, image, timers, resume, store, tasks, history,
                 bounds>>

\* Both writes of the upid: after the call, and before the wait.
UpidSaved(b, j) ==
  /\ Awaits(b, j, "saveUpid")
  /\ WriteSucceeds(b)
  /\ Requeue(b, j)
  /\ Go(b, j, "saveRunning")
  /\ UNCHANGED <<job, listed, reply, timers, resume, tasks, enqueued, known,
                 verdicts, crashes>>

RunningSaved(b, j) ==
  /\ Awaits(b, j, "saveRunning")
  /\ WriteSucceeds(b)
  /\ DropHead(b)
  /\ Go(b, j, "wait")
  /\ UNCHANGED <<job, listed, reply, timers, resume, tasks, enqueued, known,
                 verdicts, crashes>>

\* A save that the try block awaits throws into the catch block.
SaveThrows(b, j) ==
  /\ \/ Awaits(b, j, "saveAttempt")
     \/ Awaits(b, j, "saveUpid")
     \/ Awaits(b, j, "saveRunning")
  /\ WriteFails(b)
  /\ Fail(b, j)
  /\ Requeue(b, j)
  /\ UNCHANGED <<listed, reply, timers, resume, tasks, enqueued, known,
                 verdicts, crashes>>

\* Mutant of TaskSeenOk: the exit status is not looked at.
TaskSeenEnded(b, j) ==
  /\ pc[b][j] = "wait"
  /\ tasks[j][job[b][j].upid] /= "running"
  /\ listed' = [listed EXCEPT ![b] = @ \ {j}]
  /\ Persist(b, j)
  /\ Go(b, j, "saveDelete")
  /\ UNCHANGED <<job, reply, busy, image, timers, resume, store, tasks,
                 history, bounds>>

\* waitUpid sees its own task end well; the entry leaves the Map.
TaskSeenOk(b, j) ==
  /\ pc[b][j] = "wait"
  /\ tasks[j][job[b][j].upid] = "ok"
  /\ listed' = [listed EXCEPT ![b] = @ \ {j}]
  /\ Persist(b, j)
  /\ Go(b, j, "saveDelete")
  /\ UNCHANGED <<job, reply, busy, image, timers, resume, store, tasks,
                 history, bounds>>

\* waitUpid throws: the task failed, a status request failed, or four hours
\* went by.
WaitThrows(b, j) ==
  /\ pc[b][j] = "wait"
  /\ Fail(b, j)
  /\ Persist(b, j)
  /\ UNCHANGED <<listed, reply, busy, image, timers, resume, store, tasks,
                 history, bounds>>

DeleteSaved(b, j) ==
  /\ Awaits(b, j, "saveDelete")
  /\ WriteSucceeds(b)
  /\ DropHead(b)
  /\ Go(b, j, "idle")
  /\ Tell(j, "success", job[b][j].upid)
  /\ Set(b, j, Absent)
  /\ UNCHANGED <<listed, reply, timers, resume, tasks, enqueued, known, crashes>>

\* Mutant of DeleteNotSaved: the success is reported all the same.
DeleteNotSavedTold(b, j) ==
  /\ Awaits(b, j, "saveDelete")
  /\ WriteFails(b)
  /\ DropHead(b)
  /\ Go(b, j, "idle")
  /\ listed' = [listed EXCEPT ![b] = @ \cup {j}]
  /\ Tell(j, "success", job[b][j].upid)
  /\ UNCHANGED <<job, reply, timers, resume, tasks, enqueued, known, crashes>>

\* The entry is put back; the worker ends and tells nobody.
DeleteNotSaved(b, j) ==
  /\ Awaits(b, j, "saveDelete")
  /\ WriteFails(b)
  /\ DropHead(b)
  /\ Go(b, j, "idle")
  /\ listed' = [listed EXCEPT ![b] = @ \cup {j}]
  /\ UNCHANGED <<job, reply, timers, resume, tasks, enqueued, known, verdicts,
                 crashes>>

\* Mutant of ErrorSaveEnds: forgetRestoreJob is not called.
ErrorSaveEndsKept(b, j) ==
  /\ Awaits(b, j, "saveError")
  /\ WriteSucceeds(b) \/ WriteFails(b)
  /\ DropHead(b)
  /\ Go(b, j, "idle")
  /\ Tell(j, "error", job[b][j].upid)
  /\ UNCHANGED <<job, listed, reply, timers, resume, tasks, enqueued, known,
                 crashes>>

\* The end of the catch block, whether or not the error was stored.
ErrorSaveEnds(b, j) ==
  /\ Awaits(b, j, "saveError")
  /\ WriteSucceeds(b) \/ WriteFails(b)
  /\ DropHead(b)
  /\ Go(b, j, "idle")
  /\ timers' = [timers EXCEPT ![b] = @ \cup {j}]
  /\ Tell(j, "error", job[b][j].upid)
  /\ UNCHANGED <<job, listed, reply, resume, tasks, enqueued, known, crashes>>

\* forgetRestoreJob, 60 seconds later.
Forget(b, j) ==
  /\ j \in timers[b]
  /\ timers' = [timers EXCEPT ![b] = @ \ {j}]
  /\ IF j \in listed[b] /\ job[b][j].phase = "error"
     THEN /\ listed' = [listed EXCEPT ![b] = @ \ {j}]
          /\ Set(b, j, Absent)
          /\ Persist(b, Nobody)
     ELSE UNCHANGED <<job, listed, chain>>
  /\ UNCHANGED <<pc, reply, busy, image, resume, store, tasks, history, bounds>>

----------------------------------------------------------------------------
(* resumeRestoreJobs, in the server bundle.                                *)

ResumeRead ==
  /\ resume.step = "read"
  /\ resume' = [resume EXCEPT !.step = "loop", !.left = store]
  /\ known' = known \cup {j \in Jobs : store[j].upid /= 0}
  /\ UNCHANGED <<job, listed, pc, reply, chain, busy, image, timers, store,
                 tasks, enqueued, recorded, verdicts, bounds>>

\* A stored entry that is already in the Map, or an error older than its
\* fifteen minutes, is passed over.
ResumeSkip(j) ==
  /\ resume.step = "loop" /\ resume.left[j].phase /= "none"
  /\ j \in listed[ServerBundle] \/ resume.left[j].phase = "error"
  /\ resume' = [resume EXCEPT !.left[j] = Absent]
  /\ UNCHANGED <<job, listed, pc, reply, chain, busy, image, timers, store,
                 tasks, history, bounds>>

\* Any other entry goes into the Map; an unfinished one needs its user.
ResumeTake(j) ==
  LET b == ServerBundle
      r == resume.left[j]
  IN
  /\ resume.step = "loop" /\ r.phase /= "none"
  /\ j \notin listed[b]
  /\ Set(b, j, r)
  /\ listed' = [listed EXCEPT ![b] = @ \cup {j}]
  /\ resume' = IF r.phase = "error"
               THEN [resume EXCEPT !.left[j] = Absent]
               ELSE [resume EXCEPT !.left[j] = Absent, !.step = "user",
                                   !.current = j]
  /\ UNCHANGED <<pc, reply, chain, busy, image, timers, store, tasks, history,
                 bounds>>

NextEntry == resume' = [resume EXCEPT !.step = "loop", !.current = Nobody]

\* Mutant of ResumeUserFound: the stored task is not looked at.
ResumeFromStart(j) ==
  /\ resume.step = "user" /\ resume.current = j
  /\ Go(ServerBundle, j, "saveAttempt")
  /\ Persist(ServerBundle, j)
  /\ NextEntry
  /\ UNCHANGED <<job, listed, reply, busy, image, timers, store, tasks, history,
                 bounds>>

\* loadSessionUser answers: the worker starts, past the call if a task is known.
ResumeUserFound(j) ==
  LET b == ServerBundle IN
  /\ resume.step = "user" /\ resume.current = j
  /\ Go(b, j, IF job[b][j].upid /= 0 THEN "saveRunning" ELSE "saveAttempt")
  /\ IF job[b][j].upid /= 0
     THEN Set(b, j, [job[b][j] EXCEPT !.phase = "running"])
     ELSE UNCHANGED job
  /\ Persist(b, j)
  /\ NextEntry
  /\ UNCHANGED <<listed, reply, busy, image, timers, store, tasks, history,
                 bounds>>

\* Mutant of ResumeUserGone: the entry is left as it was.
ResumeUserIgnored(j) ==
  /\ resume.step = "user" /\ resume.current = j
  /\ NextEntry
  /\ UNCHANGED <<job, listed, pc, reply, chain, busy, image, timers, store,
                 tasks, history, bounds>>

ResumeUserGone(j) ==
  /\ resume.step = "user" /\ resume.current = j
  /\ Set(ServerBundle, j, [job[ServerBundle][j] EXCEPT !.phase = "error"])
  /\ NextEntry
  /\ UNCHANGED <<listed, pc, reply, chain, busy, image, timers, store, tasks,
                 history, bounds>>

ResumeEnd ==
  /\ resume.step = "loop" /\ resume.left = Nothing
  /\ resume' = [resume EXCEPT !.step = "done"]
  /\ Persist(ServerBundle, Nobody)
  /\ UNCHANGED <<job, listed, pc, reply, busy, image, timers, store, tasks,
                 history, bounds>>

\* A failing query ends resumeRestoreJobs; the caller only logs it.
ResumeThrows ==
  /\ resume.step \in {"read", "user"}
  /\ dbFailures < MaxDbFailures
  /\ dbFailures' = dbFailures + 1
  /\ resume' = [step |-> "done", left |-> Nothing, current |-> Nobody]
  /\ UNCHANGED <<job, listed, pc, reply, chain, busy, image, timers, store,
                 tasks, history, crashes>>

----------------------------------------------------------------------------
(* The environment.                                                        *)

TaskEnds(j, k) ==
  /\ k \in 1..Len(tasks[j]) /\ tasks[j][k] = "running"
  /\ \E result \in {"ok", "failed"} : tasks' = [tasks EXCEPT ![j][k] = result]
  /\ UNCHANGED <<bundleVars, store, history, bounds>>

\* The process dies; a write on its way to the database arrives or not.
Crash ==
  /\ crashes < MaxCrashes
  /\ crashes' = crashes + 1
  /\ store' \in {store} \cup {image[b] : b \in busy}
  /\ job' = [b \in Bundles |-> Nothing]
  /\ listed' = [b \in Bundles |-> {}]
  /\ pc' = [b \in Bundles |-> [j \in Jobs |-> "idle"]]
  /\ reply' = [b \in Bundles |-> [j \in Jobs |-> 0]]
  /\ chain' = [b \in Bundles |-> <<>>]
  /\ busy' = {}
  /\ image' = [b \in Bundles |-> Nothing]
  /\ timers' = [b \in Bundles |-> {}]
  /\ resume' = NotResuming
  /\ UNCHANGED <<tasks, history, dbFailures>>

Work(b, j) ==
  \/ AttemptSaved(b, j) \/ StillStopping(b, j) \/ Accepted(b, j)
  \/ UpidReceived(b, j) \/ CallFails(b, j) \/ UpidSaved(b, j)
  \/ RunningSaved(b, j) \/ SaveThrows(b, j) \/ TaskSeenOk(b, j)
  \/ WaitThrows(b, j) \/ DeleteSaved(b, j) \/ DeleteNotSaved(b, j)
  \/ ErrorSaveEnds(b, j)

Resume ==
  \/ ResumeRead \/ ResumeEnd \/ ResumeThrows
  \/ \E j \in Jobs : \/ ResumeSkip(j) \/ ResumeTake(j)
                     \/ ResumeUserFound(j) \/ ResumeUserGone(j)

Next ==
  \/ \E j \in Jobs : Enqueue(j)
  \/ \E b \in Bundles : WriteStart(b) \/ BackgroundWriteEnds(b)
  \/ \E b \in Bundles, j \in Jobs : Work(b, j) \/ Forget(b, j)
  \/ Resume
  \/ \E j \in Jobs : \E k \in 1..Len(tasks[j]) : TaskEnds(j, k)
  \/ Crash

Spec == Init /\ [][Next]_vars

----------------------------------------------------------------------------
(* Fairness: the event loop runs every ready continuation and timer, the   *)
(* database answers, Proxmox tasks and requests come to an end.  No error  *)
(* is ever required to happen.                                             *)

Call(b, j) == StillStopping(b, j) \/ Accepted(b, j) \/ CallFails(b, j)
Reply(b, j) == UpidReceived(b, j) \/ CallFails(b, j)
Saved(b, j) ==
  \/ AttemptSaved(b, j) \/ UpidSaved(b, j) \/ RunningSaved(b, j)
  \/ DeleteSaved(b, j) \/ ErrorSaveEnds(b, j)
Wait(b, j) == TaskSeenOk(b, j) \/ WaitThrows(b, j)

Fairness ==
  /\ \A b \in Bundles : /\ WF_vars(WriteStart(b))
                        /\ WF_vars(BackgroundWriteEnds(b))
  /\ \A b \in Bundles, j \in Jobs :
       /\ WF_vars(Call(b, j)) /\ WF_vars(Reply(b, j))
       /\ WF_vars(Saved(b, j)) /\ WF_vars(Wait(b, j))
       /\ WF_vars(Forget(b, j))
  /\ WF_vars(Resume)

FairSpec == Spec /\ Fairness

----------------------------------------------------------------------------
(* Properties.                                                             *)

JobTable == [Jobs -> JobRecord]
Verdict == [level : {"success", "error"}, task : Nat]

\* Types of all variables: the Maps, queues and timers of both copies, the
\* row, the progress of resumeRestoreJobs and the tasks at Proxmox.
TypeOK ==
  /\ job \in [Bundles -> JobTable]
  /\ listed \in [Bundles -> SUBSET Jobs]
  /\ pc \in [Bundles -> [Jobs -> Steps]]
  /\ reply \in [Bundles -> [Jobs -> Nat]]
  /\ chain \in [Bundles -> Seq(Jobs \cup {Nobody})]
  /\ busy \in SUBSET Bundles
  /\ image \in [Bundles -> JobTable]
  /\ timers \in [Bundles -> SUBSET Jobs]
  /\ resume \in [step : {"read", "loop", "user", "done"}, left : JobTable,
                 current : Jobs \cup {Nobody}]
  /\ store \in JobTable
  /\ tasks \in [Jobs -> Seq({"running", "ok", "failed"})]
  /\ enqueued \in SUBSET Jobs
  /\ recorded \in SUBSET Jobs
  /\ known \in SUBSET Jobs
  /\ verdicts \in [Jobs -> Seq(Verdict)]
  /\ crashes \in Nat
  /\ dbFailures \in Nat

\* A restore whose task was in the row when resumeRestoreJobs read it is never
\* requested from Proxmox again, however often the process restarts and
\* whichever writes fail: job.upid makes runRestoreJob skip the call.
NoResubmitKnown ==
  [][\A j \in known : Len(tasks'[j]) = Len(tasks[j])]_vars

\* "Backup eingespielt" is sent only about a task that Proxmox finished well.
SuccessIsTrue ==
  \A j \in Jobs : \A i \in 1..Len(verdicts[j]) :
    LET v == verdicts[j][i] IN
    v.level = "success" => v.task \in 1..Len(tasks[j]) /\ tasks[j][v.task] = "ok"

\* The success notification is the last thing that happens to a restore: no
\* later restart, failed write or other copy requests it or reports on it
\* again, because the entry left the row before the notification went out.
SuccessIsFinal ==
  [][\A j \in Jobs :
       (\E i \in 1..Len(verdicts[j]) : verdicts[j][i].level = "success")
         => verdicts'[j] = verdicts[j] /\ Len(tasks'[j]) = Len(tasks[j])]_vars

\* As long as no write fails, a restore reported as failed is not requested
\* from Proxmox behind the user's back: the error is in the row first.
FailedStaysFailed ==
  [][\A j \in Jobs :
       verdicts[j] /= <<>> /\ dbFailures = 0 => Len(tasks'[j]) = Len(tasks[j])]_vars

\* However the two copies, the row and a restart interleave, at most one worker
\* is at a restore, and resumeRestoreJobs loads nobody's user for one that has a
\* worker: two of them would overwrite the guest twice.
OneWorker ==
  \A j \in Jobs, b \in Bundles : pc[b][j] /= "idle" =>
    /\ \A c \in Bundles : c /= b => pc[c][j] = "idle"
    /\ ~(resume.step = "user" /\ resume.current = j)

\* What the user and Proxmox see of a restore is what Restores allows: both
\* copies, the row and resumeRestoreJobs together request and report it at most
\* once in a life of the process, and never after an end that was told.
Outside == INSTANCE Restores WITH lives <- crashes + 1, failed <- dbFailures > 0

Implements == Outside!Spec

\* Every entry that says "stopping" or "running" has somebody working on it,
\* unless a database call failed: nothing sits in the Map for ever.
NoOrphan ==
  \A b \in Bundles : \A j \in listed[b] :
    IsActive(job[b][j]) =>
      \/ pc[b][j] /= "idle"
      \/ resume.step = "user" /\ resume.current = j /\ b = ServerBundle
      \/ dbFailures > 0

\* Unless the process restarts or a database call fails, every restore is
\* reported exactly once it ends and its entry leaves the Map: also the failed
\* ones, which forgetRestoreJob drops.
Settles ==
  \A j \in Jobs :
    j \in enqueued ~>
      \/ Len(verdicts[j]) = 1 /\ \A b \in Bundles : j \notin listed[b]
      \/ crashes > 0 \/ dbFailures > 0

\* CHANGELOG.md:309, first sentence: a restore that is still running is
\* remembered across a restart.  A job that a completed write has stored, whose
\* tasks all run and of which no end was reported, is back in a Map when
\* resumeRestoreJobs is through.
RememberedAcrossRestart ==
  \A j \in recorded :
    /\ crashes > 0 /\ resume.step = "done"
    /\ tasks[j] /= <<>> /\ \A k \in 1..Len(tasks[j]) : tasks[j][k] = "running"
    /\ verdicts[j] = <<>>
    => \E b \in Bundles : j \in listed[b]

----------------------------------------------------------------------------
(* The inductive invariant behind NoResubmitKnown.                         *)

PreCall == {"saveAttempt", "call", "posted"}
HasTask(r) == r.phase = "none" \/ r.upid /= 0

\* An id that was never handed out has no copy anywhere.
FreshAbsent ==
  \A j \in Jobs \ enqueued :
    /\ store[j] = Absent /\ resume.left[j] = Absent
    /\ \A b \in Bundles : image[b][j] = Absent /\ job[b][j] = Absent

\* A worker holds an unfinished job, one without a task up to the call.
WorkerHoldsJob ==
  \A b \in Bundles, j \in Jobs :
    /\ pc[b][j] \notin {"idle", "saveError"} => IsActive(job[b][j])
    /\ pc[b][j] \in PreCall => job[b][j].upid = 0
    /\ pc[b][j] = "posted" => reply[b][j] /= 0

\* While resumeRestoreJobs reads, the server bundle holds nothing; an entry it
\* has yet to take has no worker; one whose user it loads waits in the Map.
ResumeOrder ==
  LET b == ServerBundle IN
  /\ \A j \in Jobs :
       resume.step = "read" \/ resume.left[j].phase /= "none"
         => pc[b][j] = "idle" /\ job[b][j] = Absent
  /\ resume.step = "read" => \A j \in Jobs : image[b][j] = Absent
  /\ resume.step = "user" =>
       /\ resume.current \in Jobs
       /\ IsActive(job[b][resume.current])
       /\ pc[b][resume.current] = "idle"
       /\ resume.left[resume.current].phase = "none"

\* What the route bundle has stored about a task before resume reads, it also
\* still knows.
StoredIsOld ==
  LET b == RouteBundle IN
  resume.step = "read" =>
    \A j \in Jobs :
      /\ store[j].upid /= 0 \/ image[b][j].upid /= 0 => HasTask(job[b][j])
      /\ store[j].upid /= 0 => HasTask(image[b][j])

\* Every copy of a job that was once resumed with its task names a task.
KnownEverywhere ==
  \A j \in known :
    /\ HasTask(store[j]) /\ HasTask(resume.left[j])
    /\ \A b \in Bundles : HasTask(image[b][j]) /\ HasTask(job[b][j])

IInv ==
  /\ TypeOK /\ FreshAbsent /\ WorkerHoldsJob /\ ResumeOrder /\ StoredIsOld
  /\ KnownEverywhere /\ known \subseteq enqueued

=============================================================================
