------------------------------ MODULE Restores ------------------------------
(***************************************************************************)
(* What restore-jobs.ts promises about restores, whatever it keeps in      *)
(* memory and in its row.  A restore overwrites a guest, so what matters is*)
(* how often Proxmox is asked for one and whether the user can trust what  *)
(* is said about it: asked and reported at most once in a life of the      *)
(* process; a success is true, and the end; and as long as the database    *)
(* never failed, so is a failure.                                          *)
(***************************************************************************)
EXTENDS Naturals, Sequences

CONSTANT Jobs

VARIABLES
  tasks,    \* tasks[j]: the restore tasks Proxmox accepted for j
  verdicts, \* verdicts[j]: what the user was told about j
  lives,    \* how often the process has started
  failed    \* a database call has failed

vars == <<tasks, verdicts, lives, failed>>

Init ==
  /\ tasks = [j \in Jobs |-> <<>>] /\ verdicts = [j \in Jobs |-> <<>>]
  /\ lives = 1 /\ failed = FALSE

Succeeded(j) == \E i \in 1..Len(verdicts[j]) : verdicts[j][i].level = "success"

\* Nothing final has been said about j.
Open(j) == ~Succeeded(j) /\ (failed \/ verdicts[j] = <<>>)

Request(j) ==
  /\ Open(j) /\ Len(tasks[j]) < lives
  /\ tasks' = [tasks EXCEPT ![j] = Append(@, "running")]
  /\ UNCHANGED <<verdicts, lives, failed>>

TaskEnds(j, k) ==
  /\ tasks[j][k] = "running"
  /\ \E result \in {"ok", "failed"} : tasks' = [tasks EXCEPT ![j][k] = result]
  /\ UNCHANGED <<verdicts, lives, failed>>

Tell(j, level, k) ==
  /\ Open(j) /\ Len(verdicts[j]) < lives
  /\ verdicts' = [verdicts EXCEPT ![j] = Append(@, [level |-> level, task |-> k])]
  /\ UNCHANGED <<tasks, lives>>

Succeed(j, k) == tasks[j][k] = "ok" /\ Tell(j, "success", k) /\ UNCHANGED failed

\* The error is told whether or not it could be stored; it may come before any
\* task is known (0) and while the task still runs.
Fail(j, k) == Tell(j, "error", k) /\ failed' \in {failed, TRUE}

DatabaseFails == failed' = TRUE /\ UNCHANGED <<tasks, verdicts, lives>>

Restart == lives' = lives + 1 /\ UNCHANGED <<tasks, verdicts, failed>>

Next ==
  \/ \E j \in Jobs : \/ Request(j)
                     \/ \E k \in 1..Len(tasks[j]) : TaskEnds(j, k) \/ Succeed(j, k)
                     \/ \E k \in 0..Len(tasks[j]) : Fail(j, k)
  \/ DatabaseFails \/ Restart

Spec == Init /\ [][Next]_vars

=============================================================================
