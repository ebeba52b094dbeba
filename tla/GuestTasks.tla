---------------------------- MODULE GuestTasks ----------------------------
(***************************************************************************)
(* Deleting a guest, and deleting backup archives, for one VMID of a host: *)
(* guest-delete-dialog.tsx with use-proxmox-task.ts in the browser,        *)
(* startGuestDelete and shutdownThenDeleteGuest of guest-delete.ts behind  *)
(* the guest routes, cleanupOrphanBackupFiles of backup-service.ts, and    *)
(* the inventory cache they share (InventoryCache).                        *)
(*                                                                         *)
(* Proxmox runs every call as a task of its own; other people and the      *)
(* Proxmox console change the guest at the same time.  An action is one    *)
(* call to the node (or one reaction of the browser) together with the     *)
(* code up to the next await.                                              *)
(***************************************************************************)
EXTENDS InventoryCache

CONSTANTS
  Deleters,    \* deletions: by a dialog, or by an API client in one request
  Archives,    \* backup archives of the VMID
  ArchiveKind, \* what parseBackupVolid reads from their names
  Modes,       \* how deletions are requested: "dialog", "direct"
  MaxTasks,    \* bound: tasks the node accepts
  MaxChanges   \* bound: changes to the guest made by others

Tasks == 1..MaxTasks
Cleanups == Readers  \* cleanup-orphans requests

ASSUME GuestAssumption ==
  /\ ArchiveKind \in [Archives -> {"vm", "lxc", "unknown"}]
  /\ Modes \subseteq {"dialog", "direct"} /\ Modes # {}
  /\ MaxTasks \in Nat /\ MaxChanges \in Nat

VARIABLES
  running,  \* external: is the guest running?
  archives, \* external: the archives on the backup storage
  task,     \* external: task[u] = [op, st], the tasks the node accepted
  used,     \* how many task ids are taken
  stage,    \* stage[d]: where the deletion d stands
  mode,     \* mode[d]: requested by the dialog, or in one request
  target,   \* target[d]: the kind of guest it deletes
  ask,      \* ask[d]: the call startGuestDelete makes next (or made last)
  phase,    \* phase[d]: the phase the dialog sends (or, tracking, received)
  upid,     \* upid[d]: the task of that call
  settled,  \* settled[d]: what useProxmoxTask knows, and of which task
  chosen,   \* chosen[d]: archives to delete with the guest
  purge,    \* purge[u]: archives a background purge deletes after task u
  sweep,    \* sweep[c]: where the cleanup c stands
  orphans,  \* orphans[c]: archives it still wants to delete
  since,    \* history: what had the VMID since the last quiet invalidation
            \* before the cleanup c began
  during,   \* history: what had the VMID since c began
  changes

deletion == <<stage, mode, target, ask, phase, upid, settled, chosen>>
cleaning == <<sweep, orphans>>
seen == <<since, during>>
vars == <<cacheVars, running, archives, task, used, deletion, purge, cleaning,
          seen, changes>>

\* isOrphanBackupFile: an archive is kept while a guest of its kind has the
\* VMID (any guest, when its name does not tell the kind).
Keeps(a) == IF ArchiveKind[a] = "unknown" THEN Kinds ELSE {ArchiveKind[a]}

Ops == {"shutdown", "stop", "delete"}
Stages == {"idle", "status", "call", "called", "await", "tracking", "purge",
           "done", "failed"}

TypeOK ==
  /\ CacheTypeOK
  /\ running \in BOOLEAN /\ archives \subseteq Archives
  /\ task \in [Tasks -> [op : Ops, of : Kinds,
                        st : {"free", "running", "ok", "failed"}]]
  /\ used \in 0..MaxTasks
  /\ stage \in [Deleters -> Stages] /\ mode \in [Deleters -> Modes]
  /\ target \in [Deleters -> Kinds]
  /\ ask \in [Deleters -> Ops] /\ phase \in [Deleters -> Ops \cup {"none"}]
  /\ upid \in [Deleters -> 0..MaxTasks]
  /\ settled \in [Deleters -> [upid : 0..MaxTasks, ok : BOOLEAN]]
  /\ chosen \in [Deleters -> SUBSET Archives]
  /\ purge \in [Tasks -> SUBSET Archives]
  /\ sweep \in [Cleanups -> {"idle", "guests", "nodes", "delete"}]
  /\ orphans \in [Cleanups -> SUBSET Archives]
  /\ since \in [Cleanups -> SUBSET Answers]
  /\ during \in [Cleanups -> SUBSET Answers]
  /\ changes \in 0..MaxChanges

Init ==
  /\ CacheInit
  /\ running \in BOOLEAN /\ archives = Archives
  /\ task = [u \in Tasks |-> [op |-> "shutdown", of |-> CHOOSE k \in Kinds : TRUE, st |-> "free"]]
  /\ used = 0
  /\ stage = [d \in Deleters |-> "idle"]
  /\ mode \in [Deleters -> Modes] /\ target \in [Deleters -> Kinds]
  /\ ask = [d \in Deleters |-> "shutdown"]
  /\ phase = [d \in Deleters |-> "none"] /\ upid = [d \in Deleters |-> 0]
  /\ settled = [d \in Deleters |-> [upid |-> 0, ok |-> FALSE]]
  /\ chosen = [d \in Deleters |-> {}]
  /\ purge = [u \in Tasks |-> {}]
  /\ sweep = [c \in Cleanups |-> "idle"]
  /\ orphans = [c \in Cleanups |-> {}]
  /\ since = [c \in Cleanups |-> {}] /\ during = [c \in Cleanups |-> {}]
  /\ changes = 0

(*************************** The node **************************************)

\* The guest becomes k, as every list taken from now on shows.
Turns(k) ==
  /\ Becomes(k)
  /\ LET Noted(h) == [c \in Cleanups |-> IF sweep[c] = "idle" THEN {} ELSE h[c] \cup {k}]
     IN since' = Noted(since) /\ during' = Noted(during)

\* A task ends.  Shutdown and stop leave their guest stopped or fail; delete
\* removes its guest if it is there and stopped, or fails.
TaskEnds(u) ==
  /\ task[u].st = "running"
  /\ \/ /\ task' = [task EXCEPT ![u].st = "failed"]
        /\ UNCHANGED <<kind, past, seen, running>>
     \/ /\ task[u].op # "delete" /\ kind = task[u].of
        /\ task' = [task EXCEPT ![u].st = "ok"]
        /\ running' = FALSE
        /\ UNCHANGED <<kind, past, seen>>
     \/ /\ task[u].op = "delete" /\ kind = task[u].of /\ ~running
        /\ task' = [task EXCEPT ![u].st = "ok"]
        /\ Turns("gone")
        /\ UNCHANGED running
  /\ UNCHANGED <<cache, inflight, fetch, waits, got, archives, used, deletion,
                 purge, cleaning, changes>>

\* Someone else starts, stops, creates (or restores) or removes the guest, in
\* the Proxmox console or through a task whose end invalidates nothing.
OthersChange ==
  /\ changes < MaxChanges
  /\ changes' = changes + 1
  /\ \/ /\ kind # "gone" /\ running' = ~running
        /\ UNCHANGED <<kind, past, seen>>
     \/ /\ kind = "gone" /\ running' = FALSE
        /\ \E k \in Kinds : Turns(k)
     \/ kind # "gone" /\ running' = FALSE /\ Turns("gone")
  /\ UNCHANGED <<cache, inflight, fetch, waits, got, archives, task, used,
                 deletion, purge, cleaning>>

\* Another action of a guest route ends, and the route invalidates the key.
OtherAction ==
  /\ Invalidate
  /\ UNCHANGED <<kind, fetch, waits, got, running, archives, task, used,
                 deletion, purge, cleaning, seen, changes>>

\* guestStatus as guestNeedsStopForRestore sees it: a failing call (and a
\* guest that is gone) reads as null, which needs no stop.
NeedsStop(d) == {running /\ kind = target[d], FALSE}

(*************************** Deleting a guest ******************************)

\* What a step of the deletion of d leaves alone.
OnlyDeletion ==
  UNCHANGED <<kind, fetch, waits, got, running, cleaning, seen, changes>>

\* The user confirms, perhaps on a list that is out of date, with archives of
\* this guest; the request carries no phase yet.
Confirm(d) ==
  /\ stage[d] = "idle"
  /\ \E S \in SUBSET {a \in archives : target[d] \in Keeps(a)} :
       chosen' = [chosen EXCEPT ![d] = S]
  /\ stage' = [stage EXCEPT ![d] = "status"]
  /\ OnlyDeletion
  /\ UNCHANGED <<cache, inflight, past, archives, task, used, mode, target, ask,
                 phase, upid, settled, purge>>

Calls(d, op) ==
  /\ ask' = [ask EXCEPT ![d] = op]
  /\ stage' = [stage EXCEPT ![d] = "call"]

Waits(d) == stage' = [stage EXCEPT ![d] = "await"] /\ UNCHANGED ask

\* startGuestDelete and shutdownThenDeleteGuest read the status and choose.
ReadStatus(d) ==
  /\ stage[d] = "status"
  /\ \E up \in NeedsStop(d) :
       \/ up /\ phase[d] = "none" /\ Calls(d, "shutdown")
       \/ up /\ phase[d] = "delete" /\ Calls(d, "stop")
       \/ up /\ phase[d] = "stop" /\ Waits(d)
       \/ ~up /\ Calls(d, "delete")
  /\ OnlyDeletion
  /\ UNCHANGED <<cache, inflight, past, archives, task, used, mode, target, phase,
                 upid, settled, chosen, purge>>

\* The node accepts the call (up to the bound) and starts a task.
Call(d) ==
  /\ stage[d] = "call" /\ used < MaxTasks
  /\ used' = used + 1
  /\ task' = [task EXCEPT ![used + 1] = [op |-> ask[d], of |-> target[d], st |-> "running"]]
  /\ upid' = [upid EXCEPT ![d] = used + 1]
  /\ stage' = [stage EXCEPT ![d] = "called"]
  /\ OnlyDeletion
  /\ UNCHANGED <<cache, inflight, past, archives, mode, target, ask, phase,
                 settled, chosen, purge>>

\* The call throws, also when the node accepted it and the answer is lost.
\* shutdownThenDeleteGuest swallows that for shutdown and stop.
CallThrows(d) ==
  /\ stage[d] \in {"call", "called"}
  /\ stage' = [stage EXCEPT ![d] =
                IF mode[d] = "direct" /\ ask[d] # "delete" THEN "await" ELSE "failed"]
  /\ OnlyDeletion
  /\ UNCHANGED <<cache, inflight, past, archives, task, used, mode, target, ask,
                 phase, upid, settled, chosen, purge>>

\* The route answers the dialog: startGuestDelete has left the purge of the
\* archives running behind the delete task, and the key is invalidated.
Respond(d) ==
  /\ stage[d] = "called" /\ mode[d] = "dialog"
  /\ Invalidate
  /\ phase' = [phase EXCEPT ![d] = ask[d]]
  /\ purge' = IF ask[d] = "delete" THEN [purge EXCEPT ![upid[d]] = chosen[d]]
                                   ELSE purge
  /\ stage' = [stage EXCEPT ![d] = "tracking"]
  /\ OnlyDeletion
  /\ UNCHANGED <<archives, task, used, mode, target, ask, upid, settled, chosen>>

\* shutdownThenDeleteGuest awaits its task: until it ends, or the timeout.
Waited(d) ==
  /\ stage[d] = "called" /\ mode[d] = "direct"
  /\ \/ ask[d] # "delete" /\ stage' = [stage EXCEPT ![d] = "await"]
     \/ /\ ask[d] = "delete" /\ task[upid[d]].st = "ok"
        /\ stage' = [stage EXCEPT ![d] = "purge"]
     \/ /\ ask[d] = "delete" /\ task[upid[d]].st # "ok"
        /\ stage' = [stage EXCEPT ![d] = "failed"]
  /\ OnlyDeletion
  /\ UNCHANGED <<cache, inflight, past, archives, task, used, mode, target, ask,
                 phase, upid, settled, chosen, purge>>

\* Mutant of Await: waitUntilGuestStopped without a time limit.
AwaitForever(d) ==
  /\ stage[d] = "await"
  /\ FALSE \in NeedsStop(d) /\ ~running /\ Calls(d, "delete")
  /\ OnlyDeletion
  /\ UNCHANGED <<cache, inflight, past, archives, task, used, mode, target,
                 phase, upid, settled, chosen, purge>>

\* waitUntilGuestStopped sees the guest stopped, or gives up: then a direct
\* deletion stops the guest hard, once, and everything else is an error.
Await(d) ==
  /\ stage[d] = "await"
  /\ \/ FALSE \in NeedsStop(d) /\ Calls(d, "delete")
     \/ mode[d] = "direct" /\ ask[d] = "shutdown" /\ Calls(d, "stop")
     \/ /\ mode[d] = "dialog" \/ ask[d] = "stop"
        /\ stage' = [stage EXCEPT ![d] = "failed"]
        /\ UNCHANGED ask
  /\ OnlyDeletion
  /\ UNCHANGED <<cache, inflight, past, archives, task, used, mode, target,
                 phase, upid, settled, chosen, purge>>

\* useProxmoxTask polls the task of the phase and settles on it.
Poll(d) ==
  /\ stage[d] = "tracking" /\ settled[d].upid # upid[d]
  /\ task[upid[d]].st \in {"ok", "failed"}
  /\ settled' = [settled EXCEPT ![d] = [upid |-> upid[d],
                                       ok |-> task[upid[d]].st = "ok"]]
  /\ OnlyDeletion
  /\ UNCHANGED <<cache, inflight, past, archives, task, used, stage, mode,
                 target, ask, phase, upid, chosen, purge>>

\* Mutant of Finished: the answer about the previous task still counts.
FinishedBefore(d) == settled[d].ok

\* What the hook reports of the current task.
Finished(d) == settled[d].upid = upid[d] /\ settled[d].ok
Failed(d)   == settled[d].upid = upid[d] /\ ~settled[d].ok

\* The effect of the dialog: request the next phase, or tell the user that
\* the guest is deleted.  A failed task is shown and ends it.
Advance(d) ==
  /\ stage[d] = "tracking"
  /\ \/ /\ Finished(d) /\ phase[d] = "delete"
        /\ stage' = [stage EXCEPT ![d] = "done"]
        /\ UNCHANGED phase
     \/ /\ Finished(d) /\ phase[d] # "delete"
        /\ stage' = [stage EXCEPT ![d] = "status"]
        /\ phase' = [phase EXCEPT ![d] = IF @ = "shutdown" THEN "delete" ELSE "stop"]
     \/ /\ Failed(d)
        /\ stage' = [stage EXCEPT ![d] = "failed"]
        /\ UNCHANGED phase
  /\ OnlyDeletion
  /\ UNCHANGED <<cache, inflight, past, archives, task, used, mode, target, ask,
                 upid, settled, chosen, purge>>

\* A direct deletion removes the archives one after the other; an error (an
\* archive is gone already, say) ends it.  Then it reports and invalidates.
DirectPurge(d) ==
  /\ stage[d] = "purge"
  /\ \/ /\ \E a \in chosen[d] \cap archives :
             /\ archives' = archives \ {a}
             /\ chosen' = [chosen EXCEPT ![d] = @ \ {a}]
        /\ UNCHANGED <<stage, cache, inflight, past>>
     \/ /\ chosen[d] # {} /\ stage' = [stage EXCEPT ![d] = "failed"]
        /\ UNCHANGED <<archives, chosen, cache, inflight, past>>
     \/ /\ chosen[d] = {} /\ stage' = [stage EXCEPT ![d] = "done"]
        /\ Invalidate
        /\ UNCHANGED <<archives, chosen>>
  /\ OnlyDeletion
  /\ UNCHANGED <<task, used, mode, target, ask, phase, upid, settled, purge>>

\* Mutant of PurgeAfter: the purge does not wait for the delete task.
PurgeAtOnce(u) ==
  /\ \E a \in purge[u] \cap archives :
       /\ archives' = archives \ {a}
       /\ purge' = [purge EXCEPT ![u] = @ \ {a}]
  /\ UNCHANGED <<cacheVars, running, task, used, deletion, cleaning, seen, changes>>

\* purgeBackupsAfterDelete: an archive goes after the task ended well; a
\* failed task, the timeout or a failing deletion ends the purge silently.
PurgeAfter(u) ==
  /\ purge[u] # {}
  /\ \/ /\ task[u].st = "ok"
        /\ \E a \in purge[u] \cap archives :
             /\ archives' = archives \ {a}
             /\ purge' = [purge EXCEPT ![u] = @ \ {a}]
     \/ purge' = [purge EXCEPT ![u] = {}] /\ UNCHANGED archives
  /\ UNCHANGED <<cacheVars, running, task, used, deletion, cleaning, seen, changes>>

(*************************** Orphaned archives *****************************)

OnlyCleaning ==
  UNCHANGED <<running, task, used, deletion, purge, changes>>

\* cleanupOrphanBackupFiles lists the guests (listHostBackups) ...
SweepBegin(c) ==
  /\ sweep[c] = "idle" /\ got[c] = "none"
  /\ Load(c)
  /\ sweep' = [sweep EXCEPT ![c] = "guests"]
  /\ since' = [since EXCEPT ![c] = past]
  /\ during' = [during EXCEPT ![c] = {kind}]
  /\ OnlyCleaning
  /\ UNCHANGED <<archives, orphans>>

\* Mutant of Orphaned: an archive whose name does not tell its kind is never
\* matched with a guest.
OrphanedNamed(a, k) == k # ArchiveKind[a]

Orphaned(a, k) == k \notin Keeps(a)

\* The cleanup ends; its history is of no use any more.
SweepEnds(c) ==
  /\ sweep' = [sweep EXCEPT ![c] = "idle"]
  /\ since' = [since EXCEPT ![c] = {}]
  /\ during' = [during EXCEPT ![c] = {}]

SweepGoes(c, next) == sweep' = [sweep EXCEPT ![c] = next] /\ UNCHANGED seen

\* ... and then the files (listHostBackupFiles), for which it loads the
\* inventory once more, now for the names of the nodes.
SweepGuests(c) ==
  /\ sweep[c] = "guests" /\ got[c] # "none"
  /\ got' = [got EXCEPT ![c] = "none"]
  /\ \/ /\ got[c] = "failed"
        /\ SweepEnds(c)
        /\ UNCHANGED orphans
     \/ /\ got[c] # "failed"
        /\ SweepGoes(c, "nodes")
        /\ orphans' = [orphans EXCEPT ![c] = {a \in Archives : Orphaned(a, got[c])}]
  /\ OnlyCleaning
  /\ UNCHANGED <<kind, cache, inflight, fetch, waits, past, archives>>

SweepNodes(c) ==
  /\ sweep[c] = "nodes" /\ got[c] = "none"
  /\ Load(c)
  /\ OnlyCleaning
  /\ UNCHANGED <<archives, cleaning, seen>>

\* The orphans among the files that are on the storage now are deleted.
SweepFiles(c) ==
  /\ sweep[c] = "nodes" /\ got[c] # "none"
  /\ got' = [got EXCEPT ![c] = "none"]
  /\ orphans' = [orphans EXCEPT ![c] = IF got[c] = "failed" THEN {} ELSE @ \cap archives]
  /\ IF orphans'[c] = {} THEN SweepEnds(c) ELSE SweepGoes(c, "delete")
  /\ OnlyCleaning
  /\ UNCHANGED <<kind, cache, inflight, fetch, waits, past, archives>>

\* One of them is deleted, or cannot be; the others are still tried.
SweepDelete(c) ==
  /\ sweep[c] = "delete"
  /\ \E a \in orphans[c] :
       /\ archives' \in {archives, archives \ {a}}
       /\ orphans' = [orphans EXCEPT ![c] = @ \ {a}]
  /\ IF orphans'[c] = {} THEN SweepEnds(c) ELSE SweepGoes(c, "delete")
  /\ OnlyCleaning
  /\ UNCHANGED cacheVars

\* Any other page loads the inventory.
PageLoad(p) ==
  /\ Load(p)
  /\ OnlyCleaning /\ UNCHANGED <<archives, cleaning, seen>>

CacheMoves ==
  /\ CacheStep
  /\ OnlyCleaning /\ UNCHANGED <<archives, cleaning, seen>>

Delete(d) ==
  \/ ReadStatus(d) \/ Call(d) \/ CallThrows(d) \/ Respond(d) \/ Waited(d)
  \/ Await(d) \/ Poll(d) \/ Advance(d) \/ DirectPurge(d)

Sweep(c) ==
  \/ SweepBegin(c) \/ SweepGuests(c) \/ SweepNodes(c) \/ SweepFiles(c)
  \/ SweepDelete(c)

Next ==
  \/ \E d \in Deleters : Confirm(d) \/ Delete(d)
  \/ \E u \in Tasks : TaskEnds(u) \/ PurgeAfter(u)
  \/ \E c \in Cleanups : Sweep(c)
  \/ \E p \in Pages : PageLoad(p)
  \/ OthersChange \/ OtherAction \/ CacheMoves

Spec == Init /\ [][Next]_vars

\* Requests and polls go on until they are answered, and the node ends every
\* task (Proxmox gives shutdown a timeout of its own).
FairSpec ==
  /\ Spec
  /\ \A d \in Deleters : WF_vars(Delete(d))
  /\ \A u \in Tasks : WF_vars(TaskEnds(u))

(*************************** Properties ************************************)

\* The archives that the user chose along with a guest go only after a delete
\* task of that guest ended well (guest-delete.ts: the task is only started
\* when the route answers, the purge runs behind it), and every other archive
\* goes only through a cleanup that took it for an orphan.
Deleted(a) ==
  \E u \in Tasks : task[u].op = "delete" /\ task[u].st = "ok" /\ task[u].of \in Keeps(a)

ArchivesGoForAReason ==
  [][\A a \in archives \ archives' :
        \/ \E c \in Cleanups : sweep[c] = "delete" /\ a \in orphans[c]
        \/ Deleted(a)]_vars

\* "Deleted" is reported only when the delete task of this very deletion ended
\* well, and not when the task of an earlier phase did (CHANGELOG.md:291).
DeletedIsTrue ==
  \A d \in Deleters : stage[d] = "done" =>
    /\ upid[d] \in Tasks
    /\ task[upid[d]] = [op |-> "delete", of |-> target[d], st |-> "ok"]

\* What a cleanup deletes was an orphan at some moment since the last quiet
\* invalidation before it began: once a guest action has invalidated the list
\* with no request in flight, the guests it left are safe with their archives.
CleanupSeesInvalidation ==
  [][\A c \in Cleanups, a \in archives \ archives' :
        sweep[c] = "delete" /\ a \in orphans[c] \ orphans'[c]
          => \E k \in since[c] : k \notin Keeps(a)]_vars

\* backup-service.ts:129: "Deletes backup archives whose VMID no longer exists
\* as VM/LXC on the host."  Read leniently: at some moment of the cleanup.
CleanupOnlyOrphans ==
  [][\A c \in Cleanups, a \in archives \ archives' :
        sweep[c] = "delete" /\ a \in orphans[c] \ orphans'[c]
          => \E k \in during[c] : k \notin Keeps(a)]_vars

\* Every deletion comes to an end that the user sees, whatever the guest does
\* and however often somebody starts it again.
DeleteSettles ==
  \A d \in Deleters :
    (stage[d] \notin {"idle", "done", "failed"}) ~> (stage[d] \in {"done", "failed"})

=============================================================================
