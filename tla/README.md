# Proxora in TLA+

Proxora is a web interface for several Proxmox hosts: a Next.js application
with a custom Node server (`server/index.ts`), a PostgreSQL database behind
Prisma, WebSocket proxies for consoles and file uploads, and a sidecar that
updates the installation. Instances of colleagues are connected through
WireGuard and share hosts with each other.

This directory holds TLA+ modules for the parts whose correctness depends on
the order of events, the configurations that check them with TLC, and proofs
that TLAPS checks. `PROJECT.json` maps every definition to the lines it models.

Paths below are relative to the repository.

## Inventory

One fact shapes much of it. In production the server is bundled by esbuild
(`package.json:17`, `dist/server.cjs`) and the API routes are compiled by Next,
so **module-level state exists twice in one process**. Only
`guest-file-tickets.ts` shares its own through `globalThis`; `lib/db.ts` does so
outside production, so in production each copy has its own database pool.

| Component | State | Operations | Interacts with | Hard about it | Correct when |
|---|---|---|---|---|---|
| Restore jobs (`server/services/restore-jobs.ts`) | a Map, a promise chain of writes and timers per bundle; one row of `Setting` | enqueue, run, persist, resume at boot, forget | Proxmox tasks, notifications, database | restarts, failing writes, two copies overwriting one row | a known task is never requested again, reports are true and final, nothing is left without a worker, every job settles |
| Host state (`host-service.ts`) | `Host.connectionState` | probe, test, live request, maintenance on and off | reconnect scheduler, every request to a host | each flow reads, awaits the network, writes; nothing is locked | the row converges to the truth, maintenance is respected, outages are reported |
| Colleague updates (`peer-update.ts`, `peer-status` route) | `WireguardPeer.updatingUntil` and the state of the shared hosts | announce, mark, finish, expire, absorb an outage | host state, peer sync, self-update of the colleague | lost and late announcements, a deadline, two statements where one is meant | the window closes, the hosts come back, an update is no outage |
| Peer host sync (`federation-service.ts`, `peer-sync.ts`) | host rows of a colleague | fetch, upsert, delete | host state, update window | acts on a peer row read at the beginning | as above |
| Self-update (`self-update-service.ts`, `lib/self-update-signal.ts`, `scripts/update-watcher.sh`, `scripts/self-update-apply.sh`) | `request`, `target` and busy file, lock directory, `applyInFlight` | request, pin, watch, start, lock, compose, end | app, sidecar, updater container, host, colleagues | processes share only files; restarts, kills, separate pid namespaces | one update per request, with its pin, one at a time; the busy file covers it and goes away |
| Host reconnect (`host-reconnect.ts`) | timer, flags `running`, `kickSoon`, `scheduled` | tick, kick | host state | a kick during the query after a cycle, two bundles | a host in ERROR is probed soon |
| Caches (`inventory-cache.ts`, `client-cache.ts`, `guest-ip-cache.ts`) | cached values, requests in flight | get, invalidate, dispose | every read of a host | invalidation during a fetch | no value older than the last invalidation |
| Login and sessions (`app/api/auth/login`, `server/auth`) | sessions, TOTP and recovery codes, rate limits | log in, log out, change password | all routes | read-modify-write of recovery codes, login against revocation | a code works once, revoked sessions stay revoked |
| Permissions and shares (`lib/permissions.ts`, `lib/guest-scope.ts`, `lib/federation-access.ts`) | roles, host and guest access, share levels | decide, sync roles | all routes, federation | overrides and levels combine | a grant is never wider than its sources |
| Watchers (`disk-`, `zfs-`, `cpu-temp-`, `backup-watch.ts`) | notified flags, seen set | scan, remember, notify | notifications | hosts without a sample, rotation, bounded set | one report per crossing |
| Guest deletion, start, backups (`guest-delete.ts`, `guest-start.ts`, `backup-service.ts`) | none of their own | several Proxmox calls in a row | Proxmox, caches | a step in the middle fails | no backup or job is lost |
| Guest files (`guest-files.ts`, `guest-file-tickets.ts`, `ws/guest-file-upload.ts`) | a part file and its `.meta` beside the destination in the guest; tickets | ask for the state of a part, write, resume, finish, discard | browser, SSH channels to guests | sessions given up that still write, a channel's far end that outlives it, identity of what is resumed | a reported upload is whole, the old file goes only for a whole one |
| Console (`server/ws`) | two sockets per console | connect, pipe, close | Proxmox, browser | closing while connecting | both ends close |
| Notifications, WireGuard, settings backup, suite proxy, Proxmox client, dashboard, search, audit, updates list, telemetry | configuration; little | CRUD, HTTP, text | | formatting and I/O | not state machines |
| Web interface, Android app, install scripts | | | | | not modelled |

`PROJECT.json` lists each with its status, and under `hazards` what is hard to
test, at its line, with the property that covers it or a note.

## Modules

```
Restores        <- RestoreJobs    <- MCRestoreJobs   RestoreJobs_proofs <- RestoreReports_proofs
                                                       <- RestoreFinal_proofs
HostState                         <- MCHostState     HostState_proofs
SelfUpdate                        <- MCSelfUpdate    SelfUpdate_proofs
InventoryCache  <- GuestTasks     <- MCGuestTasks    GuestTasks_proofs
HostReconnect   <- DiskWatch      <- MCDiskWatch     DiskWatch_proofs
FileReplace     <- Uploads        <- MCUploads       Uploads_proofs
```

An arrow is EXTENDS, except that `RestoreJobs` instantiates `Restores` and
`Uploads` instantiates `FileReplace`, the abstract specifications that they
implement.

A module has one action per stretch of code between two awaits (JavaScript) or
per file operation (shell). What may happen between two of them is therefore
what may happen between the two lines. Operators that follow "Mutant of" in a
comment are plausible mistakes in the operator after them; they belong to no
specification and serve to show that each property can fail.

### RestoreJobs and Restores

`job[b][j]` is the job object of bundle `b`, `listed[b]` the keys of its Map,
`pc[b][j]` the await at which `runRestoreJob` stands, `chain[b]` the queue
behind `persistChain` (who awaits each write, or `Nobody`), `busy` and `image`
the write at the database and the snapshot it took when it *started*, `timers`
the pending `forgetRestoreJob`, `resume` the loop of `resumeRestoreJobs`,
`store` the row, `tasks[j]` what Proxmox accepted. `enqueued`, `recorded`,
`known` and `verdicts` are history.

`restoreBackup` has three outcomes: still stopping, accepted, and throwing,
where it may throw after Proxmox accepted (`CallFails` at "posted").
`waitUpid` sees its task end well or throws, at any time. A failing write may
have reached the row. A crash loses all memory and settles a write that is
under way either way. Notifications are recorded, not delivered.
`EarlyEnqueue` chooses whether a restore can be enqueued before
`resumeRestoreJobs` has read the row. `server/index.ts` calls it when the server
begins to listen, so its query leaves before any request is handled, but nothing
waits for the answer. The runs set it to FALSE; so do the theorems of
`RestoreFinal_proofs`, and no others. They need it: with TRUE, TLC finds the
server bundle resuming a restore that the route bundle has just stored, with two
workers and two tasks (`Implements` and `OneWorker` fail).

`Restores` is what is promised about a restore, in terms of what Proxmox accepted
(`tasks`) and what the user was told (`verdicts`) alone: a restore overwrites a
guest, so it is requested and reported at most once in a life of the process,
a success is told only of a task that ended well and is the end, and so is a
failure as long as no database call failed. `Implements` is the refinement,
with `crashes + 1` for `lives` and `dbFailures > 0` for `failed`. `OneWorker` is
why it holds: of the two bundles and `resumeRestoreJobs` only one is at a restore.

Left out: contents of a job other than phase, task and attempt, the view for
the interface, and a restore call that answers with something that is no UPID.
An error entry that `resumeRestoreJobs` takes back (`ResumeTake`) gets no
timer in the code, so it stays until the next restart; `Settles` therefore
speaks only of jobs before the first restart.

### HostState

One host row with one peer row. `pc[a]` is the query that the flow of actor `a`
runs next; `seen[a]` and `window[a]` are what it read and still believes;
`outcome[a]` is what it will write or pass on. The prober is one actor because
`probeAllHosts` is never started twice, the sync likewise; admins, live requests
and handlers of announcements are sets. `Answers` is the world: a local host
answers if it is up, a shared one if the colleague's Proxora is up too.

`CONNECTING` and `ERROR` differ only in what is reported. Announcements are
delivered to a free handler or lost. The time of the window is one event,
`Deadline`. `broadcastSelfUpdate` awaits the answers before the update begins,
which is the guard of `GoDown`.

The sync lists a colleague's host as ONLINE exactly if it is up; in truth the
colleague's own row may lag behind. Left out: creation, editing and deletion of
hosts, failing database calls, the kick of the reconnect scheduler
(`host-service.ts:413`), which only makes a probe come sooner.

Two races are real and are allowed for by the properties rather than excluded:
a flow that read the row before a switch to maintenance may end it
(`host-service.ts:192`, `369`), and a finish between the two statements of
`applyIncomingPeerUpdate` (`peer-update.ts:24-36`) leaves a host in
MAINTENANCE without a window until the sync or another update finds it. The
second is why `PeerHostReturns` needs the sync: the prober passes such a host by.

### SelfUpdate

`request`, `target`, `busy` are the files in the signal directory, `lock` the
lock directory with the pid in it; `post[p]` is where a request to
`applySelfUpdate` stands, `watcher` where the loop of the sidecar stands,
`script[s]` where a run of the apply script stands: the one in the container
(`Updater`) and those on the host (`Clis`). `tag` is the release the container
was started with. `fate`, `pinned`, `accepted` and `started` are history.

`kill -0` tells the truth between two scripts on the host. Between the host and
a container, or from one container to the next, pids belong to different
namespaces and the answer may be either (`SeemsAlive`). The updater container
may be killed or end at any step. A restart of the app loses the request under
way; `ComposeUp` is such a restart. `toldPeers` says that colleagues have been
told of an update; `HostState` shows what they do with it.

Left out: the progress file and the status page, what the script does to the
working copy and the stack, and the mode without a sidecar (`applyOnHost`),
which runs the same script directly.

### InventoryCache and GuestTasks

`InventoryCache` is one key of the cache of the API routes: the value, the
request registered in flight, requests that are under way but no longer
registered (`invalidateInventoryCache` forgets a request, it does not stop it),
and who awaits which. A forgotten request still stores what it brings and its
`finally` removes whatever request is registered by then
(`inventory-cache.ts:61`). `past` is history: what had the VMID since the last
invalidation that no request overlapped.

`GuestTasks` composes it with three of its users over one VMID: the deletion of
a guest (`stage`, `mode`, `ask`, `phase`, `upid`, `settled`), by the dialog,
which sends phase after phase and follows each task with `useProxmoxTask`, or in
one request (`shutdownThenDeleteGuest`); the purge of the archives chosen with it
(`purge[u]`), which waits behind the delete task after the route has answered;
and the cleanup of orphaned archives (`sweep`, `orphans`), which loads the
inventory twice and then deletes one archive after the other. Tasks may end
badly, answers may be lost after the node accepted a call, and others start,
stop, remove or create the guest in between.

`OthersChange` stands for a restore as well: the restore route does not
invalidate the cache, and a create invalidates when it is submitted, not when
its task ends. The stale status that a restore may read
(`backup-service.ts:274`) is harmless, for Proxmox refuses to overwrite a
running guest. Left out: the reload of the dialog, permissions, the limits on
how many archives a cleanup deletes and at once, guests being started.

### Uploads and FileReplace

`dest`, `part` and `meta` are the three files in the guest, as sequences of
chunks; `sess[s]` is an upload at the server with the awaits of
`sftpUploadFromStream` as `pc`, the offset it resumes at and the name its open
file has by now (`to`: an open file follows a rename and survives an unlink).
`live` is the one upload the browser waits for. The write goes through `cat` in
a shell (`>` truncates, `>>` appends and creates) or through an SFTP handle (`w`,
`r+`). When a channel is torn down its far end may still write one chunk
(`dying`). The browser cancels, connections fail, the process restarts, and the
list of parts discards one, `MaxStops` times in all.

A session whose body the browser has given up waits for it for ever (`Hang`), and
a WebSocket body that is destroyed while the SSH connection is being set up has
no listener for its error, so the process ends (`ws/guest-file-upload.ts:146`);
that is one more reason for `Crash`.

The history `spoiled` marks the runs in which the promise cannot hold, each of
them possible in the code: a session changes the part or `.meta` after another
has done so since its check (a session given up truncates or overwrites,
`guest-files.ts:741`, `834`; two of them rename each other's part; `CleanMeta`
removes the identity of another), a part is resumed by size because its `.meta`
could not be read, or an SFTP write is refused while a later one is already
under way and leaves a hole. The properties say what holds otherwise; that any
of them is needed is a finding of the model, not an assumption about the code.

`FileReplace` is what CHANGELOG.md:709 promises about the path: the old file is
removed only when a whole one lies beside it, and only that one takes its
place. `Replaces` is the refinement `dest` for `file`, `part` for `beside`.
Files that agree in size and in the hash of their first 64 KB are one file here,
as they are to the code. Left out: empty files, tickets and their thirty
minutes, uploads through the guest agent or to the hosts of colleagues.

### HostReconnect and DiskWatch

`HostReconnect` is the scheduler of probes: one `timer` with the delay it was
armed with, `cycle`, `kickSoon`, and `counting`, the queries for the next delay
that finished cycles still await. `running` is cleared before that query, so a
kick may arm its short timer during it and even a whole cycle may fit in; the
answer then replaces whatever timer there is (`host-reconnect.ts:44`), against
the comment at line 48. That is the exception in `KickIsKept` (`lost`). Kicks
from the copy of the module in the API routes do nothing, since `scheduled` is
false there. An answer and its write are one step here; how writes to a row race is
the matter of `HostState`.

If that query fails, nobody catches it (`ArmFails`): nothing is armed, and unless
a kick has armed its timer meanwhile the scheduler stands still (`Stopped`) until
the next kick or restart. Whether the process survives the unhandled rejection is
decided outside `src/`: Node.js ends it by default, a handler that only logs, as
Next.js may install one for a custom server (`server/index.ts:32`), keeps it alive. The
model has both, the second as `Crash`. `unanswered` is the history that
`StopsOnlyUnanswered` needs to say that nothing else stops the scheduler.

`DiskWatch` adds the disk alerts: every cycle asks the guests of the hosts that
are not known to be down, at most `Limit` a host in turns (`offset`), notes
samples, decides (`Apply`: at the alert level, or between the levels if the flag
was set), and stores the flags. A disk that gives no sample in a cycle, because
its host is down, its agent silent or its turn has not come, loses its flag
(`disk-watch.ts:46`) and is alerted once more when it is read again. The run
AlertRepeats shows it. `told` is the history of alerts since which the disk was not
below the clear level; `gap` marks those among them with a cycle without a
sample, or an unstored flag, since. `AlertOnceWhileSampled` says that there is
no other way for an alert to repeat. Reads
from a page's cache take no turn; they are bounded events here, since pages
that take turns for ever could keep other guests waiting for ever. Caches live
60 and 90 seconds, less than the five minutes between cycles, so a cycle never
sees the values of another one. Settings are fixed. `cpu-temp-watch.ts` has the
same shape without the turns, `zfs-watch.ts` two levels.

## Runs

| Run | Specification | Instance | Shows |
|---|---|---|---|
| RestoreJobs | `FairSpec` | 1 job, 2 attempts, 2 crashes, 2 failing database calls | `TypeOK`, `IInv`, `OneWorker`, `SuccessIsTrue`, `NoOrphan`, `NoResubmitKnown`, `SuccessIsFinal`, `FailedStaysFailed`, `Implements`, `Settles` |
| RestoreRemembered | `Spec` | 2 jobs, 1 attempt, 1 crash | violates `RememberedAcrossRestart` |
| HostLocal | `FairSpec` | local host, prober, admin, 1 request, 1 flap, 2 switches | `TypeOK`, `MaintenanceKeptByNewFlows`, `Converges`, `OutageReported` |
| HostPeer | `FairSpec` | shared host, prober, sync, 1 handler, 1 flap, 2 updates | `WindowCloses`, `PeerHostReturns` |
| HostPeerUpdate | `Spec` | as above with an admin and a request, 1 update | violates `UpdateIsNoOutage` |
| SelfUpdate | `FairSpec` | 2 requests, 1 run on the host, 1 failing start, 1 restart, 1 kill | `FilesCoordinate`, `BusyCoversUpdater`, `RunsOnce`, `PinWins`, `DroppedForOthersOnly`, `RequestServed`, `BusyEnds`, `PeersReleased` |
| SelfUpdateTwice | `Spec` | 1 request, 1 run on the host | violates `OneUpdateAtOnce` |
| GuestTasks | `FairSpec` | 1 deletion of either mode, 1 cleanup, 1 page, 2 requests in flight, 1 archive of unknown kind, 3 tasks, 1 change by others | `TypeOK`, `DeletedIsTrue`, `ArchivesGoForAReason`, `CleanupSeesInvalidation`, `DeleteSettles` |
| OrphanCleanup | `Spec` | 1 deletion by the dialog, 1 cleanup, 1 request in flight, 1 change by others | violates `CleanupOnlyOrphans` |
| Uploads | `FairSpec` | 2 sessions, files of 3 and 2 chunks, 2 stops | `TypeOK`, `DoneIsTrue`, `Replaces`, `Arrives` |
| DiskWatch | `FairSpec` | 1 host with 2 guests, 1 asked per cycle, 2 queries at once, 2 events | `TypeOK`, `StopsOnlyUnanswered`, `KickIsKept`, `HostReturns`, `AlertOnceWhileSampled`, `AlertComes` |
| AlertRepeats | `Spec` | 1 host with 2 guests, 1 asked per cycle, no event at all | violates `AlertOnce` |

Every bound is a constant named in the module. Why they suffice: a crash in the
middle of any of the awaits of RestoreJobs shows each half-done state, and two
are needed for a resumed job to be resumed again; one failing call may be the
one that stores an end, another the one at the next boot. One restore is enough
for the two copies to disagree about it; RestoreRemembered has two, for one copy
to overwrite what the other stored, and that no other restore matters for the
safety of one is proved for any number of them. Two attempts show a
first and a last one. In HostState one flap makes every flow's answer stale and
two switches let maintenance begin and end, or begin twice; two updates let a
late end of the first meet the second. In SelfUpdate one restart and one kill
can hit any step, and one run on the host is the only other party to the lock.
In GuestTasks three tasks are the phases of a deletion (shutdown, stop or
retry, delete); one change by others takes the guest away or brings one at any
moment; a page keeps a request in flight across an invalidation while the
cleanup begins another. In Uploads three chunks give a part that is
neither empty, nor of the other file's size, nor whole; two sessions and two
stops let a session that was given up meet the one that resumes. In DiskWatch one
more guest than a cycle asks makes the turns matter, a kick overlaps two queries,
and two events let a query fail after a host has changed. The proofs below do not depend on any of these numbers.

RestoreJobs, RestoreRemembered, GuestTasks, OrphanCleanup and Uploads do not check
for deadlock: when all work is settled and the bounds are used up, nothing has to
happen. In the other passing runs the schedulers and the sidecar go on for ever and
deadlock is checked. No run uses SYMMETRY.

### Disagreements with the documents

* `RememberedAcrossRestart` (CHANGELOG.md:309): the copy in the server bundle
  writes its own Map at the end of `resumeRestoreJobs` and whenever a job it
  resumed moves on; the copy of the routes does the same with its Map. The row
  holds the Map of whoever wrote last (`restore-jobs.ts:190`), so a restart can
  find it without a restore that was stored and still runs.
* `UpdateIsNoOutage` (CHANGELOG.md:660): a sync that began while a window was
  open ends it as soon as the colleague answers (`federation-service.ts:179`).
  A colleague pulls images for minutes after it announced its update and
  answers all that time. The outage then comes without a window.
* `OneUpdateAtOnce` (CHANGELOG.md:144): see `SeemsAlive` and the step between
  `Mkdir` and `Sign` (`self-update-apply.sh:27-39`).
* `CleanupOnlyOrphans` (the comment at `backup-service.ts:129`, CHANGELOG.md:61):
  a cleanup believes a list of guests that may be a minute old and that a
  restore or a create that ends later does not invalidate. It deletes the
  archives of a guest that exists during the whole cleanup.
  `CleanupSeesInvalidation` is what does hold.
* `AlertOnce` (CHANGELOG.md:1287, "once, until usage drops below 85%"): a disk that
  stays full is alerted again after every cycle without a sample of it
  (`disk-watch.ts:46`). On a host with more running VMs than a cycle asks (40) that
  is the normal case, with no fault at all. `AlertOnceWhileSampled` is what does
  hold.
* CHANGELOG.md:1570 promises that hosts "are probed again until they are online" and
  that a live request that marks a host ERROR "triggers a reconnect after 3s".
  Three things stand against it, and the properties about the scheduler name them
  as their exceptions instead of a run of its own: after a failing query for the
  next delay no host is probed any more (`Stopped` in `HostReturns` and `AlertComes`;
  without it TLC finds a host that is up and stays in ERROR for ever); a kick that
  comes during that query is overwritten by its answer (`lost` in `KickIsKept`);
  and a live request in the API routes, which is nearly every one, kicks a copy of
  the module that never started (`here` in `RequestEnds`).

## Fairness

All fairness is weak, and on steps that the code takes by itself.

* RestoreJobs: the event loop runs continuations and timers, the database
  answers (with success or, within the bound, failure), Proxmox calls return,
  a task ends or the wait times out. Crashes, failing calls and requests are
  never required.
* HostState: every flow that began goes on, the reconnect and the sync scheduler
  begin a cycle again and again (`setTimeout` re-armed in a `finally`; for the
  reconnect scheduler as long as it has not stopped, see HostReconnect), a
  deadline passes. Nobody is required to make a request, end a maintenance,
  deliver an announcement or come back.
* SelfUpdate: a request runs to its end, the sidecar's `while true` goes on,
  a script that was started ends, and the app announces its start. The outcome
  of a start is not prescribed; failures are bounded.

* GuestTasks: requests and the polls of the browser go on, and the node ends every
  task. Neither a purge nor a cleanup is required to end.
* Uploads: each session takes its next step, and the user tries again as long as
  it takes (`Arrives` is about such a user). No interruption is required.
* HostReconnect, DiskWatch: timers fire, queries, tests and agents answer, fail or
  time out. Requests, kicks and changes are never required.

`Converges`, `PeerHostReturns`, `HostReturns` and `AlertComes` are of the form "if the world stays as it is,
then for ever": hosts may flap within the bound at any time.

## Proofs

Checked by `tlapm` for every value of the constants that satisfies the
assumptions (`RestoreAssumption`, `HostAssumption`, `UpdateAssumption`,
`CacheAssumption`, `GuestAssumption`, `ReconnectAssumption`, `DiskAssumption`,
`UploadAssumption`: distinct actors, natural bounds, no guest on two hosts). Every
invariant and every refinement that a passing run checks is proved, and every
action property.

* `RestoreJobs_proofs`: `TypeCorrect`; `CopiesAgree`, that `IInv` is inductive;
  `NeverResubmitted`, the action property `NoResubmitKnown`. That a resumed job
  with a task is not requested again is not inductive: a job has up to five
  copies (the row, a write on its way in either bundle, two Maps, the list the
  resume loop holds), and any of them could bring back one without a task.
  `KnownEverywhere` says that none does once the task was read at a boot;
  `ResumeOrder` and `StoredIsOld` say why the reading itself is safe, namely that
  before it the server bundle holds nothing and the route bundle knows at least
  what it stored; `WorkerHoldsJob` links the program counter to the record.
* `HostState_proofs`: `TypeCorrect`; `MaintenanceKept`, that on a local host only
  the admin or a flow from before the switch ends a maintenance. `LocalFlows`
  keeps the flows of colleagues out; `NewFlowsKnow` says that under MAINTENANCE
  each other flow stands before its read of the row, or has read MAINTENANCE.
* `SelfUpdate_proofs`: `Coordination`, that `FilesCoordinate` is inductive, and
  from it `BusyCovers`, `StartedOnce`, `PinInstalled`, `DroppedSeldom`. Its parts:
  one request at a time (`OnePost`); the pin is written and read only where it
  belongs to the pending request (`PinFits`); what the sidecar saw still holds
  where it acts (`SidecarKnows`); the request file is worth one start, unless the
  sidecar restarts before removing it (`StartsCounted`); undisturbed, the lock is
  the updater's (`LockOfUpdater`).

* `RestoreReports_proofs`: `ReportsTrue` and `NobodyForgotten`, on top of `IInv` and
  the views of a step from `RestoreJobs_proofs`. A success is true because
  every copy of a job names an accepted task (`TasksExist`) and because a worker
  that removes its entry has seen that very task end well, which a task never
  takes back (`WorkerWatches`). No entry is left alone because a worker ends only
  with its entry gone, in an error (`RestsInError`), or after a failed write.
* `RestoreFinal_proofs`, under `~EarlyEnqueue`: `WorkersAlone`, `SuccessesFinal`,
  `FailuresFinal`, and `PromiseKept`, the refinement of `Restores`. The invariants
  build on each other and on the two modules before:
  1. `Sides`: of the two bundles one has nothing of a restore, neither a worker nor
     an entry nor a write under way, and the server bundle's side includes what
     `resumeRestoreJobs` has yet to take. `Alone` follows: who may still start a
     worker (`Startable`) and the worker exclude each other.
  2. `QueueInv`: whoever awaits a queued write stands at a step that awaits one and
     awaits one only, and a write that ends a restore does not store it as
     unfinished. It shows the Map as it is when it starts, so this rests on the
     order in which the code changes the entry and queues the write.
  3. `SettledInv`: once a success was told, or an error while no database call had
     failed (`Over`), no copy of the restore, in the row, a Map, a write or the list
     of the resumption, is unfinished. So no restart finds something to do,
     which is `SuccessIsFinal` and `FailedStaysFailed`.
  4. `LifeInv`: while a restore may still be requested (reported), it has been so
     in earlier lives of the process only.
  5. `OutsideStep`: with all of that, each step of `Next` is a step of `Restores` or
     leaves `tasks`, `verdicts`, `lives` and `failed` alone.
* `GuestTasks_proofs`: `TypeCorrect`; `CleanupsSeeInvalidation`, from `CacheInv`
  (whatever the cache, a request or a reader may still bring was there since
  the last quiet invalidation) and `SweepInv` (each orphan of a cleanup was
  decided on such an answer); `DeletedTrue` and `ArchivesKept`, from
  `DeletionInv`: a deletion owns its task (`Owns`), and what the hook, the dialog
  and the purge know belongs to the task it is linked to (`Linked`).
* `DiskWatch_proofs`: `NeverStopsOtherwise` and `KicksHold`, from `SchedulerInv`: a kick
  that is not lost implies `kickSoon` and no query under way (`KickPending`);
  `AlertedOnce`, from `ToldFlagged`: what was told and has no gap since is in the
  stored flags or in those
  about to be stored; `TypeCorrect`, whose one hard part is the turn (`TurnGoesRound`):
  however many guests need to be asked in a cycle, the offset that is stored is a
  place in the inventory of its host.
* `Uploads_proofs`: `TypeCorrect`, `DoneTrue`, and `PathReplaced`, the refinement of
  `FileReplace`. The invariant is `Sessionwise /\ Typed /\ Unspoiled`: as long as
  nothing is spoiled, `.meta` tells the truth about the part (`MetaTrue`), and a
  session that is alone finds the part as it left it (`Finds`), so what has the
  right size at the end is the whole file.

Model-checked only: all liveness (`Settles`, `Converges`, `OutageReported`,
`WindowCloses`, `PeerHostReturns`, `RequestServed`, `BusyEnds`, `PeersReleased`,
`DeleteSettles`, `Arrives`, `HostReturns`, `AlertComes`), which TLAPS does not
reach.

## Not modelled, and plan

Most of the repository is interface, texts in several languages, forms and
requests passed on to Proxmox. Its order of events is fixed, so there is nothing
for a model checker in it, and the share of lines that the map covers is small.
What has state of its own and is left, in the order of its worth:

1. `Auth`: logins, recovery codes, password change and revocation interleaving at
   their queries (`api/auth/login/route.ts:71`, `132`). Abstract specification: a
   store in which a code is consumed atomically.
2. `AccessControl`: the decisions of `permissions.ts`, `guest-scope.ts` and
   `federation-access.ts` as operators over small sets, against a declarative
   definition; a share never widens what its owner grants.
3. `client-cache.ts`: a client built from a row that was read before the row
   changed, cached after the invalidation; a client disposed under the live request
   of another caller (in HostState a request fails only when its host does not answer).
4. Creation, editing and deletion of hosts beside the flows of `HostState`.
5. The console proxy (two sockets that close while they connect), changes to
   backup jobs (`backup-service.ts:223`, deleted and created anew), the set of
   failures of `backup-watch.ts`, tickets of uploads.

Notifications, WireGuard, the suite proxy, the settings backup, the dashboard,
search, audit and telemetry keep configuration only or have no protocol of
their own; the Proxmox client is the environment of every module. The interface
and the Android app show what the API returns, except where a dialog drives
a protocol, which GuestTasks and Uploads include.
