----------------------------- MODULE SelfUpdate -----------------------------
(***************************************************************************)
(* Proxora updates itself: the app (server/services/self-update-service.ts,*)
(* lib/self-update-signal.ts), the sidecar that watches the signal         *)
(* directory (scripts/update-watcher.sh) and the apply script              *)
(* (scripts/self-update-apply.sh), which the sidecar runs in a container   *)
(* and an operator may run on the host (scripts/update.sh).                *)
(*                                                                         *)
(* They share no memory, only files: "request" (the app asks), "target"    *)
(* (the release it pinned), a busy file (both in the signal directory) and *)
(* the lock directory of the apply script (in the install directory).      *)
(* Each file operation is an action of its own, since other processes run  *)
(* between any two of them.                                                *)
(***************************************************************************)
EXTENDS Naturals, FiniteSets

CONSTANTS
  Posts,        \* concurrent POST /api/system/self-update requests
  Updater,      \* the apply script in the container of the sidecar
  Clis,         \* runs of the apply script on the host
  Tags,         \* releases
  Free, Unsigned, \* the lock directory is absent; is there without a pid file
  NoTag,
  MaxPosts, MaxCliRuns, MaxStartFailures, MaxRestarts, MaxKills  \* bounds

Scripts == {Updater} \cup Clis

ASSUME UpdateAssumption ==
  /\ Updater \notin Clis /\ NoTag \notin Tags
  /\ Free /= Unsigned /\ {Free, Unsigned} \cap Scripts = {}
  /\ {MaxPosts, MaxCliRuns, MaxStartFailures, MaxRestarts, MaxKills} \subseteq Nat

VARIABLES
  request, target, busy,  \* the files of the signal directory
  lock,                   \* the lock directory and the pid in it
  post,                   \* post[p]: where applySelfUpdate stands
  inFlight,               \* applyInFlight
  wanted,                 \* wanted[p]: the release the request pins
  toldPeers,              \* colleagues believe that this instance is updating
  booting,                \* the app has yet to announce that it is back
  watcher,                \* where the loop of the sidecar stands
  script,                 \* script[s]: where the apply script stands
  tag,                    \* the release the container was started with
  fate,                   \* history: the accepted request (see Fates)
  pinned,                 \* history: the release it pinned
  accepted, started,      \* history: requests accepted, containers started
  posts, cliRuns, startFailures, restarts, kills

files  == <<request, target, busy, lock>>
app    == <<post, inFlight, wanted, toldPeers, booting>>
past   == <<fate, pinned, accepted, started>>
bounds == <<posts, cliRuns, startFailures, restarts, kills>>
vars   == <<files, app, watcher, script, tag, past, bounds>>

Fates == {"none", "waiting", "started", "dropped"}

TypeOK ==
  /\ request \in BOOLEAN /\ target \in Tags \cup {NoTag} /\ busy \in BOOLEAN
  /\ lock \in {Free, Unsigned} \cup Scripts
  /\ post \in [Posts -> {"idle", "status", "check", "target", "request", "retract"}]
  /\ inFlight \in BOOLEAN /\ wanted \in [Posts -> Tags \cup {NoTag}]
  /\ toldPeers \in BOOLEAN /\ booting \in BOOLEAN
  /\ watcher \in {"loop", "drop", "lock", "start", "consume", "unlock", "sync",
                  "set", "unset"}
  /\ script \in [Scripts -> {"none", "mkdir", "sign", "judge", "clear", "again",
                             "work", "finish"}]
  /\ tag \in Tags \cup {NoTag} /\ pinned \in Tags \cup {NoTag}
  /\ fate \in Fates /\ accepted \in 0..MaxPosts
  /\ started \in 0..(MaxPosts + MaxRestarts)
  /\ posts \in 0..MaxPosts /\ cliRuns \in 0..MaxCliRuns
  /\ startFailures \in 0..MaxStartFailures
  /\ restarts \in 0..MaxRestarts /\ kills \in 0..MaxKills

Init ==
  /\ request = FALSE /\ target = NoTag /\ busy = FALSE /\ lock = Free
  /\ post = [p \in Posts |-> "idle"] /\ inFlight = FALSE
  /\ wanted = [p \in Posts |-> NoTag] /\ toldPeers = FALSE /\ booting = FALSE
  /\ watcher = "sync" /\ script = [s \in Scripts |-> "none"] /\ tag = NoTag
  /\ fate = "none" /\ pinned = NoTag /\ accepted = 0 /\ started = 0
  /\ posts = 0 /\ cliRuns = 0 /\ startFailures = 0 /\ restarts = 0 /\ kills = 0

----------------------------------------------------------------------------
(* applySelfUpdate.                                                        *)

PostAt(p, step) == post' = [post EXCEPT ![p] = step]

\* Mutant of isUpdateBusyFromSignal: the busy file is not looked at.
RequestPending == request

\* isUpdateBusyFromSignal; the signal directory itself is always there.
isUpdateBusyFromSignal == request \/ busy

\* The check and applyInFlight = true, without an await between them; a request
\* that is refused here changes nothing.
Post(p) ==
  /\ post[p] = "idle" /\ posts < MaxPosts
  /\ ~inFlight /\ ~isUpdateBusyFromSignal
  /\ posts' = posts + 1 /\ inFlight' = TRUE
  /\ PostAt(p, "status")
  /\ UNCHANGED <<files, wanted, toldPeers, booting, watcher, script, tag, past,
                 cliRuns, startFailures, restarts, kills>>

\* getSelfUpdateStatus: nothing to update, or a release to announce and apply
\* (without a release on GitHub, no tag is pinned).
StatusKnown(p) ==
  /\ post[p] = "status"
  /\ \/ PostAt(p, "idle") /\ inFlight' = FALSE /\ UNCHANGED <<wanted, toldPeers>>
     \/ /\ PostAt(p, "check") /\ toldPeers' = TRUE /\ UNCHANGED inFlight
        /\ \E t \in Tags \cup {NoTag} : wanted' = [wanted EXCEPT ![p] = t]
  /\ UNCHANGED <<files, booting, watcher, script, tag, past, bounds>>

\* applyViaSignal looks again after the broadcast.
CheckSignal(p) ==
  /\ post[p] = "check"
  /\ PostAt(p, IF isUpdateBusyFromSignal THEN "retract" ELSE "target")
  /\ UNCHANGED <<files, inFlight, wanted, toldPeers, booting, watcher, script, tag,
                 past, bounds>>

\* Mutant of writeUpdateTarget: the pin of an earlier update stays.
writeUpdateTargetKept(p) ==
  /\ post[p] = "target"
  /\ PostAt(p, "request")
  /\ target' = IF wanted[p] = NoTag THEN target ELSE wanted[p]
  /\ UNCHANGED <<request, busy, lock, inFlight, wanted, toldPeers, booting, watcher,
                 script, tag, past, bounds>>

writeUpdateTarget(p) ==
  /\ post[p] = "target"
  /\ PostAt(p, "request")
  /\ target' = wanted[p]
  /\ UNCHANGED <<request, busy, lock, inFlight, wanted, toldPeers, booting, watcher,
                 script, tag, past, bounds>>

\* Mutant of writeUpdateRequest: the temporary file is not renamed.
writeUpdateRequestTmp(p) ==
  /\ post[p] = "request"
  /\ PostAt(p, "idle") /\ inFlight' = FALSE
  /\ fate' = "waiting" /\ pinned' = wanted[p] /\ accepted' = accepted + 1
  /\ wanted' = [wanted EXCEPT ![p] = NoTag]
  /\ UNCHANGED <<files, toldPeers, booting, watcher, script, tag, started, bounds>>

writeUpdateRequest(p) ==
  /\ post[p] = "request"
  /\ PostAt(p, "idle") /\ inFlight' = FALSE
  /\ request' = TRUE
  /\ fate' = "waiting" /\ pinned' = wanted[p] /\ accepted' = accepted + 1
  /\ wanted' = [wanted EXCEPT ![p] = NoTag]
  /\ UNCHANGED <<target, busy, lock, toldPeers, booting, watcher, script, tag,
                 started, bounds>>

\* Writing to the signal directory throws.
WriteThrows(p) ==
  /\ post[p] \in {"target", "request"}
  /\ PostAt(p, "retract")
  /\ UNCHANGED <<files, inFlight, wanted, toldPeers, booting, watcher, script, tag,
                 past, bounds>>

\* Mutant of Retract: the colleagues are not told.
RetractSilently(p) ==
  /\ post[p] = "retract"
  /\ PostAt(p, "idle") /\ inFlight' = FALSE
  /\ wanted' = [wanted EXCEPT ![p] = NoTag]
  /\ UNCHANGED <<files, toldPeers, booting, watcher, script, tag, past, bounds>>

\* broadcastSelfUpdate with updating: false, after a failed attempt.
Retract(p) ==
  /\ post[p] = "retract"
  /\ PostAt(p, "idle") /\ inFlight' = FALSE
  /\ toldPeers' = FALSE
  /\ wanted' = [wanted EXCEPT ![p] = NoTag]
  /\ UNCHANGED <<files, booting, watcher, script, tag, past, bounds>>

\* The app is gone and comes up again: requests under way are lost.
AppRestarts ==
  /\ post' = [p \in Posts |-> "idle"] /\ inFlight' = FALSE
  /\ wanted' = [p \in Posts |-> NoTag]
  /\ booting' = TRUE

AppRestart ==
  /\ restarts < MaxRestarts /\ restarts' = restarts + 1
  /\ AppRestarts
  /\ UNCHANGED <<files, toldPeers, watcher, script, tag, past, posts, cliRuns,
                 startFailures, kills>>

\* server/index.ts announces the end of an update at every start.
BootAnnounced ==
  /\ booting
  /\ booting' = FALSE /\ toldPeers' = FALSE
  /\ UNCHANGED <<files, post, inFlight, wanted, watcher, script, tag, past, bounds>>

----------------------------------------------------------------------------
(* The loop of update-watcher.sh.                                          *)

WatcherAt(step) == watcher' = step

updater_running == script[Updater] /= "none"

\* Mutant of apply_busy: only the lock directory is looked at.
apply_locked == lock /= Free

apply_busy == updater_running \/ lock /= Free

Look ==
  /\ watcher = "loop"
  /\ WatcherAt(IF ~request THEN "sync" ELSE IF apply_busy THEN "drop" ELSE "lock")
  /\ UNCHANGED <<files, app, script, tag, past, bounds>>

\* "Update already running": the request is removed.
DropRequest ==
  /\ watcher = "drop" /\ WatcherAt("sync")
  /\ request' = FALSE
  /\ fate' = IF fate = "waiting" THEN "dropped" ELSE fate
  /\ UNCHANGED <<target, busy, lock, app, script, tag, pinned, accepted, started,
                 bounds>>

SetLock ==
  /\ watcher = "lock" /\ WatcherAt("start")
  /\ busy' = TRUE
  /\ UNCHANGED <<request, target, lock, app, script, tag, past, bounds>>

\* start_updater: the container starts with the release named in "target".
Started ==
  /\ watcher = "start" /\ WatcherAt("consume")
  /\ script' = [script EXCEPT ![Updater] = "mkdir"]
  /\ tag' = target
  /\ started' = started + 1
  /\ fate' = IF fate = "waiting" THEN "started" ELSE fate
  /\ UNCHANGED <<files, app, pinned, accepted, bounds>>

StartFails ==
  /\ watcher = "start" /\ startFailures < MaxStartFailures
  /\ startFailures' = startFailures + 1
  /\ WatcherAt("unlock")
  /\ UNCHANGED <<files, app, script, tag, past, posts, cliRuns, restarts, kills>>

\* Mutant of Consume: the request stays.
ConsumeNothing ==
  /\ watcher = "consume" /\ WatcherAt("sync")
  /\ UNCHANGED <<files, app, script, tag, past, bounds>>

Consume ==
  /\ watcher = "consume" /\ WatcherAt("sync")
  /\ request' = FALSE
  /\ UNCHANGED <<target, busy, lock, app, script, tag, past, bounds>>

\* The updater did not start: the request stays for the next round.
Unlock ==
  /\ watcher = "unlock" /\ WatcherAt("sync")
  /\ busy' = FALSE
  /\ UNCHANGED <<request, target, lock, app, script, tag, past, bounds>>

\* sync_lock: the test, and the file operation that follows.
sync_lock ==
  /\ watcher = "sync" /\ WatcherAt(IF apply_busy THEN "set" ELSE "unset")
  /\ UNCHANGED <<files, app, script, tag, past, bounds>>

\* Mutant of SyncWrites: the busy file is never taken away.
SyncSets ==
  /\ watcher \in {"set", "unset"} /\ WatcherAt("loop")
  /\ busy' = (watcher = "set" \/ busy)
  /\ UNCHANGED <<request, target, lock, app, script, tag, past, bounds>>

SyncWrites ==
  /\ watcher \in {"set", "unset"} /\ WatcherAt("loop")
  /\ busy' = (watcher = "set")
  /\ UNCHANGED <<request, target, lock, app, script, tag, past, bounds>>

\* The sidecar is killed and restarted; it begins with sync_lock.
WatcherRestart ==
  /\ restarts < MaxRestarts /\ restarts' = restarts + 1
  /\ WatcherAt("sync")
  /\ UNCHANGED <<files, app, script, tag, past, posts, cliRuns, startFailures, kills>>

----------------------------------------------------------------------------
(* self-update-apply.sh: acquire_update_lock, the update, the EXIT trap.   *)

ScriptAt(s, step) == script' = [script EXCEPT ![s] = step]

CliStart(c) ==
  /\ c \in Clis /\ script[c] = "none" /\ cliRuns < MaxCliRuns
  /\ cliRuns' = cliRuns + 1
  /\ ScriptAt(c, "mkdir")
  /\ UNCHANGED <<files, app, watcher, tag, past, posts, startFailures, restarts, kills>>

Mkdir(s) ==
  /\ script[s] = "mkdir"
  /\ IF lock = Free
     THEN lock' = Unsigned /\ ScriptAt(s, "sign")
     ELSE UNCHANGED lock /\ ScriptAt(s, "judge")
  /\ UNCHANGED <<request, target, busy, app, watcher, tag, past, bounds>>

\* The pid goes into the directory, if it is still there; the trap is set.
Sign(s) ==
  /\ script[s] = "sign"
  /\ lock' = IF lock = Free THEN Free ELSE s
  /\ ScriptAt(s, "work")
  /\ UNCHANGED <<request, target, busy, app, watcher, tag, past, bounds>>

\* kill -0 tells the truth about a pid of one's own pid namespace; the host and
\* the containers number their processes apart, so there it may say anything.
SeemsAlive(s) ==
  IF lock \in {Free, Unsigned} THEN {FALSE}
  ELSE IF {s, lock} \subseteq Clis THEN {script[lock] /= "none"}
  ELSE BOOLEAN

Judge(s) ==
  /\ script[s] = "judge"
  /\ \E alive \in SeemsAlive(s) : ScriptAt(s, IF alive THEN "none" ELSE "clear")
  /\ UNCHANGED <<files, app, watcher, tag, past, bounds>>

ClearStale(s) ==
  /\ script[s] = "clear"
  /\ lock' = Free
  /\ ScriptAt(s, "again")
  /\ UNCHANGED <<request, target, busy, app, watcher, tag, past, bounds>>

MkdirAgain(s) ==
  /\ script[s] = "again"
  /\ IF lock = Free
     THEN lock' = Unsigned /\ ScriptAt(s, "sign")
     ELSE UNCHANGED lock /\ ScriptAt(s, "none")
  /\ UNCHANGED <<request, target, busy, app, watcher, tag, past, bounds>>

\* docker compose up replaces the app by the new release.
ComposeUp(s) ==
  /\ script[s] = "work"
  /\ ScriptAt(s, "finish")
  /\ AppRestarts
  /\ UNCHANGED <<files, toldPeers, watcher, tag, past, bounds>>

\* The end of the script, at any step with an error, and its EXIT trap.
Exit(s) ==
  /\ script[s] \in {"work", "finish"}
  /\ lock' = Free
  /\ ScriptAt(s, "none")
  /\ UNCHANGED <<request, target, busy, app, watcher, tag, past, bounds>>

\* Out of memory, a reboot of the host: no trap runs.
Kill(s) ==
  /\ script[s] /= "none" /\ kills < MaxKills
  /\ kills' = kills + 1
  /\ ScriptAt(s, "none")
  /\ UNCHANGED <<files, app, watcher, tag, past, posts, cliRuns, startFailures,
                 restarts>>

----------------------------------------------------------------------------

PostStep(p) ==
  \/ StatusKnown(p) \/ CheckSignal(p) \/ writeUpdateTarget(p)
  \/ writeUpdateRequest(p) \/ WriteThrows(p) \/ Retract(p)

WatcherStep ==
  \/ Look \/ DropRequest \/ SetLock \/ Started \/ StartFails \/ Consume \/ Unlock
  \/ sync_lock \/ SyncWrites

ScriptStep(s) ==
  \/ Mkdir(s) \/ Sign(s) \/ Judge(s) \/ ClearStale(s) \/ MkdirAgain(s)
  \/ ComposeUp(s) \/ Exit(s)

Next ==
  \/ \E p \in Posts : Post(p) \/ PostStep(p)
  \/ WatcherStep
  \/ \E s \in Scripts : ScriptStep(s) \/ CliStart(s) \/ Kill(s)
  \/ BootAnnounced \/ AppRestart \/ WatcherRestart

Spec == Init /\ [][Next]_vars

\* A request runs to its end, the sidecar loops, a script that was started ends,
\* the app announces its start.  Nobody has to ask for an update.
Fairness ==
  /\ \A p \in Posts : WF_vars(PostStep(p))
  /\ WF_vars(WatcherStep)
  /\ \A s \in Scripts : WF_vars(ScriptStep(s))
  /\ WF_vars(BootAnnounced)

FairSpec == Spec /\ Fairness

----------------------------------------------------------------------------
(* Properties.                                                             *)

\* Nobody but the sidecar and the app took part so far, and nobody was killed.
Quiet == cliRuns = 0 /\ kills = 0

\* One request at a time is under way in the app.
OnePost ==
  /\ \A p \in Posts : post[p] /= "idle" => inFlight
  /\ \A p, q \in Posts : post[p] /= "idle" /\ post[q] /= "idle" => p = q
  /\ accepted + (IF inFlight THEN 1 ELSE 0) <= posts

\* The pin belongs to the request file, from before it is written until the
\* sidecar has removed it.
PinFits ==
  /\ \A p \in Posts : post[p] \in {"target", "request"} => ~request
  /\ \A p \in Posts : post[p] = "request" => target = wanted[p]
  /\ request => target = pinned

\* What the sidecar has seen still holds where it acts on it.
SidecarKnows ==
  /\ watcher \in {"drop", "lock", "start", "consume", "unlock"} => request
  /\ watcher \in {"start", "consume"} => busy
  /\ watcher \in {"lock", "start", "unlock", "unset"} => ~updater_running
  /\ updater_running => busy

\* Each accepted request is good for one start, and so is each restart.
StartsCounted ==
  started + (IF request /\ watcher /= "consume" THEN 1 ELSE 0) <= accepted + restarts

\* Undisturbed, the lock is the updater's, and a request that waits is alone.
LockOfUpdater ==
  /\ cliRuns = 0 => \A c \in Clis : script[c] = "none"
  /\ Quiet =>
       /\ script[Updater] \in {"none", "mkdir", "sign", "work", "finish"}
       /\ script[Updater] \in {"none", "mkdir"} => lock = Free
       /\ (\E p \in Posts : post[p] \in {"target", "request"}) => ~updater_running
       /\ fate = "waiting" => ~updater_running /\ watcher /= "drop"

\* App, sidecar and script agree through the files alone: the inductive
\* invariant from which the safety properties below are proved
\* (self-update-service.ts:239-279, update-watcher.sh:36-92).
FilesCoordinate ==
  TypeOK /\ OnePost /\ PinFits /\ SidecarKnows /\ StartsCounted /\ LockOfUpdater

\* While the container of an update exists, the busy file is there, from before
\* its start to its end and across restarts of app and sidecar: the app refuses
\* a second update all that time.
BusyCoversUpdater == updater_running => busy

\* The sidecar runs an accepted request once, unless it is restarted between
\* the start of the container and the removal of the request file.
RunsOnce == started <= accepted + restarts

\* The updater installs the release that the accepted request pinned, or the
\* latest if it pinned none: no pin of an earlier request is left over.
PinWins ==
  [][started' > started => tag' = pinned]_vars

\* A request the app accepted is dropped only if somebody holds the lock whom
\* the app could not know of: a run on the host, or one that was killed.
DroppedForOthersOnly ==
  [][fate' = "dropped" /\ fate = "waiting" => cliRuns > 0 \/ kills > 0]_vars

\* A request the app accepted does not lie around: it is started, however often
\* the start fails and the sidecar restarts, or dropped in favour of another.
RequestServed == fate = "waiting" ~> fate /= "waiting"

\* The busy file goes away when the update is over, so that the next one can be
\* requested, unless a killed script left its lock.
BusyEnds ==
  busy ~> (~busy \/ (lock /= Free /\ (lock \in Scripts => script[lock] = "none")))

\* The colleagues are told that the update is over: after a failed attempt, or by
\* the app when it comes up again.  Only a request that was accepted and then
\* ended without a restart of the app leaves them with the deadline they have.
PeersReleased ==
  toldPeers ~> \/ ~toldPeers
               \/ /\ fate \in {"started", "dropped"}
                  /\ \A s \in Scripts : script[s] = "none"

\* CHANGELOG.md:144: two updates cannot run at once.
OneUpdateAtOnce == Cardinality({s \in Scripts : script[s] \in {"work", "finish"}}) <= 1

=============================================================================
