-------------------------- MODULE SelfUpdate_proofs --------------------------
(* Proofs about SelfUpdate for every set of requests, releases and runs on *)
(* the host, and every bound.                                              *)
EXTENDS SelfUpdate, TLAPS

\* The bounds are numbers.
LEMMA Numbers ==
  /\ MaxPosts \in Nat /\ MaxCliRuns \in Nat /\ MaxStartFailures \in Nat
  /\ MaxRestarts \in Nat /\ MaxKills \in Nat
BY UpdateAssumption

USE UpdateAssumption, Numbers
USE DEF files, app, past, bounds, PostAt, WatcherAt, ScriptAt

\* One request is under way in the app: it enters when nobody is in, and all are
\* gone with the app.
LEMMA OnePostStep == FilesCoordinate /\ [Next]_vars => OnePost'
<1> SUFFICES ASSUME FilesCoordinate, [Next]_vars PROVE OnePost'
  OBVIOUS
<1> USE DEF FilesCoordinate, TypeOK, OnePost
<1>1. ASSUME NEW p \in Posts, Post(p) PROVE OnePost'
  BY <1>1 DEF Post
<1>2. ASSUME NEW p \in Posts, StatusKnown(p) PROVE OnePost'
  BY <1>2 DEF StatusKnown
<1>3. ASSUME NEW p \in Posts, writeUpdateRequest(p) PROVE OnePost'
  BY <1>3 DEF writeUpdateRequest
<1>4. ASSUME NEW p \in Posts, Retract(p) PROVE OnePost'
  BY <1>4 DEF Retract
<1>5. ASSUME NEW p \in Posts,
             CheckSignal(p) \/ writeUpdateTarget(p) \/ WriteThrows(p)
      PROVE  OnePost'
  BY <1>5 DEF CheckSignal, writeUpdateTarget, WriteThrows
<1>6. ASSUME Look \/ DropRequest \/ SetLock \/ Started \/ StartFails \/
             Consume \/ Unlock \/ sync_lock \/ SyncWrites
      PROVE  OnePost'
  BY <1>6 DEF Look, DropRequest, SetLock, Started, StartFails, Consume,
     Unlock, sync_lock, SyncWrites
<1>7. ASSUME NEW s \in Scripts, ComposeUp(s) PROVE OnePost'
  BY <1>7 DEF ComposeUp, AppRestarts
<1>8. ASSUME NEW s \in Scripts,
             Mkdir(s) \/ Sign(s) \/ Judge(s) \/ ClearStale(s) \/
             MkdirAgain(s) \/ Exit(s) \/ CliStart(s) \/ Kill(s)
      PROVE  OnePost'
  BY <1>8 DEF Mkdir, Sign, Judge, ClearStale, MkdirAgain, Exit, CliStart,
     Kill
<1>9. ASSUME AppRestart PROVE OnePost'
  BY <1>9 DEF AppRestart, AppRestarts
<1>10. ASSUME BootAnnounced \/ WatcherRestart
      PROVE  OnePost'
  BY <1>10 DEF BootAnnounced, WatcherRestart
<1>11. CASE UNCHANGED vars
  BY <1>11 DEF vars
<1> QED BY <1>1, <1>2, <1>3, <1>4, <1>5, <1>6, <1>7, <1>8, <1>9, <1>10,
       <1>11 DEF Next, PostStep, WatcherStep, ScriptStep

\* The pin belongs to the request: the one request under way saw no request file
\* before it wrote either.
LEMMA PinFitsStep == FilesCoordinate /\ [Next]_vars => PinFits'
<1> SUFFICES ASSUME FilesCoordinate, [Next]_vars PROVE PinFits'
  OBVIOUS
<1> USE DEF FilesCoordinate, TypeOK, OnePost, PinFits
<1>1. ASSUME NEW p \in Posts, CheckSignal(p) PROVE PinFits'
  BY <1>1 DEF CheckSignal, isUpdateBusyFromSignal
<1>2. ASSUME NEW p \in Posts, writeUpdateTarget(p) PROVE PinFits'
  BY <1>2 DEF writeUpdateTarget
<1>3. ASSUME NEW p \in Posts, writeUpdateRequest(p) PROVE PinFits'
  BY <1>3 DEF writeUpdateRequest
<1>4. ASSUME NEW p \in Posts,
             Post(p) \/ StatusKnown(p) \/ WriteThrows(p) \/ Retract(p)
      PROVE  PinFits'
  BY <1>4 DEF Post, StatusKnown, WriteThrows, Retract
<1>5. ASSUME DropRequest PROVE PinFits'
  BY <1>5 DEF DropRequest
<1>6. ASSUME Consume PROVE PinFits'
  BY <1>6 DEF Consume
<1>7. ASSUME Look \/ SetLock \/ Started \/ StartFails \/ Unlock \/ sync_lock
             \/ SyncWrites
      PROVE  PinFits'
  BY <1>7 DEF Look, SetLock, Started, StartFails, Unlock, sync_lock,
     SyncWrites
<1>8. ASSUME NEW s \in Scripts, ComposeUp(s) PROVE PinFits'
  BY <1>8 DEF ComposeUp, AppRestarts
<1>9. ASSUME NEW s \in Scripts,
             Mkdir(s) \/ Sign(s) \/ Judge(s) \/ ClearStale(s) \/
             MkdirAgain(s) \/ Exit(s) \/ CliStart(s) \/ Kill(s)
      PROVE  PinFits'
  BY <1>9 DEF Mkdir, Sign, Judge, ClearStale, MkdirAgain, Exit, CliStart,
     Kill
<1>10. ASSUME AppRestart PROVE PinFits'
  BY <1>10 DEF AppRestart, AppRestarts
<1>11. ASSUME BootAnnounced \/ WatcherRestart
      PROVE  PinFits'
  BY <1>11 DEF BootAnnounced, WatcherRestart
<1>12. CASE UNCHANGED vars
  BY <1>12 DEF vars
<1> QED BY <1>1, <1>2, <1>3, <1>4, <1>5, <1>6, <1>7, <1>8, <1>9, <1>10,
       <1>11, <1>12 DEF Next, PostStep, WatcherStep, ScriptStep

\* What the sidecar saw still holds where it acts: only it removes the request,
\* starts the container and writes the busy file.
LEMMA SidecarKnowsStep == FilesCoordinate /\ [Next]_vars => SidecarKnows'
<1> SUFFICES ASSUME FilesCoordinate, [Next]_vars PROVE SidecarKnows'
  OBVIOUS
<1> USE DEF FilesCoordinate, TypeOK, SidecarKnows, updater_running, Scripts
<1>1. ASSUME NEW p \in Posts,
             Post(p) \/ StatusKnown(p) \/ CheckSignal(p) \/
             writeUpdateTarget(p) \/ writeUpdateRequest(p) \/ WriteThrows(p)
             \/ Retract(p)
      PROVE  SidecarKnows'
  BY <1>1 DEF Post, StatusKnown, CheckSignal, writeUpdateTarget,
     writeUpdateRequest, WriteThrows, Retract
<1>2. ASSUME Look PROVE SidecarKnows'
  BY <1>2 DEF Look, apply_busy
<1>3. ASSUME Started PROVE SidecarKnows'
  BY <1>3 DEF Started
<1>4. ASSUME Consume PROVE SidecarKnows'
  BY <1>4 DEF Consume
<1>5. ASSUME Unlock PROVE SidecarKnows'
  BY <1>5 DEF Unlock
<1>6. ASSUME sync_lock PROVE SidecarKnows'
  BY <1>6 DEF sync_lock, apply_busy
<1>7. ASSUME SyncWrites PROVE SidecarKnows'
  BY <1>7 DEF SyncWrites
<1>8. ASSUME DropRequest \/ SetLock \/ StartFails
      PROVE  SidecarKnows'
  BY <1>8 DEF DropRequest, SetLock, StartFails
<1>9. ASSUME NEW s \in Scripts, ComposeUp(s) PROVE SidecarKnows'
  BY <1>9 DEF ComposeUp, AppRestarts
<1>10. ASSUME NEW s \in Scripts,
             Mkdir(s) \/ Sign(s) \/ Judge(s) \/ ClearStale(s) \/
             MkdirAgain(s) \/ Exit(s) \/ CliStart(s) \/ Kill(s)
      PROVE  SidecarKnows'
  BY <1>10 DEF Mkdir, Sign, Judge, ClearStale, MkdirAgain, Exit, CliStart,
     Kill
<1>11. ASSUME BootAnnounced \/ AppRestart \/ WatcherRestart
      PROVE  SidecarKnows'
  BY <1>11 DEF BootAnnounced, AppRestart, WatcherRestart, AppRestarts
<1>12. CASE UNCHANGED vars
  BY <1>12 DEF vars
<1> QED BY <1>1, <1>2, <1>3, <1>4, <1>5, <1>6, <1>7, <1>8, <1>9, <1>10,
       <1>11, <1>12 DEF Next, PostStep, WatcherStep, ScriptStep

\* A start uses up the request file that an acceptance, or a restart of the
\* sidecar before the removal, left.
LEMMA StartsCountedStep == FilesCoordinate /\ [Next]_vars => StartsCounted'
<1> SUFFICES ASSUME FilesCoordinate, [Next]_vars PROVE StartsCounted'
  OBVIOUS
<1> USE DEF FilesCoordinate, TypeOK, PinFits, SidecarKnows, StartsCounted
<1>1. ASSUME NEW p \in Posts, writeUpdateRequest(p) PROVE StartsCounted'
  BY <1>1 DEF writeUpdateRequest
<1>2. ASSUME NEW p \in Posts,
             Post(p) \/ StatusKnown(p) \/ CheckSignal(p) \/
             writeUpdateTarget(p) \/ WriteThrows(p) \/ Retract(p)
      PROVE  StartsCounted'
  BY <1>2 DEF Post, StatusKnown, CheckSignal, writeUpdateTarget,
     WriteThrows, Retract
<1>3. ASSUME Look PROVE StartsCounted'
  BY <1>3 DEF Look
<1>4. ASSUME DropRequest PROVE StartsCounted'
  BY <1>4 DEF DropRequest
<1>5. ASSUME Started PROVE StartsCounted'
  BY <1>5 DEF Started
<1>6. ASSUME Consume PROVE StartsCounted'
  BY <1>6 DEF Consume
<1>7. ASSUME SetLock \/ StartFails \/ Unlock \/ sync_lock \/ SyncWrites
      PROVE  StartsCounted'
  BY <1>7 DEF SetLock, StartFails, Unlock, sync_lock, SyncWrites
<1>8. ASSUME NEW s \in Scripts,
             Mkdir(s) \/ Sign(s) \/ Judge(s) \/ ClearStale(s) \/
             MkdirAgain(s) \/ ComposeUp(s) \/ Exit(s) \/ CliStart(s) \/
             Kill(s)
      PROVE  StartsCounted'
  BY <1>8 DEF Mkdir, Sign, Judge, ClearStale, MkdirAgain, ComposeUp, Exit,
     CliStart, Kill, AppRestarts
<1>9. ASSUME WatcherRestart PROVE StartsCounted'
  BY <1>9 DEF WatcherRestart
<1>10. ASSUME BootAnnounced \/ AppRestart
      PROVE  StartsCounted'
  BY <1>10 DEF BootAnnounced, AppRestart, AppRestarts
<1>11. CASE UNCHANGED vars
  BY <1>11 DEF vars
<1> QED BY <1>1, <1>2, <1>3, <1>4, <1>5, <1>6, <1>7, <1>8, <1>9, <1>10,
       <1>11 DEF Next, PostStep, WatcherStep, ScriptStep

\* The app comes up with no request under way.
LEMMA RestartTypes ==
  ASSUME AppRestarts
  PROVE  /\ post' \in [Posts -> {"idle", "status", "check", "target", "request", "retract"}]
         /\ wanted' \in [Posts -> Tags \cup {NoTag}]
         /\ inFlight' \in BOOLEAN /\ booting' \in BOOLEAN
BY DEF AppRestarts

\* Types: the counters stay within their bounds because requests under way and
\* starts are counted (OnePost, StartsCounted).
LEMMA TypeStep == FilesCoordinate /\ [Next]_vars => TypeOK'
<1> SUFFICES ASSUME FilesCoordinate, [Next]_vars PROVE TypeOK'
  OBVIOUS
<1> USE DEF FilesCoordinate, TypeOK, OnePost, StartsCounted, Fates
<1>1. ASSUME NEW p \in Posts, Post(p) PROVE TypeOK'
  BY <1>1 DEF Post
<1>2. ASSUME NEW p \in Posts, StatusKnown(p) PROVE TypeOK'
  <2>1. wanted' \in [Posts -> Tags \cup {NoTag}] /\ inFlight' \in BOOLEAN
    BY <1>2 DEF StatusKnown
  <2>2. post' \in [Posts -> {"idle", "status", "check", "target", "request", "retract"}]
    BY <1>2 DEF StatusKnown
  <2>3. toldPeers' \in BOOLEAN
    BY <1>2 DEF StatusKnown
  <2> QED BY <1>2, <2>1, <2>2, <2>3 DEF StatusKnown
<1>3. ASSUME NEW p \in Posts, writeUpdateTarget(p) PROVE TypeOK'
  BY <1>3 DEF writeUpdateTarget
<1>4. ASSUME NEW p \in Posts, writeUpdateRequest(p) PROVE TypeOK'
  <2>1. inFlight
    BY <1>4 DEF writeUpdateRequest
  <2>2. accepted' \in 0..MaxPosts
    BY <1>4, <2>1 DEF writeUpdateRequest
  <2>3. wanted' \in [Posts -> Tags \cup {NoTag}] /\ pinned' \in Tags \cup {NoTag}
    BY <1>4 DEF writeUpdateRequest
  <2> QED BY <1>4, <2>2, <2>3, ZenonT(60) DEF writeUpdateRequest
<1>5. ASSUME NEW p \in Posts, WriteThrows(p) PROVE TypeOK'
  BY <1>5 DEF WriteThrows
<1>6. ASSUME NEW p \in Posts,
             CheckSignal(p) \/ Retract(p)
      PROVE  TypeOK'
  BY <1>6, ZenonT(60) DEF CheckSignal, Retract
<1>7. ASSUME Look PROVE TypeOK'
  BY <1>7 DEF Look
<1>8. ASSUME DropRequest PROVE TypeOK'
  BY <1>8 DEF DropRequest
<1>9. ASSUME SetLock PROVE TypeOK'
  BY <1>9 DEF SetLock
<1>10. ASSUME Started PROVE TypeOK'
  BY <1>10 DEF Started, SidecarKnows, Scripts
<1>11. ASSUME StartFails PROVE TypeOK'
  BY <1>11 DEF StartFails
<1>12. ASSUME Consume PROVE TypeOK'
  BY <1>12, ZenonT(60) DEF Consume
<1>13. ASSUME Unlock PROVE TypeOK'
  BY <1>13, ZenonT(60) DEF Unlock
<1>14. ASSUME sync_lock PROVE TypeOK'
  BY <1>14 DEF sync_lock
<1>15. ASSUME SyncWrites PROVE TypeOK'
  BY <1>15 DEF SyncWrites
<1>16. ASSUME NEW s \in Scripts, Mkdir(s) PROVE TypeOK'
  BY <1>16 DEF Mkdir
<1>17. ASSUME NEW s \in Scripts, Sign(s) PROVE TypeOK'
  BY <1>17 DEF Sign
<1>18. ASSUME NEW s \in Scripts, Judge(s) PROVE TypeOK'
  BY <1>18 DEF Judge
<1>19. ASSUME NEW s \in Scripts, ClearStale(s) PROVE TypeOK'
  BY <1>19 DEF ClearStale
<1>20. ASSUME NEW s \in Scripts, MkdirAgain(s) PROVE TypeOK'
  BY <1>20 DEF MkdirAgain
<1>21. ASSUME NEW s \in Scripts, ComposeUp(s) PROVE TypeOK'
  <2>1. script' \in [Scripts -> {"none", "mkdir", "sign", "judge", "clear", "again",
                                "work", "finish"}]
    BY <1>21 DEF ComposeUp
  <2> QED BY <1>21, <2>1, RestartTypes DEF ComposeUp
<1>22. ASSUME NEW s \in Scripts, Exit(s) PROVE TypeOK'
  BY <1>22 DEF Exit
<1>23. ASSUME NEW s \in Scripts, CliStart(s) PROVE TypeOK'
  BY <1>23 DEF CliStart, Scripts
<1>24. ASSUME NEW s \in Scripts, Kill(s) PROVE TypeOK'
  BY <1>24 DEF Kill
<1>25. ASSUME BootAnnounced PROVE TypeOK'
  <2>1. booting' \in BOOLEAN /\ toldPeers' \in BOOLEAN
    BY <1>25 DEF BootAnnounced
  <2> QED BY <1>25, <2>1 DEF BootAnnounced
<1>26. ASSUME AppRestart PROVE TypeOK'
  <2>1. restarts' \in 0..MaxRestarts
    BY <1>26 DEF AppRestart
  <2> QED BY <1>26, <2>1, RestartTypes DEF AppRestart
<1>27. ASSUME WatcherRestart PROVE TypeOK'
  BY <1>27 DEF WatcherRestart
<1>28. CASE UNCHANGED vars
  BY <1>28 DEF vars
<1> QED BY <1>1, <1>2, <1>3, <1>4, <1>5, <1>6, <1>7, <1>8, <1>9, <1>10,
       <1>11, <1>12, <1>13, <1>14, <1>15, <1>16, <1>17, <1>18, <1>19, <1>20,
       <1>21, <1>22, <1>23, <1>24, <1>25, <1>26, <1>27, <1>28 DEF Next,
       PostStep, WatcherStep, ScriptStep

\* Undisturbed, only the updater takes the lock, and none runs while a request is
\* being written or waits.
LEMMA LockOfUpdaterStep == FilesCoordinate /\ [Next]_vars => LockOfUpdater'
<1> SUFFICES ASSUME FilesCoordinate, [Next]_vars PROVE LockOfUpdater'
  OBVIOUS
<1> USE DEF FilesCoordinate, TypeOK, LockOfUpdater, Quiet, Scripts, updater_running
<1>1. ASSUME NEW p \in Posts, CheckSignal(p) PROVE LockOfUpdater'
  BY <1>1 DEF CheckSignal, isUpdateBusyFromSignal, SidecarKnows
<1>2. ASSUME NEW p \in Posts, writeUpdateRequest(p) PROVE LockOfUpdater'
  BY <1>2 DEF writeUpdateRequest, PinFits, SidecarKnows
<1>3. ASSUME NEW p \in Posts,
             Post(p) \/ StatusKnown(p) \/ writeUpdateTarget(p) \/
             WriteThrows(p) \/ Retract(p)
      PROVE  LockOfUpdater'
  BY <1>3 DEF Post, StatusKnown, writeUpdateTarget, WriteThrows, Retract
<1>4. ASSUME Look PROVE LockOfUpdater'
  BY <1>4 DEF Look, apply_busy
<1>5. ASSUME DropRequest PROVE LockOfUpdater'
  BY <1>5 DEF DropRequest
<1>6. ASSUME Started PROVE LockOfUpdater'
  BY <1>6 DEF Started, PinFits, SidecarKnows
<1>7. ASSUME SetLock \/ StartFails \/ Consume \/ Unlock \/ sync_lock \/
             SyncWrites
      PROVE  LockOfUpdater'
  BY <1>7 DEF SetLock, StartFails, Consume, Unlock, sync_lock, SyncWrites
<1>8. ASSUME NEW s \in Scripts, Mkdir(s) PROVE LockOfUpdater'
  BY <1>8 DEF Mkdir
<1>9. ASSUME NEW s \in Scripts, Sign(s) PROVE LockOfUpdater'
  BY <1>9 DEF Sign
<1>10. ASSUME NEW s \in Scripts, Judge(s) PROVE LockOfUpdater'
  BY <1>10 DEF Judge, SeemsAlive
<1>11. ASSUME NEW s \in Scripts, ClearStale(s) PROVE LockOfUpdater'
  BY <1>11 DEF ClearStale
<1>12. ASSUME NEW s \in Scripts, MkdirAgain(s) PROVE LockOfUpdater'
  BY <1>12 DEF MkdirAgain
<1>13. ASSUME NEW s \in Scripts, ComposeUp(s) PROVE LockOfUpdater'
  BY <1>13 DEF ComposeUp, AppRestarts
<1>14. ASSUME NEW s \in Scripts, Exit(s) PROVE LockOfUpdater'
  BY <1>14 DEF Exit
<1>15. ASSUME NEW s \in Scripts, CliStart(s) PROVE LockOfUpdater'
  BY <1>15 DEF CliStart
<1>16. ASSUME NEW s \in Scripts, Kill(s) PROVE LockOfUpdater'
  BY <1>16 DEF Kill
<1>17. ASSUME AppRestart PROVE LockOfUpdater'
  BY <1>17 DEF AppRestart, AppRestarts
<1>18. ASSUME BootAnnounced \/ WatcherRestart
      PROVE  LockOfUpdater'
  BY <1>18 DEF BootAnnounced, WatcherRestart
<1>19. CASE UNCHANGED vars
  BY <1>19 DEF vars
<1> QED BY <1>1, <1>2, <1>3, <1>4, <1>5, <1>6, <1>7, <1>8, <1>9, <1>10,
       <1>11, <1>12, <1>13, <1>14, <1>15, <1>16, <1>17, <1>18, <1>19 DEF
       Next, PostStep, WatcherStep, ScriptStep

\* The files coordinate, for every number of requests, runs on the host, failing
\* starts, restarts and kills.
THEOREM Coordination == Spec => []FilesCoordinate
<1>1. Init => FilesCoordinate
  <2> SUFFICES ASSUME Init PROVE FilesCoordinate
    OBVIOUS
  <2> USE DEF Init, updater_running, Scripts
  <2>1. TypeOK
    <3>1. /\ script \in [Scripts -> {"none"}] /\ post \in [Posts -> {"idle"}]
          /\ wanted \in [Posts -> Tags \cup {NoTag}]
      OBVIOUS
    <3>2. request \in BOOLEAN /\ busy \in BOOLEAN /\ inFlight \in BOOLEAN
          /\ toldPeers \in BOOLEAN /\ booting \in BOOLEAN
      OBVIOUS
    <3> QED BY <3>1, <3>2 DEF TypeOK, Fates
  <2>2. OnePost /\ PinFits /\ StartsCounted
    BY DEF OnePost, PinFits, StartsCounted
  <2>3. SidecarKnows /\ LockOfUpdater
    BY DEF SidecarKnows, LockOfUpdater, Quiet
  <2> QED BY <2>1, <2>2, <2>3 DEF FilesCoordinate
<1>2. FilesCoordinate /\ [Next]_vars => FilesCoordinate'
  BY OnePostStep, PinFitsStep, SidecarKnowsStep, StartsCountedStep, TypeStep,
     LockOfUpdaterStep DEF FilesCoordinate
<1> QED BY <1>1, <1>2, PTL DEF Spec

\* The busy file is there as long as the container of an update
\* (update-watcher.sh:36-46, 84-91).
THEOREM BusyCovers == Spec => []BusyCoversUpdater
<1>1. FilesCoordinate => BusyCoversUpdater
  BY DEF FilesCoordinate, SidecarKnows, BusyCoversUpdater
<1> QED BY <1>1, Coordination, PTL

\* Containers are started for accepted requests only, one each, and one more for
\* each restart (update-watcher.sh:80-91).
THEOREM StartedOnce == Spec => []RunsOnce
<1>1. FilesCoordinate => RunsOnce
  BY DEF FilesCoordinate, TypeOK, StartsCounted, RunsOnce
<1> QED BY <1>1, Coordination, PTL

\* The release that is installed is the one that the accepted request pinned
\* (self-update-signal.ts:26-49).
THEOREM PinInstalled == Spec => PinWins
<1>1. FilesCoordinate /\ [Next]_vars => [started' > started => tag' = pinned]_vars
  <2> SUFFICES ASSUME FilesCoordinate, Next, started' > started PROVE tag' = pinned
    OBVIOUS
  <2>1. started \in Nat
    BY DEF FilesCoordinate, TypeOK
  <2>2. ASSUME NEW p \in Posts, Post(p) \/ PostStep(p) PROVE started' = started
    BY <2>2 DEF PostStep, Post, StatusKnown, CheckSignal, writeUpdateTarget,
       writeUpdateRequest, WriteThrows, Retract
  <2>3. ASSUME NEW s \in Scripts, ScriptStep(s) \/ CliStart(s) \/ Kill(s)
        PROVE  started' = started
    BY <2>3 DEF ScriptStep, Mkdir, Sign, Judge, ClearStale, MkdirAgain, ComposeUp,
       Exit, CliStart, Kill
  <2>4. ASSUME BootAnnounced \/ AppRestart \/ WatcherRestart PROVE started' = started
    BY <2>4 DEF BootAnnounced, AppRestart, WatcherRestart
  <2>5. ASSUME WatcherStep, ~Started PROVE started' = started
    BY <2>5 DEF WatcherStep, Look, DropRequest, SetLock, StartFails, Consume, Unlock,
       sync_lock, SyncWrites
  <2>6. Started
    BY <2>1, <2>2, <2>3, <2>4, <2>5 DEF Next
  <2> QED BY <2>6 DEF Started, FilesCoordinate, SidecarKnows, PinFits
<1> QED BY <1>1, Coordination, PTL DEF Spec, PinWins

\* Only a run on the host or a killed script makes the sidecar drop a request that
\* the app accepted (update-watcher.sh:80-82, self-update-service.ts:311-322).
THEOREM DroppedSeldom == Spec => DroppedForOthersOnly
<1>1. FilesCoordinate /\ [Next]_vars
      => [fate' = "dropped" /\ fate = "waiting" => cliRuns > 0 \/ kills > 0]_vars
  <2> SUFFICES ASSUME FilesCoordinate, Next, fate' = "dropped", fate = "waiting"
               PROVE  cliRuns > 0 \/ kills > 0
    OBVIOUS
  <2>1. ASSUME NEW p \in Posts, Post(p) \/ PostStep(p) PROVE fate' /= "dropped"
    BY <2>1 DEF PostStep, Post, StatusKnown, CheckSignal, writeUpdateTarget,
       writeUpdateRequest, WriteThrows, Retract
  <2>2. ASSUME NEW s \in Scripts, ScriptStep(s) \/ CliStart(s) \/ Kill(s)
        PROVE  fate' = fate
    BY <2>2 DEF ScriptStep, Mkdir, Sign, Judge, ClearStale, MkdirAgain, ComposeUp,
       Exit, CliStart, Kill
  <2>3. ASSUME BootAnnounced \/ AppRestart \/ WatcherRestart PROVE fate' = fate
    BY <2>3 DEF BootAnnounced, AppRestart, WatcherRestart
  <2>4. ASSUME WatcherStep, ~DropRequest PROVE fate' /= "dropped"
    BY <2>4 DEF WatcherStep, Look, SetLock, Started, StartFails, Consume, Unlock,
       sync_lock, SyncWrites
  <2>5. watcher = "drop"
    BY <2>1, <2>2, <2>3, <2>4 DEF Next, DropRequest
  <2>6. ~Quiet
    BY <2>5 DEF FilesCoordinate, LockOfUpdater
  <2>7. cliRuns \in Nat /\ kills \in Nat
    BY DEF FilesCoordinate, TypeOK
  <2> QED BY <2>6, <2>7 DEF Quiet
<1> QED BY <1>1, Coordination, PTL DEF Spec, DroppedForOthersOnly

=============================================================================
