-------------------------- MODULE DiskWatch_proofs --------------------------
(* Proofs about DiskWatch, and the probe scheduler inside it, for every set *)
(* of hosts and guests and every bound.                                     *)
EXTENDS DiskWatch, FiniteSetTheorems, TLAPS

USE ReconnectAssumption
USE DEF hostVars, schedule, hostSide, diskVars, Event, running, Stopped

\* A kick that is kept was taken while no query was under way, and until the
\* next cycle begins none follows: the cycle that runs ends with a kick.
KickPending == kicked /\ ~lost => kickSoon /\ counting = 0

SchedulerInv == ReconnectTypeOK /\ StopsOnlyUnanswered /\ KickIsKept /\ KickPending

\* A disk that was told, and had a sample in each cycle since, keeps its flag: in
\* the store or on its way there.
ToldFlagged ==
  IF watch = "save" THEN told \ gap \subseteq next ELSE told \ gap \subseteq notified

WatchInv ==
  /\ level \in [Disks -> Levels] /\ sample \in [Disks -> Levels]
  /\ told \subseteq Disks /\ gap \subseteq Disks
  /\ ToldFlagged

\* The steps of the watcher alone.
WatchStep == Begin \/ Remember \/ Save \/ (\E h \in Hosts : Scan(h))
                   \/ (\E d \in Disks : DiskChanges(d))

\* The watcher leaves the scheduler and the rows alone.
LEMMA WatcherReads ==
  ASSUME WatchStep
  PROVE  UNCHANGED hostSide /\ (events' = events \/ Event)
<1>1. ASSUME NEW h \in Hosts, Scan(h) PROVE UNCHANGED hostSide /\ (events' = events \/ Event)
  BY <1>1 DEF Scan
<1>2. ASSUME NEW d \in Disks, DiskChanges(d) PROVE UNCHANGED hostSide /\ (events' = events \/ Event)
  BY <1>2 DEF DiskChanges
<1> QED BY <1>1, <1>2 DEF WatchStep, Begin, Remember, Save

\* The scheduler and its hosts start with their types, with a cycle.
LEMMA SchedulerInit == Init => SchedulerInv
<1> SUFFICES ASSUME ReconnectInit PROVE SchedulerInv
  BY DEF Init
<1> USE DEF ReconnectInit
<1>1. /\ up \in [Hosts -> BOOLEAN] /\ row \in [Hosts -> Rows]
      /\ request \in [Hosts -> [read : Rows, here : BOOLEAN] \cup {Nobody}]
  OBVIOUS
<1>2. /\ timer \in {"none", "kick", "reconnect", "health"}
      /\ cycle \in {"idle", "list", "probe"} /\ todo \subseteq Hosts
      /\ kickSoon \in BOOLEAN /\ kicked \in BOOLEAN /\ lost \in BOOLEAN /\ unanswered \in BOOLEAN
  OBVIOUS
<1>3. counting \in 0..MaxCounts /\ events \in 0..MaxEvents
  OBVIOUS
<1>4. ReconnectTypeOK
  BY <1>1, <1>2, <1>3 DEF ReconnectTypeOK
<1>5. StopsOnlyUnanswered /\ KickIsKept /\ KickPending
  BY DEF StopsOnlyUnanswered, KickIsKept, KickPending
<1> QED BY <1>4, <1>5 DEF SchedulerInv

\* Every step, one by one, keeps the types of the scheduler.
LEMMA ReconnectTypeStep ==
  ASSUME ReconnectTypeOK, [Next]_vars
  PROVE  ReconnectTypeOK'
<1> USE DEF ReconnectTypeOK
<1>1. ASSUME Fire PROVE ReconnectTypeOK'
  BY <1>1 DEF Fire
<1>2. ASSUME ListHosts PROVE ReconnectTypeOK'
  BY <1>2 DEF ListHosts, Listed
<1>3. ASSUME CycleEnds PROVE ReconnectTypeOK'
  <2>1. /\ UNCHANGED <<up, row, request, todo, kickSoon, kicked, lost, events>>
        /\ cycle' = "idle" /\ unanswered' = FALSE
    BY <1>3 DEF CycleEnds
  <2>2. timer' \in {"none", "kick", "reconnect", "health"} /\ counting' \in 0..MaxCounts
    BY <1>3 DEF CycleEnds, Rearm
  <2> QED BY <2>1, <2>2
<1>4. ASSUME ArmNext PROVE ReconnectTypeOK'
  <2>1. /\ UNCHANGED <<up, row, request, cycle, todo, kickSoon, kicked, lost, events>>
        /\ unanswered' = FALSE
    BY <1>4 DEF ArmNext
  <2>2. timer' \in {"none", "kick", "reconnect", "health"} /\ counting' \in 0..MaxCounts
    BY <1>4 DEF ArmNext, NextDelay
  <2> QED BY <2>1, <2>2
<1>5. ASSUME NEW h \in Hosts, Probe(h) PROVE ReconnectTypeOK'
  BY <1>5 DEF Probe, Rows
<1>6. ASSUME NEW h \in Hosts, RequestBegins(h) PROVE ReconnectTypeOK'
  BY <1>6 DEF RequestBegins
<1>7. ASSUME NEW h \in Hosts, RequestEnds(h) PROVE ReconnectTypeOK'
  <2>1. /\ row' \in [Hosts -> Rows]
        /\ request' \in [Hosts -> [read : Rows, here : BOOLEAN] \cup {Nobody}]
        /\ up' \in [Hosts -> BOOLEAN] /\ events' \in 0..MaxEvents
    BY <1>7 DEF RequestEnds, Rows
  <2>2. UNCHANGED schedule \/ Kick
    BY <1>7 DEF RequestEnds
  <2>3. /\ timer' \in {"none", "kick", "reconnect", "health"}
        /\ cycle' \in {"idle", "list", "probe"} /\ todo' \subseteq Hosts
        /\ counting' \in 0..MaxCounts
    BY <2>2 DEF Kick
  <2>4. kickSoon' \in BOOLEAN /\ kicked' \in BOOLEAN /\ lost' \in BOOLEAN /\ unanswered' \in BOOLEAN
    BY <2>2 DEF Kick
  <2> QED BY <2>1, <2>3, <2>4
<1>8. ASSUME NEW h \in Hosts, Test(h) PROVE ReconnectTypeOK'
  BY <1>8 DEF Test, Rows
<1>9. ASSUME NEW h \in Hosts, HostChanges(h) PROVE ReconnectTypeOK'
  <2>1. up' \in [Hosts -> BOOLEAN]
    BY <1>9 DEF HostChanges
  <2>2. row' \in [Hosts -> Rows]
    BY <1>9 DEF HostChanges, Rows
  <2>3. events' \in 0..MaxEvents
    BY <1>9 DEF HostChanges
  <2>4. UNCHANGED <<request, schedule>>
    BY <1>9 DEF HostChanges
  <2> QED BY <2>1, <2>2, <2>3, <2>4
<1>10. ASSUME Crash PROVE ReconnectTypeOK'
  <2>1. /\ UNCHANGED <<up, row>> /\ request' = [h \in Hosts |-> Nobody]
        /\ timer' = "none" /\ cycle' = "list" /\ todo' = {} /\ counting' = 0
    BY <1>10 DEF Crash, Reboots
  <2>2. kickSoon' \in BOOLEAN /\ kicked' \in BOOLEAN /\ lost' \in BOOLEAN /\ unanswered' \in BOOLEAN
    BY <1>10 DEF Crash, Reboots
  <2>3. events' \in 0..MaxEvents
    BY <1>10 DEF Crash
  <2>4. request' \in [Hosts -> [read : Rows, here : BOOLEAN] \cup {Nobody}]
    BY <2>1
  <2>5. counting' \in 0..MaxCounts
    BY <2>1
  <2> QED BY <2>1, <2>2, <2>3, <2>4, <2>5
<1>11. ASSUME WatchStep PROVE ReconnectTypeOK'
  BY <1>11, WatcherReads
<1>12. CASE UNCHANGED vars
  BY <1>12 DEF vars
<1>13. ASSUME ArmFails PROVE ReconnectTypeOK'
  BY <1>13 DEF ArmFails
<1> QED BY <1>1, <1>2, <1>3, <1>4, <1>5, <1>6, <1>7, <1>8, <1>9, <1>10,
       <1>11, <1>12, <1>13 DEF Next, ReconnectStep, WatchStep

\* Every step but a failing query hands the scheduler over: to the timer, a cycle
\* or a query.
LEMMA SchedulerStep ==
  ASSUME SchedulerInv, [Next]_vars
  PROVE  (StopsOnlyUnanswered /\ KickIsKept /\ KickPending)'
<1> USE DEF SchedulerInv, ReconnectTypeOK, StopsOnlyUnanswered, KickIsKept, KickPending
<1>1. ASSUME Fire PROVE (StopsOnlyUnanswered /\ KickIsKept /\ KickPending)'
  BY <1>1 DEF Fire
<1>2. ASSUME CycleEnds PROVE (StopsOnlyUnanswered /\ KickIsKept /\ KickPending)'
  BY <1>2 DEF CycleEnds, Rearm
<1>3. ASSUME ArmNext PROVE (StopsOnlyUnanswered /\ KickIsKept /\ KickPending)'
  <2>1. timer' \in {"reconnect", "health"}
    BY <1>3 DEF ArmNext, NextDelay
  <2>2. ~(kicked /\ ~lost)
    BY <1>3 DEF ArmNext
  <2> QED BY <1>3, <2>1, <2>2 DEF ArmNext
<1>4. ASSUME NEW h \in Hosts, RequestEnds(h)
      PROVE  (StopsOnlyUnanswered /\ KickIsKept /\ KickPending)'
  BY <1>4 DEF RequestEnds, Kick
<1>5. ASSUME NEW h \in Hosts, Probe(h) \/ RequestBegins(h) \/ Test(h) \/ HostChanges(h)
      PROVE  (StopsOnlyUnanswered /\ KickIsKept /\ KickPending)'
  BY <1>5 DEF Probe, RequestBegins, Test, HostChanges
<1>6. ASSUME ListHosts PROVE (StopsOnlyUnanswered /\ KickIsKept /\ KickPending)'
  BY <1>6 DEF ListHosts
<1>7. ASSUME Crash PROVE (StopsOnlyUnanswered /\ KickIsKept /\ KickPending)'
  BY <1>7 DEF Crash, Reboots
<1>8. ASSUME WatchStep PROVE (StopsOnlyUnanswered /\ KickIsKept /\ KickPending)'
  BY <1>8, WatcherReads
<1>9. CASE UNCHANGED vars
  BY <1>9 DEF vars
<1>10. ASSUME ArmFails PROVE (StopsOnlyUnanswered /\ KickIsKept /\ KickPending)'
  BY <1>10 DEF ArmFails
<1> QED BY <1>1, <1>2, <1>3, <1>4, <1>5, <1>6, <1>7, <1>8, <1>9, <1>10
       DEF Next, ReconnectStep, WatchStep

LEMMA SchedulerInvariant == Spec => []SchedulerInv
<1>1. SchedulerInv /\ [Next]_vars => SchedulerInv'
  BY ReconnectTypeStep, SchedulerStep DEF SchedulerInv
<1> QED BY SchedulerInit, <1>1, PTL DEF Spec

\* Whatever else fails, is kicked or overtakes, the scheduler stands still only
\* because the query for the next delay failed, after the last cycle and the last
\* kick (host-reconnect.ts:38-44).
THEOREM NeverStopsOtherwise == Spec => []StopsOnlyUnanswered
<1>1. SchedulerInv => StopsOnlyUnanswered
  BY DEF SchedulerInv
<1> QED BY SchedulerInvariant, <1>1, PTL

\* A kick leads to a short timer or a cycle that arms one, for any number of
\* hosts, requests and overlapping queries, except for the kick that meets
\* a query for the next delay (host-reconnect.ts:44).
THEOREM KicksHold == Spec => []KickIsKept
<1>1. SchedulerInv => KickIsKept
  BY DEF SchedulerInv
<1> QED BY SchedulerInvariant, <1>1, PTL

\* Levels and samples keep their type.
LEMMA LevelsStep ==
  ASSUME WatchInv, [Next]_vars
  PROVE  level' \in [Disks -> Levels] /\ sample' \in [Disks -> Levels]
<1> USE DEF WatchInv
<1>1. ASSUME NEW h \in Hosts, Scan(h)
      PROVE  level' \in [Disks -> Levels] /\ sample' \in [Disks -> Levels]
  <2>1. level' = level
    BY <1>1 DEF Scan
  <2>2. PICK read : sample' \in {sample, [d \in Disks |-> IF d \in read THEN level[d] ELSE sample[d]]}
    BY <1>1 DEF Scan
  <2> QED BY <2>1, <2>2
<1>2. ASSUME NEW d \in Disks, DiskChanges(d)
      PROVE  level' \in [Disks -> Levels] /\ sample' \in [Disks -> Levels]
  BY <1>2 DEF DiskChanges
<1>3. ASSUME Begin \/ Save PROVE UNCHANGED <<level, sample>>
  BY <1>3 DEF Begin, Save
<1>4. ASSUME Remember \/ Crash
      PROVE  level' \in [Disks -> Levels] /\ sample' \in [Disks -> Levels]
  BY <1>4 DEF Remember, Crash, Nothing, Levels
<1>5. ASSUME ReconnectStep /\ UNCHANGED diskVars PROVE UNCHANGED <<level, sample>>
  BY <1>5
<1>6. CASE UNCHANGED vars
  BY <1>6 DEF vars
<1> QED BY <1>1, <1>2, <1>3, <1>4, <1>5, <1>6 DEF Next

\* What the cycle makes of the flags covers the disks that were told.
LEMMA RememberKeeps ==
  ASSUME WatchInv, Remember
  PROVE  /\ told' \ gap' \subseteq next' /\ told' \subseteq Disks /\ gap' \subseteq Disks
         /\ \A d \in next' \ notified : d \in told => d \in gap
<1> DEFINE flags == {d \in Sampled : Apply(d \in notified, sample[d])}
           rings == {d \in flags : d \notin notified}
<1>1. /\ watch = "scan" /\ next' = flags
      /\ told' = {d \in told : sample[d] # "low"} \cup rings
      /\ gap' = {d \in gap \cup (told \ Sampled) : sample[d] # "low"} \ rings
  BY DEF Remember
<1>2. told \ gap \subseteq notified /\ told \subseteq Disks /\ gap \subseteq Disks
  BY <1>1 DEF WatchInv, ToldFlagged
<1>3. ASSUME NEW d \in told' \ gap' PROVE d \in flags
  <2>1. CASE d \in rings
    BY <2>1
  <2>2. CASE d \notin rings
    <3>1. d \in told /\ d \notin gap /\ d \in Sampled /\ sample[d] # "low"
      BY <1>1, <1>3, <2>2
    <3>2. d \in notified /\ sample[d] \in {"mid", "high"}
      BY <1>2, <3>1 DEF WatchInv, Sampled, Levels
    <3> QED BY <3>1, <3>2 DEF Apply
  <2> QED BY <2>1, <2>2
<1>4. rings \subseteq Disks
  BY DEF Sampled
<1> HIDE DEF flags, rings
<1> QED BY <1>1, <1>2, <1>3, <1>4

\* The flags of the disks that were told survive every step but a failed save.
LEMMA ToldStep ==
  ASSUME WatchInv, [Next]_vars
  PROVE  told' \subseteq Disks /\ gap' \subseteq Disks /\ ToldFlagged'
<1> USE DEF WatchInv, ToldFlagged
<1>1. ASSUME Begin PROVE told' \subseteq Disks /\ gap' \subseteq Disks /\ ToldFlagged'
  BY <1>1 DEF Begin
<1>2. ASSUME NEW h \in Hosts, Scan(h) PROVE told' \subseteq Disks /\ gap' \subseteq Disks /\ ToldFlagged'
  BY <1>2 DEF Scan
<1>3. ASSUME Remember PROVE told' \subseteq Disks /\ gap' \subseteq Disks /\ ToldFlagged'
  BY <1>3, RememberKeeps DEF Remember
<1>4. ASSUME Save PROVE told' \subseteq Disks /\ gap' \subseteq Disks /\ ToldFlagged'
  BY <1>4 DEF Save
<1>5. ASSUME NEW d \in Disks, DiskChanges(d) PROVE told' \subseteq Disks /\ gap' \subseteq Disks /\ ToldFlagged'
  BY <1>5 DEF DiskChanges
<1>6. ASSUME Crash PROVE told' \subseteq Disks /\ gap' \subseteq Disks /\ ToldFlagged'
  BY <1>6 DEF Crash
<1>7. ASSUME ReconnectStep /\ UNCHANGED diskVars PROVE told' \subseteq Disks /\ gap' \subseteq Disks /\ ToldFlagged'
  BY <1>7
<1>8. CASE UNCHANGED vars
  BY <1>8 DEF vars
<1> QED BY <1>1, <1>2, <1>3, <1>4, <1>5, <1>6, <1>7, <1>8 DEF Next

\* An alert for a disk that was not below the clear level since the last one has
\* one of two reasons, both the code's own: a cycle got no sample of the disk
\* (disk-watch.ts:46), or the flag was not stored.  Hovering between the levels,
\* other disks and restarts are none.
THEOREM AlertedOnce == Spec => AlertOnceWhileSampled
<1>1. Init => WatchInv
  BY DEF Init, WatchInv, ToldFlagged, Nothing, Levels
<1>2. WatchInv /\ [Next]_vars => WatchInv'
  BY LevelsStep, ToldStep DEF WatchInv
<1>3. WatchInv /\ [Next]_vars => [\A d \in Rings : d \in told => d \in gap]_vars
  <2> SUFFICES ASSUME WatchInv, Next, NEW d \in Rings, d \in told
               PROVE  d \in gap
    OBVIOUS
  <2>1. Remember
    BY DEF Rings, Next, Begin, Save, Crash, Scan, DiskChanges
  <2> QED BY <2>1, RememberKeeps DEF Rings
<1> QED BY <1>1, <1>2, <1>3, PTL DEF Spec, AlertOnceWhileSampled

(******************************** Turns ************************************)

\* The positions a host has are finitely many, and so are those to be asked.
LEMMA NeedFits ==
  ASSUME NEW h \in Hosts, NEW need \in SUBSET (1..Len(Guests[h]))
  PROVE  Cardinality(need) \in Nat /\ Cardinality(need) <= Len(Guests[h])
<1>1. Len(Guests[h]) \in Nat
  BY DiskAssumption
<1>2. IsFiniteSet(1..Len(Guests[h])) /\ Cardinality(1..Len(Guests[h])) = Len(Guests[h])
  BY <1>1, FS_Interval
<1>3. IsFiniteSet(need) /\ Cardinality(need) <= Len(Guests[h])
  BY <1>2, FS_Subset
<1> QED BY <1>3, FS_CardinalityType

\* The turn of a host goes round inside its inventory (disk-watch.ts:39).
LEMMA TurnGoesRound ==
  ASSUME NEW h \in Hosts, NEW need \in SUBSET (1..Len(Guests[h])), NEW at \in Nat
  PROVE  /\ NextOffset(need, at) \in Nat
         /\ NextOffset(need, at) > 0 => NextOffset(need, at) < Len(Guests[h])
<1> DEFINE n == Cardinality(need)
<1>1. n \in Nat /\ n <= Len(Guests[h]) /\ Len(Guests[h]) \in Nat
  BY NeedFits, DiskAssumption
<1>2. Limit \in Nat \ {0}
  BY DiskAssumption
<1>3. CASE n <= Limit
  BY <1>3 DEF NextOffset
<1>4. CASE ~(n <= Limit)
  <2>1. NextOffset(need, at) = (at + Limit) % n
    BY <1>4 DEF NextOffset
  <2>2. n > 0 /\ at + Limit \in Nat
    BY <1>1, <1>2, <1>4
  <2> HIDE DEF n
  <2>3. (at + Limit) % n \in 0..(n - 1)
    BY <1>1, <2>2
  <2> QED BY <1>1, <2>1, <2>3
<1> QED BY <1>3, <1>4

\* What the watcher keeps between its steps.
WatchTypeOK ==
  /\ watch \in {"wait", "scan", "save"} /\ pending \subseteq Hosts
  /\ offset \in [Hosts -> Nat]
  /\ \A h \in Hosts : offset[h] > 0 => offset[h] < Len(Guests[h])
  /\ {notified, next, told, gap} \subseteq SUBSET Disks

\* A scan leaves the offset of its host inside the inventory.
LEMMA ScanTypeStep ==
  ASSUME WatchTypeOK, NEW h \in Hosts, Scan(h)
  PROVE  WatchTypeOK'
<1> USE DEF WatchTypeOK
<1>1. /\ UNCHANGED <<watch, notified, next, told, gap>>
      /\ pending' \subseteq Hosts
  BY DEF Scan
<1>2. \/ offset' = offset
      \/ \E need \in SUBSET (1..Len(Guests[h])) :
           offset' = [offset EXCEPT ![h] = NextOffset(need, @)]
  <2>1. PICK cached \in SUBSET Range(Guests[h]) :
          LET need == {i \in 1..Len(Guests[h]) :
                         Guests[h][i] \in {d \in Range(Guests[h]) : level[d] # "off"} \ cached}
          IN \/ offset' = offset
             \/ offset' = [offset EXCEPT ![h] = NextOffset(need, @)]
    BY DEF Scan
  <2> QED BY <2>1
<1>3. CASE offset' = offset
  BY <1>1, <1>3
<1>4. ASSUME NEW need \in SUBSET (1..Len(Guests[h])),
             offset' = [offset EXCEPT ![h] = NextOffset(need, @)]
      PROVE  WatchTypeOK'
  <2>1. offset[h] \in Nat
    OBVIOUS
  <2>2. /\ NextOffset(need, offset[h]) \in Nat
        /\ NextOffset(need, offset[h]) > 0 => NextOffset(need, offset[h]) < Len(Guests[h])
    BY <2>1, TurnGoesRound
  <2>3. offset' \in [Hosts -> Nat]
    BY <1>4, <2>2
  <2>4. ASSUME NEW k \in Hosts, offset'[k] > 0
        PROVE  offset'[k] < Len(Guests[k])
    <3>1. CASE k = h
      BY <1>4, <2>2, <2>4, <3>1
    <3>2. CASE k # h
      BY <1>4, <2>4, <3>2
    <3> QED BY <3>1, <3>2
  <2> QED BY <1>1, <2>3, <2>4
<1> QED BY <1>2, <1>3, <1>4

\* Every step, one by one, keeps the types of the watcher.
LEMMA WatchTypeStep ==
  ASSUME WatchTypeOK, [Next]_vars
  PROVE  WatchTypeOK'
<1> USE DEF WatchTypeOK
<1>1. ASSUME Begin PROVE WatchTypeOK'
  BY <1>1 DEF Begin
<1>2. ASSUME NEW h \in Hosts, Scan(h) PROVE WatchTypeOK'
  BY <1>2, ScanTypeStep
<1>3. ASSUME Remember PROVE WatchTypeOK'
  <2>1. UNCHANGED <<pending, offset, notified>> /\ watch' = "save"
    BY <1>3 DEF Remember
  <2>2. next' \subseteq Disks /\ told' \subseteq Disks /\ gap' \subseteq Disks
    BY <1>3 DEF Remember, Sampled
  <2> QED BY <2>1, <2>2
<1>4. ASSUME Save PROVE WatchTypeOK'
  BY <1>4 DEF Save
<1>5. ASSUME NEW d \in Disks, DiskChanges(d) PROVE WatchTypeOK'
  BY <1>5 DEF DiskChanges
<1>6. ASSUME Crash PROVE WatchTypeOK'
  BY <1>6 DEF Crash
<1>7. ASSUME ReconnectStep /\ UNCHANGED diskVars PROVE WatchTypeOK'
  BY <1>7
<1>8. CASE UNCHANGED vars
  BY <1>8 DEF vars
<1> QED BY <1>1, <1>2, <1>3, <1>4, <1>5, <1>6, <1>7, <1>8 DEF Next

\* Everything keeps its type, and the turn that a host's guests have reached is
\* always one of its inventory (disk-watch.ts:32): for any number of guests, of
\* which other ones run and are cached in each cycle.
THEOREM TypeCorrect == Spec => []TypeOK
<1> DEFINE Inv == SchedulerInv /\ WatchInv /\ WatchTypeOK
<1>1. Init => Inv
  <2>1. Init => WatchInv
    BY DEF Init, WatchInv, ToldFlagged, Nothing, Levels
  <2>2. Init => WatchTypeOK
    BY DEF Init, WatchTypeOK
  <2> QED BY <2>1, <2>2, SchedulerInit
<1>2. Inv /\ [Next]_vars => Inv'
  BY ReconnectTypeStep, SchedulerStep, LevelsStep, ToldStep, WatchTypeStep
     DEF SchedulerInv, WatchInv
<1>3. Inv => TypeOK
  BY DEF SchedulerInv, WatchInv, WatchTypeOK, TypeOK
<1> QED BY <1>1, <1>2, <1>3, PTL DEF Spec

=============================================================================
