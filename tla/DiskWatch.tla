----------------------------- MODULE DiskWatch -----------------------------
(***************************************************************************)
(* The disk alerts of disk-watch.ts and disk-alerts.ts beside the probe    *)
(* scheduler: every five minutes a cycle asks the guests of the hosts that *)
(* are not known to be down how full their disks are, at most `Limit` a    *)
(* host, in turns; an alert goes out at the alert level, and the next one  *)
(* only after the disk was below the clear level, or after a cycle without *)
(* a sample of it, for then the flag is dropped.  What was alerted is kept *)
(* in a row of the settings.  (cpu-temp-watch.ts has the same shape.)      *)
(***************************************************************************)
EXTENDS HostReconnect, Sequences, SequencesExt

CONSTANTS
  Guests, \* guests[h]: the guests of host h, in the order of its inventory
  Limit   \* how many of them a cycle asks (DISK_AGENT_LIMIT)

Disks == UNION {Range(Guests[h]) : h \in Hosts}

ASSUME DiskAssumption ==
  /\ \A h \in Hosts : Len(Guests[h]) \in Nat
  /\ \A h \in Hosts : \A i, j \in 1..Len(Guests[h]) :
       Guests[h][i] = Guests[h][j] => i = j
  /\ \A h, k \in Hosts : h # k => Range(Guests[h]) \cap Range(Guests[k]) = {}
  /\ Limit \in Nat \ {0}

VARIABLES
  level,    \* external: level[d]: "off", "low", "mid" (between clear and alert), "high"
  watch,    \* "wait", "scan", "save"
  pending,  \* hosts the cycle still asks
  sample,   \* sample[d]: what the cycle has read; "off" while nothing
  offset,   \* agentOffsets
  notified, \* the stored flags
  next,     \* the flags the cycle is about to store
  told,     \* history: an alert went out, and the disk was not below the clear
            \* level since
  gap       \* history: ... but a cycle got no sample of the disk since, or the
            \* flag of the alert was not stored

diskVars == <<level, watch, pending, sample, offset, notified, next, told, gap>>
vars == <<hostVars, schedule, events, diskVars>>
hostSide == <<hostVars, schedule>>

Levels == {"off", "low", "mid", "high"}

TypeOK ==
  /\ ReconnectTypeOK
  /\ level \in [Disks -> Levels] /\ sample \in [Disks -> Levels]
  /\ watch \in {"wait", "scan", "save"} /\ pending \subseteq Hosts
  /\ offset \in [Hosts -> Nat]
  /\ \A h \in Hosts : offset[h] > 0 => offset[h] < Len(Guests[h])
  /\ {notified, next, told, gap} \subseteq SUBSET Disks

Nothing == [d \in Disks |-> "off"]

Init ==
  /\ ReconnectInit
  /\ level \in [Disks -> {"off", "low", "high"}] /\ watch = "wait" /\ pending = {}
  /\ sample = Nothing /\ offset = [h \in Hosts |-> 0]
  /\ notified = {} /\ next = {} /\ told = {} /\ gap = {}

(***************************** The watcher *********************************)

\* A cycle reads the settings and the hosts; others than these are skipped.
Begin ==
  /\ watch = "wait" /\ watch' = "scan"
  /\ pending' = {h \in Hosts : row[h] \in {"ONLINE", "CONNECTING"}}
  /\ UNCHANGED <<hostSide, events, level, sample, offset, notified, next, told, gap>>

\* A guest's place among the guests that must be asked, which are given by
\* where they stand in the inventory.
Place(need, i) == Cardinality({j \in need : j < i})

Turn(need, at, n) ==
  {i \in need : \E k \in 0..(n - 1) : Place(need, i) = (at + k) % Cardinality(need)}

\* Mutant of NextOffset: the turn does not go round.
NextOffsetPlain(need, at) == IF Cardinality(need) <= Limit THEN 0 ELSE at + Limit

\* Mutant of NextOffset: every cycle begins at the same guest.
NextOffsetZero(need, at) == 0

NextOffset(need, at) ==
  IF Cardinality(need) <= Limit THEN 0 ELSE (at + Limit) % Cardinality(need)

\* takeRotated
Picked(need, at) == IF Cardinality(need) <= Limit THEN need ELSE Turn(need, at, Limit)

\* The running guests of a host are asked, in turns; guests that a page has
\* asked just now are read from the cache and take no turn.  An agent may not
\* answer, and a host that is down answers nothing.
Scan(h) ==
  /\ h \in pending /\ pending' = pending \ {h}
  /\ \E cached \in SUBSET Range(Guests[h]), silent \in SUBSET Range(Guests[h]) :
       LET on   == {d \in Range(Guests[h]) : level[d] # "off"}
           need == {i \in 1..Len(Guests[h]) : Guests[h][i] \in on \ cached}
           asked == {Guests[h][i] : i \in Picked(need, offset[h])}
           read == ((on \cap cached) \cup asked) \ silent
       IN /\ cached \subseteq on /\ silent \subseteq asked
          /\ IF cached \cup silent = {} THEN UNCHANGED events ELSE up[h] /\ Event
          /\ IF up[h]
               THEN /\ sample' = [d \in Disks |-> IF d \in read THEN level[d] ELSE sample[d]]
                    /\ offset' = [offset EXCEPT ![h] = NextOffset(need, @)]
               ELSE UNCHANGED <<sample, offset>>
  /\ UNCHANGED <<hostSide, level, watch, notified, next, told, gap>>

\* Mutant of Apply: the flag goes as soon as the disk is below the alert level.
ApplyPlain(flag, l) == l = "high"

\* applyDiskWatchState: the flag after a sample (an alert is sent when it rises).
Apply(flag, l) == l = "high" \/ (l = "mid" /\ flag)

Sampled == {d \in Disks : sample[d] # "off"}

\* remember: only the disks with a sample keep their flag; the alerts go out ...
Remember ==
  /\ watch = "scan" /\ pending = {}
  /\ LET flags == {d \in Sampled : Apply(d \in notified, sample[d])}
         rings == {d \in flags : d \notin notified}
     IN /\ next' = flags
        /\ told' = {d \in told : sample[d] # "low"} \cup rings
        /\ gap' = {d \in gap \cup (told \ Sampled) : sample[d] # "low"} \ rings
  /\ watch' = "save" /\ sample' = Nothing
  /\ UNCHANGED <<hostSide, events, level, pending, offset, notified>>

\* ... and then the flags are stored, or cannot be: the cycle has failed.
Save ==
  /\ watch = "save" /\ watch' = "wait" /\ next' = {}
  /\ \/ notified' = next /\ UNCHANGED <<gap, events>>
     \/ Event /\ gap' = gap \cup (told \ notified) /\ UNCHANGED notified
  /\ UNCHANGED <<hostSide, level, pending, sample, offset, told>>

\* How full a disk is changes, or its guest is stopped or started.
DiskChanges(d) ==
  /\ Event
  /\ \E l \in Levels \ {level[d]} :
       /\ level' = [level EXCEPT ![d] = l]
       /\ IF l = "low" THEN told' = told \ {d} /\ gap' = gap \ {d}
                       ELSE UNCHANGED <<told, gap>>
  /\ UNCHANGED <<hostSide, watch, pending, sample, offset, notified, next>>

\* The process ends and is started again.
Crash ==
  /\ Event /\ Reboots
  /\ watch' = "wait" /\ pending' = {} /\ sample' = Nothing /\ next' = {}
  /\ offset' = [h \in Hosts |-> 0]
  /\ gap' = IF watch = "save" THEN gap \cup (told \ notified) ELSE gap
  /\ UNCHANGED <<up, row, level, notified, told>>

Next ==
  \/ ReconnectStep /\ UNCHANGED diskVars
  \/ Begin \/ Remember \/ Save \/ Crash
  \/ \E h \in Hosts : Scan(h)
  \/ \E d \in Disks : DiskChanges(d)

Spec == Init /\ [][Next]_vars

\* Timers fire, and calls are answered or time out.
FairSpec ==
  /\ Spec
  /\ WF_vars(Fire /\ UNCHANGED diskVars) /\ WF_vars(ListHosts /\ UNCHANGED diskVars)
  /\ WF_vars(CycleEnds /\ UNCHANGED diskVars) /\ WF_vars(ArmNext /\ UNCHANGED diskVars)
  /\ WF_vars(Begin) /\ WF_vars(Remember) /\ WF_vars(Save)
  /\ \A h \in Hosts : WF_vars(Scan(h)) /\ WF_vars(Probe(h) /\ UNCHANGED diskVars)

(***************************** Properties **********************************)

\* The scheduler stands still only after the query for the next delay failed
\* (host-reconnect.ts:43), not by the way tick, its finally and
\* requestHostReconnect hand over to each other through running, kickSoon and
\* the one timer.
StopsOnlyUnanswered == Stopped => unanswered

\* A kick is not forgotten: until the next cycle begins there is a short timer,
\* or the cycle that runs will arm one.  The one exception is the code's: a
\* kick between the end of a cycle and the answer to its query.
KickIsKept == kicked /\ ~lost => timer = "kick" \/ (running /\ kickSoon)

\* A host that stays up and out of maintenance is ONLINE in the end, for good,
\* unless the scheduler has stopped for good.
HostReturns ==
  \A h \in Hosts :
    <>[](up[h] /\ row[h] # "MAINTENANCE") => <>[](row[h] = "ONLINE") \/ <>[]Stopped

Rings == {d \in next' \ notified : watch = "scan" /\ watch' = "save"}

\* CHANGELOG.md:1287: a disk is alerted once, until its usage drops below the
\* clear level.
AlertOnce == [][\A d \in Rings : d \notin told]_vars

\* Samples between the levels, failing saves and restarts in a row do not make
\* an alert repeat: it does so only after a cycle without a sample of the disk
\* or when its flag was not stored (disk-alerts.ts:151, disk-watch.ts:46).
AlertOnceWhileSampled == [][\A d \in Rings : d \in told => d \in gap]_vars

\* A disk that stays full, on a host that is up and out of maintenance, is
\* alerted, unless the scheduler has stopped for good: it brings the host back, and
\* the turns reach the guest.
AlertComes ==
  \A h \in Hosts : \A d \in Range(Guests[h]) :
    <>[](up[h] /\ row[h] # "MAINTENANCE" /\ level[d] = "high") =>
      []<>(d \in notified) \/ <>[]Stopped

=============================================================================
