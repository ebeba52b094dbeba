--------------------------- MODULE HostReconnect ---------------------------
(***************************************************************************)
(* The probe scheduler of host-reconnect.ts with the hosts it looks after: *)
(* one timer, one cycle at a time, and requestHostReconnect, by which a    *)
(* request that finds a host gone asks for a probe soon.                   *)
(*                                                                         *)
(* `running` is cleared before the query that sets the next delay, so that *)
(* query may overlap a kick and even the cycle that the kick begins.  If it*)
(* fails, nobody catches it and nothing is armed.  The compiled API routes *)
(* hold a second copy of the module, whose scheduler never starts: their   *)
(* kicks do nothing.  How writes to a row race is the matter of HostState; *)
(* here an answer and its write are one step.                              *)
(***************************************************************************)
EXTENDS Naturals, FiniteSets

CONSTANTS
  Hosts,
  MaxCounts, \* bound: queries for the next delay under way at once
  MaxEvents  \* bound: hosts and guests that change, calls that fail, restarts

ASSUME ReconnectAssumption ==
  IsFiniteSet(Hosts) /\ MaxCounts \in Nat \ {0} /\ MaxEvents \in Nat

VARIABLES
  up,       \* external: up[h], does the node answer?
  row,      \* row[h]: connectionState
  request,  \* request[h]: the row a live request to h has read, and whether the
            \* server's own copy of the module serves it; or Nobody
  timer,    \* "none", or the delay it was armed with
  cycle,    \* "idle", "list" (probeAllHosts reads the hosts), "probe"
  todo,     \* hosts the cycle has yet to write
  kickSoon,
  counting, \* finished cycles that await their query for the next delay
  kicked,   \* history: a kick was taken and no cycle has begun since,
  lost,     \* history: ... and the kick came while such a query was under way
  unanswered, \* history: such a query failed, and neither a cycle's begin or
              \* end, a kick nor another answer has come since
  events

hostVars == <<up, row, request>>
schedule == <<timer, cycle, todo, kickSoon, counting, kicked, lost, unanswered>>

Rows == {"ONLINE", "ERROR", "MAINTENANCE", "CONNECTING"}
Nobody == [read |-> "none", here |-> FALSE]

ReconnectTypeOK ==
  /\ up \in [Hosts -> BOOLEAN] /\ row \in [Hosts -> Rows]
  /\ request \in [Hosts -> [read : Rows, here : BOOLEAN] \cup {Nobody}]
  /\ timer \in {"none", "kick", "reconnect", "health"}
  /\ cycle \in {"idle", "list", "probe"} /\ todo \subseteq Hosts
  /\ kickSoon \in BOOLEAN /\ counting \in 0..MaxCounts
  /\ kicked \in BOOLEAN /\ lost \in BOOLEAN /\ unanswered \in BOOLEAN
  /\ events \in 0..MaxEvents

\* startHostReconnectScheduler begins the first cycle at once.
ReconnectInit ==
  /\ up \in [Hosts -> BOOLEAN] /\ row \in [Hosts -> Rows]
  /\ request = [h \in Hosts |-> Nobody]
  /\ timer = "none" /\ cycle = "list" /\ todo = {} /\ kickSoon = FALSE
  /\ counting = 0 /\ kicked = FALSE /\ lost = FALSE /\ unanswered = FALSE
  /\ events = 0

Event == events < MaxEvents /\ events' = events + 1
running == cycle # "idle"

\* Nothing is under way and nothing is armed.
Stopped == timer = "none" /\ ~running /\ counting = 0

\* The process ends and is started again.
Reboots ==
  /\ timer' = "none" /\ cycle' = "list" /\ todo' = {} /\ kickSoon' = FALSE
  /\ counting' = 0 /\ kicked' = FALSE /\ lost' = FALSE /\ unanswered' = FALSE
  /\ request' = [h \in Hosts |-> Nobody]

(***************************** The scheduler *******************************)

\* The timer fires tick(): a cycle begins, unless one is running.
Fire ==
  /\ timer # "none" /\ timer' = "none"
  /\ \/ ~running /\ cycle' = "list" /\ kickSoon' = FALSE
        /\ kicked' = FALSE /\ lost' = FALSE /\ unanswered' = FALSE
     \/ running /\ kickSoon' = TRUE /\ UNCHANGED <<cycle, kicked, lost, unanswered>>
  /\ UNCHANGED <<hostVars, todo, counting, events>>

\* Mutant of Listed: hosts that failed are left alone.
ListedHealthy == {h \in Hosts : row[h] = "ONLINE"}

\* Hosts in maintenance are not probed.
Listed == {h \in Hosts : row[h] # "MAINTENANCE"}

\* The cycle reads the hosts; when that fails it ends without a probe.
ListHosts ==
  /\ cycle = "list" /\ cycle' = "probe"
  /\ \/ todo' = Listed /\ UNCHANGED events
     \/ todo' = {} /\ Event
  /\ UNCHANGED <<hostVars, timer, kickSoon, counting, kicked, lost, unanswered>>

\* A test ends and its result is written, whatever the row is by now; or the
\* test fails although the host is up; or the write fails, and the cycle with it.
Probe(h) ==
  /\ h \in todo
  /\ \/ /\ row' = [row EXCEPT ![h] = IF up[h] THEN "ONLINE" ELSE "ERROR"]
        /\ todo' = todo \ {h} /\ UNCHANGED events
     \/ up[h] /\ row' = [row EXCEPT ![h] = "ERROR"] /\ todo' = todo \ {h} /\ Event
     \/ todo' = {} /\ UNCHANGED row /\ Event
  /\ UNCHANGED <<up, request, timer, cycle, kickSoon, counting, kicked, lost, unanswered>>

\* Mutant of Rearm: after a kick during the cycle nothing is armed.
RearmNothing ==
  \/ kickSoon /\ UNCHANGED <<timer, counting>>
  \/ ~kickSoon /\ counting < MaxCounts /\ counting' = counting + 1 /\ UNCHANGED timer

\* Mutant of Rearm: a kick during the cycle is forgotten.
RearmDeaf == counting < MaxCounts /\ counting' = counting + 1 /\ UNCHANGED timer

\* After a kick the timer is short; otherwise a query gives the next delay.
Rearm ==
  \/ kickSoon /\ timer' = "kick" /\ UNCHANGED counting
  \/ ~kickSoon /\ counting < MaxCounts /\ counting' = counting + 1 /\ UNCHANGED timer

\* The finally of tick().
CycleEnds ==
  /\ cycle = "probe" /\ todo = {} /\ cycle' = "idle"
  /\ Rearm /\ unanswered' = FALSE
  /\ UNCHANGED <<hostVars, todo, kickSoon, kicked, lost, events>>

\* nextHostProbeDelayMs
NextDelay == IF \E h \in Hosts : row[h] \notin {"ONLINE", "MAINTENANCE"}
               THEN "reconnect" ELSE "health"

\* The query has answered: arm() replaces whatever timer there is.
ArmNext ==
  /\ counting > 0 /\ counting' = counting - 1
  /\ timer' = NextDelay /\ unanswered' = FALSE
  /\ UNCHANGED <<hostVars, cycle, todo, kickSoon, kicked, lost, events>>

\* The query fails.  Nobody awaits tick() or catches its rejection: nothing is
\* armed, and a timer that a kick has armed meanwhile stays.  (Where a rejection
\* that nobody handles ends the process, it is a restart.)
ArmFails ==
  /\ counting > 0 /\ counting' = counting - 1
  /\ Event /\ unanswered' = TRUE
  /\ UNCHANGED <<hostVars, timer, cycle, todo, kickSoon, kicked, lost>>

\* requestHostReconnect, in the copy of the module whose scheduler runs.
Kick ==
  /\ kickSoon' = TRUE
  /\ timer' = IF running THEN timer ELSE "kick"
  /\ kicked' = TRUE /\ lost' = (lost \/ counting > 0) /\ unanswered' = FALSE
  /\ UNCHANGED <<cycle, todo, counting>>

(********************************* Hosts ***********************************)

\* withHostClient reads the row ...
RequestBegins(h) ==
  /\ request[h] = Nobody
  /\ \E b \in BOOLEAN : request' = [request EXCEPT ![h] = [read |-> row[h], here |-> b]]
  /\ UNCHANGED <<up, row, schedule, events>>

\* ... and writes ONLINE, or ERROR with a kick, unless that was MAINTENANCE.
RequestEnds(h) ==
  /\ request[h] # Nobody
  /\ request' = [request EXCEPT ![h] = Nobody]
  /\ \/ /\ up[h] /\ request[h].read \in {"ERROR", "CONNECTING"}
        /\ row' = [row EXCEPT ![h] = "ONLINE"]
        /\ UNCHANGED schedule
     \/ /\ ~up[h] /\ request[h].read # "MAINTENANCE"
        /\ row' = [row EXCEPT ![h] = "ERROR"]
        /\ IF request[h].here THEN Kick ELSE UNCHANGED schedule
     \/ /\ request[h].read = "MAINTENANCE" \/ (up[h] /\ request[h].read = "ONLINE")
        /\ UNCHANGED <<row, schedule>>
  /\ UNCHANGED <<up, events>>

\* The node goes down or comes back; an admin sets or ends maintenance.
HostChanges(h) ==
  /\ Event
  /\ \/ up' = [up EXCEPT ![h] = ~@] /\ UNCHANGED row
     \/ /\ row' = [row EXCEPT ![h] = IF @ = "MAINTENANCE" THEN "CONNECTING" ELSE "MAINTENANCE"]
        /\ UNCHANGED up
  /\ UNCHANGED <<request, schedule>>

\* setHostState tests a host whose maintenance has ended.
Test(h) ==
  /\ row[h] = "CONNECTING"
  /\ row' = [row EXCEPT ![h] = IF up[h] THEN "ONLINE" ELSE "ERROR"]
  /\ UNCHANGED <<up, request, schedule, events>>

ReconnectStep ==
  \/ Fire \/ ListHosts \/ CycleEnds \/ ArmNext \/ ArmFails
  \/ \E h \in Hosts : Probe(h) \/ RequestBegins(h) \/ RequestEnds(h)
                    \/ Test(h) \/ HostChanges(h)

=============================================================================
