----------------------------- MODULE HostState -----------------------------
(***************************************************************************)
(* The connection state of one host row, and everyone who writes it:       *)
(* server/services/host-service.ts (probeAllHosts, withHostClient, testHost*)
(* setHostState), peer-update.ts (applyIncomingPeerUpdate, finishPeerUpdate*)
(* expireStalePeerUpdates, absorbPeerUpdateOutage, notePeerHostReachable)  *)
(* and syncPeerHosts of federation-service.ts.                             *)
(*                                                                         *)
(* Nothing is locked: each flow reads the row, awaits the network or       *)
(* another query, and writes.  An action is one query together with the    *)
(* code up to the next await, so the flows interleave at every await.      *)
(*                                                                         *)
(* Origin "LOCAL" is a Proxmox host of this instance, "PEER" a host that a *)
(* colleague's Proxora shares over WireGuard; the colleague may update     *)
(* itself, announcing the start and the end.                               *)
(***************************************************************************)
EXTENDS Naturals

CONSTANTS
  Origin,      \* "LOCAL" or "PEER"
  Prober,      \* probeAllHosts: the reconnect scheduler runs one at a time
  Admins,      \* testHost and setHostState
  Syncer,      \* syncPeerHosts: the sync scheduler runs one at a time
  Requests,    \* live requests through withHostClient
  Incoming,    \* peer-status requests of the colleague
  MaxFlaps,    \* bound: how often the host goes up or down
  MaxSwitches, \* bound: how often the admin starts or ends maintenance
  MaxUpdates   \* bound: self-updates of the colleague

Actors == {Prober, Syncer} \cup Admins \cup Requests \cup Incoming

ASSUME HostAssumption ==
  /\ Origin \in {"LOCAL", "PEER"}
  /\ Prober \notin Admins \cup Requests \cup Incoming \cup {Syncer}
  /\ Syncer \notin Admins \cup Requests \cup Incoming
  /\ Admins \cap (Requests \cup Incoming) = {} /\ Requests \cap Incoming = {}
  /\ MaxFlaps \in Nat /\ MaxSwitches \in Nat /\ MaxUpdates \in Nat

VARIABLES
  state,     \* Host.connectionState
  until,     \* WireguardPeer.updatingUntil: unset, ahead or passed
  pc,        \* pc[a]: the query the flow of a runs next
  seen,      \* seen[a]: the connectionState a read last
  window,    \* window[a]: the updatingUntil a read last
  outcome,   \* outcome[a]: what a will report (see Outcomes)
  told,      \* the last "Host online" / "Host offline" notification
  reachable, \* external: does the Proxmox host answer?
  colleague, \* external: the colleague's Proxora
  announced, \* history: the hosts were marked for the update under way
  switching, \* actors whose flow began before the last switch to maintenance
  flaps, switches, updates

flow == <<pc, seen, window, outcome>>
env  == <<reachable, colleague, flaps, updates, announced>>
vars == <<state, until, flow, told, env, switching, switches>>

States == {"CONNECTING", "ONLINE", "ERROR", "MAINTENANCE"}
Outcomes == {"none", "ok", "failed", "recovered", "expired"}
Points == {"idle", "list", "test", "current", "writeOnline", "note", "absorb",
           "absorbPeer", "absorbWrite", "writeError", "clear", "release",
           "mark", "markHosts", "fetch", "upsert"}

TypeOK ==
  /\ state \in States /\ until \in {"none", "ahead", "passed"}
  /\ pc \in [Actors -> Points] /\ seen \in [Actors -> States]
  /\ window \in [Actors -> {"none", "ahead", "passed"}]
  /\ outcome \in [Actors -> Outcomes]
  /\ told \in {"nothing", "online", "offline"}
  /\ reachable \in BOOLEAN /\ colleague \in {"up", "updating", "down"}
  /\ announced \in BOOLEAN /\ switching \subseteq Actors
  /\ flaps \in 0..MaxFlaps /\ switches \in 0..MaxSwitches
  /\ updates \in 0..MaxUpdates

Init ==
  /\ state = "CONNECTING" /\ until = "none" /\ told = "nothing"
  /\ pc = [a \in Actors |-> "idle"]
  /\ seen = [a \in Actors |-> "CONNECTING"]
  /\ window = [a \in Actors |-> "none"]
  /\ outcome = [a \in Actors |-> "none"]
  /\ reachable \in BOOLEAN /\ colleague = "up" /\ announced = FALSE
  /\ switching = {} /\ flaps = 0 /\ switches = 0 /\ updates = 0

Go(a, step) == pc' = [pc EXCEPT ![a] = step]
Read(a) == seen' = [seen EXCEPT ![a] = state]

\* A flow that ends forgets what it read.
End(a) ==
  /\ Go(a, "idle")
  /\ seen' = [seen EXCEPT ![a] = "CONNECTING"]
  /\ window' = [window EXCEPT ![a] = "none"]
  /\ outcome' = [outcome EXCEPT ![a] = "none"]
  /\ switching' = switching \ {a}

Continue(a, step) == Go(a, step) /\ UNCHANGED <<seen, window, outcome, switching>>

Answers == reachable /\ (Origin = "PEER" => colleague /= "down")

\* Mutant of Notify: silent after an error as well.
NotifyOutagesOnly(before, next) ==
  told' = IF before \in {next, "CONNECTING", "MAINTENANCE", "ERROR"} THEN told
          ELSE IF next = "ONLINE" THEN "online" ELSE "offline"

\* notifyHostState: nothing for an unchanged state, nor when the row it was
\* given said CONNECTING or MAINTENANCE.
Notify(before, next) ==
  told' = IF before \in {next, "CONNECTING", "MAINTENANCE"} THEN told
          ELSE IF next = "ONLINE" THEN "online" ELSE "offline"

----------------------------------------------------------------------------
(* The flows begin.                                                        *)

\* Mutant of ProbeBegin: windows are not expired.
ProbeBeginPlain ==
  /\ pc[Prober] = "idle"
  /\ Go(Prober, "list")
  /\ UNCHANGED <<state, until, seen, window, outcome, told, env, switching, switches>>

\* expireStalePeerUpdates, the first query of probeAllHosts.
ProbeBegin ==
  /\ pc[Prober] = "idle"
  /\ IF until = "passed"
     THEN Go(Prober, "clear") /\ outcome' = [outcome EXCEPT ![Prober] = "expired"]
     ELSE Go(Prober, "list") /\ UNCHANGED outcome
  /\ UNCHANGED <<state, until, seen, window, told, env, switching, switches>>

\* Mutants of ProbeList: every host is listed; failed hosts are left out.
ProbeListEvery ==
  /\ pc[Prober] = "list"
  /\ Go(Prober, "test") /\ Read(Prober)
  /\ outcome' = [outcome EXCEPT ![Prober] = "none"]
  /\ UNCHANGED <<state, until, window, told, env, switching, switches>>

ProbeListHealthy ==
  /\ pc[Prober] = "list"
  /\ IF state \in {"MAINTENANCE", "ERROR"}
     THEN End(Prober)
     ELSE Go(Prober, "test") /\ Read(Prober)
          /\ outcome' = [outcome EXCEPT ![Prober] = "none"]
          /\ UNCHANGED <<window, switching>>
  /\ UNCHANGED <<state, until, told, env, switches>>

ProbeList ==
  /\ pc[Prober] = "list"
  /\ IF state = "MAINTENANCE"
     THEN End(Prober)
     ELSE Go(Prober, "test") /\ Read(Prober)
          /\ outcome' = [outcome EXCEPT ![Prober] = "none"]
          /\ UNCHANGED <<window, switching>>
  /\ UNCHANGED <<state, until, told, env, switches>>

\* withHostClient and testHost read the row first.
RowRead(a) ==
  /\ a \in Requests \cup Admins /\ pc[a] = "idle"
  /\ Go(a, "test") /\ Read(a)
  /\ UNCHANGED <<state, until, window, outcome, told, env, switching, switches>>

\* setHostState MAINTENANCE: a plain write, whoever is under way.
StartMaintenance(a) ==
  /\ a \in Admins /\ Origin = "LOCAL" /\ pc[a] = "idle" /\ switches < MaxSwitches
  /\ state' = "MAINTENANCE" /\ switches' = switches + 1
  /\ switching' = {b \in Actors : pc[b] /= "idle"}
  /\ UNCHANGED <<until, flow, told, env>>

\* setHostState ONLINE: CONNECTING, then testHost.
EndMaintenance(a) ==
  /\ a \in Admins /\ Origin = "LOCAL" /\ pc[a] = "idle" /\ switches < MaxSwitches
  /\ state' = "CONNECTING" /\ switches' = switches + 1
  /\ Go(a, "test") /\ seen' = [seen EXCEPT ![a] = "CONNECTING"]
  /\ UNCHANGED <<until, window, outcome, told, env, switching>>

----------------------------------------------------------------------------
(* The answer of the host, applyTestResult, and the end of withHostClient. *)

\* testConnection reports; probeAllHosts may instead catch an exception.
TestAnswered(a) ==
  /\ a \in {Prober} \cup Admins /\ pc[a] = "test"
  /\ \/ /\ Go(a, "current")
        /\ outcome' = [outcome EXCEPT ![a] = IF Answers THEN "ok" ELSE "failed"]
     \/ a = Prober /\ ~Answers /\ Go(a, "absorb") /\ UNCHANGED outcome
  /\ UNCHANGED <<state, until, seen, window, told, env, switching, switches>>

RequestAnswered(a) ==
  /\ a \in Requests /\ pc[a] = "test"
  /\ \/ Answers /\ seen[a] \in {"ONLINE", "MAINTENANCE"} /\ End(a)
     \/ Answers /\ seen[a] \in {"CONNECTING", "ERROR"} /\ Continue(a, "writeOnline")
     \/ ~Answers /\ seen[a] = "MAINTENANCE" /\ End(a)
     \/ ~Answers /\ seen[a] /= "MAINTENANCE" /\ Continue(a, "absorb")
  /\ UNCHANGED <<state, until, told, env, switches>>

ReadCurrent(a) ==
  /\ pc[a] = "current"
  /\ Read(a)
  /\ Go(a, IF outcome[a] = "ok" THEN "writeOnline" ELSE "absorb")
  /\ UNCHANGED <<state, until, window, outcome, told, env, switching, switches>>

WriteOnline(a) ==
  /\ pc[a] = "writeOnline"
  /\ state' = "ONLINE"
  /\ Notify(seen[a], "ONLINE")
  /\ IF Origin = "PEER" /\ a \notin Requests THEN Continue(a, "note") ELSE End(a)
  /\ UNCHANGED <<until, env, switches>>

\* Mutant of WriteError: writes the status word of the notification.
WriteErrorOffline(a) ==
  /\ pc[a] = "writeError"
  /\ state' = "OFFLINE"
  /\ Notify(seen[a], "ERROR")
  /\ End(a)
  /\ UNCHANGED <<until, env, switches>>

WriteError(a) ==
  /\ pc[a] = "writeError"
  /\ state' = "ERROR"
  /\ Notify(seen[a], "ERROR")
  /\ End(a)
  /\ UNCHANGED <<until, env, switches>>

----------------------------------------------------------------------------
(* peer-update.ts.                                                         *)

\* absorbPeerUpdateOutage: the row, the peer, and a write if it is updating.
\* outcome keeps what it read of the row: "ok" if already in maintenance.
Absorb(a) ==
  /\ pc[a] = "absorb"
  /\ IF Origin = "LOCAL"
     THEN Go(a, "writeError") /\ UNCHANGED outcome
     ELSE /\ Go(a, "absorbPeer")
          /\ outcome' = [outcome EXCEPT ![a] =
                           IF state = "MAINTENANCE" THEN "ok" ELSE "failed"]
  /\ UNCHANGED <<state, until, seen, window, told, env, switching, switches>>

AbsorbPeer(a) ==
  /\ pc[a] = "absorbPeer"
  /\ \/ until = "ahead" /\ outcome[a] = "ok" /\ End(a)
     \/ until = "ahead" /\ outcome[a] /= "ok" /\ Continue(a, "absorbWrite")
     \/ until /= "ahead" /\ Continue(a, "writeError")
  /\ UNCHANGED <<state, until, told, env, switches>>

AbsorbWrite(a) ==
  /\ pc[a] = "absorbWrite"
  /\ state' = "MAINTENANCE"
  /\ End(a)
  /\ UNCHANGED <<until, told, env, switches>>

\* notePeerHostReachable after a successful test.
Note(a) ==
  /\ pc[a] = "note"
  /\ IF until = "none" THEN End(a)
     ELSE /\ Go(a, "clear") /\ outcome' = [outcome EXCEPT ![a] = "recovered"]
          /\ UNCHANGED <<seen, window, switching>>
  /\ UNCHANGED <<state, until, told, env, switches>>

\* probeAllHosts goes on after expireStalePeerUpdates.
AfterFinish(a) == IF outcome[a] = "expired" THEN Continue(a, "list") ELSE End(a)

\* finishPeerUpdate: the window is cleared in one statement ...
Clear(a) ==
  /\ pc[a] = "clear"
  /\ until' = "none"
  /\ IF until = "none" THEN AfterFinish(a) ELSE Continue(a, "release")
  /\ UNCHANGED <<state, told, env, switches>>

\* ... and the hosts leave maintenance in the next.
Release(a) ==
  /\ pc[a] = "release"
  /\ state' = IF state /= "MAINTENANCE" THEN state
              ELSE IF outcome[a] = "expired" THEN "ERROR" ELSE "CONNECTING"
  /\ AfterFinish(a)
  /\ UNCHANGED <<until, told, env, switches>>

\* applyIncomingPeerUpdate with updating: true.
Mark(a) ==
  /\ pc[a] = "mark"
  /\ until' = "ahead"
  /\ Continue(a, "markHosts")
  /\ UNCHANGED <<state, told, env, switches>>

MarkHosts(a) ==
  /\ pc[a] = "markHosts"
  /\ state' = "MAINTENANCE"
  /\ announced' = (colleague /= "up" /\ until = "ahead")
  /\ End(a)
  /\ UNCHANGED <<until, told, reachable, colleague, flaps, updates, switches>>

----------------------------------------------------------------------------
(* syncPeerHosts, the part about one peer with one host.                   *)

SyncBegin ==
  /\ Origin = "PEER" /\ pc[Syncer] = "idle"
  /\ Go(Syncer, "fetch")
  /\ window' = [window EXCEPT ![Syncer] = until]
  /\ UNCHANGED <<state, until, seen, outcome, told, env, switching, switches>>

\* The colleague lists the host with the state it has there.
SyncFetched ==
  /\ pc[Syncer] = "fetch"
  /\ IF colleague = "down" THEN End(Syncer)
     ELSE /\ Go(Syncer, "upsert")
          /\ outcome' = [outcome EXCEPT ![Syncer] = IF reachable THEN "ok" ELSE "failed"]
          /\ UNCHANGED <<seen, window, switching>>
  /\ UNCHANGED <<state, until, told, env, switches>>

\* Mutant of SyncUpsert: a host in maintenance keeps its state.
SyncUpsertPolite ==
  /\ pc[Syncer] = "upsert"
  /\ state' = IF outcome[Syncer] = "ok" /\ state /= "MAINTENANCE" THEN "ONLINE" ELSE state
  /\ IF window[Syncer] = "none" THEN End(Syncer)
     ELSE /\ Go(Syncer, "clear")
          /\ outcome' = [outcome EXCEPT ![Syncer] = "recovered"]
          /\ UNCHANGED <<seen, window, switching>>
  /\ UNCHANGED <<until, told, env, switches>>

\* The row becomes ONLINE if the colleague says so; a window seen at the
\* beginning is finished as "recovered".
SyncUpsert ==
  /\ pc[Syncer] = "upsert"
  /\ state' = IF outcome[Syncer] = "ok" THEN "ONLINE" ELSE state
  /\ IF window[Syncer] = "none" THEN End(Syncer)
     ELSE /\ Go(Syncer, "clear")
          /\ outcome' = [outcome EXCEPT ![Syncer] = "recovered"]
          /\ UNCHANGED <<seen, window, switching>>
  /\ UNCHANGED <<until, told, env, switches>>

----------------------------------------------------------------------------
(* The environment.                                                        *)

Flap ==
  /\ flaps < MaxFlaps
  /\ reachable' = ~reachable /\ flaps' = flaps + 1
  /\ UNCHANGED <<state, until, flow, told, colleague, updates, announced,
                 switching, switches>>

\* The twenty minutes of an update window pass; the handler that opened it is
\* long through.
Deadline ==
  /\ \A a \in Incoming : pc[a] /= "markHosts"
  /\ until = "ahead" /\ until' = "passed" /\ announced' = FALSE
  /\ UNCHANGED <<state, flow, told, reachable, colleague, flaps, updates,
                 switching, switches>>

\* An announcement reaches one of the handlers, or is lost.
Deliver(step, kind) ==
  \/ \E a \in Incoming :
       /\ pc[a] = "idle" /\ Go(a, step)
       /\ outcome' = [outcome EXCEPT ![a] = kind]
  \/ UNCHANGED <<pc, outcome>>

Announce ==
  /\ Origin = "PEER" /\ colleague = "up" /\ updates < MaxUpdates
  /\ colleague' = "updating" /\ updates' = updates + 1
  /\ Deliver("mark", "none")
  /\ UNCHANGED <<state, until, seen, window, told, reachable, flaps, announced,
                 switching, switches>>

\* broadcastSelfUpdate awaits the answers before the update begins.
GoDown ==
  /\ \A a \in Incoming : pc[a] \notin {"mark", "markHosts"}
  /\ colleague = "updating" /\ colleague' = "down"
  /\ UNCHANGED <<state, until, flow, told, reachable, flaps, updates, announced,
                 switching, switches>>

\* The colleague starts and announces the end of the update.
ComeBack ==
  /\ colleague = "down" /\ colleague' = "up" /\ announced' = FALSE
  /\ Deliver("clear", "recovered")
  /\ UNCHANGED <<state, until, seen, window, told, reachable, flaps, updates,
                 switching, switches>>

Step(a) ==
  \/ TestAnswered(a) \/ RequestAnswered(a) \/ ReadCurrent(a) \/ WriteOnline(a)
  \/ WriteError(a) \/ Absorb(a) \/ AbsorbPeer(a) \/ AbsorbWrite(a) \/ Note(a)
  \/ Clear(a) \/ Release(a) \/ Mark(a) \/ MarkHosts(a)

Next ==
  \/ ProbeBegin \/ ProbeList
  \/ \E a \in Actors : \/ RowRead(a) \/ Step(a)
                        \/ StartMaintenance(a) \/ EndMaintenance(a)
  \/ SyncBegin \/ SyncFetched \/ SyncUpsert
  \/ Flap \/ Deadline \/ Announce \/ GoDown \/ ComeBack

Spec == Init /\ [][Next]_vars

----------------------------------------------------------------------------
(* Fairness: the event loop and the database serve every flow, the two     *)
(* schedulers start their cycles again and again, deadlines pass.  No      *)
(* request, no admin and no colleague ever has to do anything.             *)

Fairness ==
  /\ WF_vars(ProbeBegin) /\ WF_vars(ProbeList)
  /\ WF_vars(SyncBegin) /\ WF_vars(SyncFetched) /\ WF_vars(SyncUpsert)
  /\ \A a \in Actors : WF_vars(Step(a))
  /\ WF_vars(Deadline)

FairSpec == Spec /\ Fairness

----------------------------------------------------------------------------
(* Properties.                                                             *)

Quiet == \A a \in Actors : pc[a] = "idle"

\* Once the host stays up or stays down and the admin leaves it alone, its row
\* says so for good, or says MAINTENANCE: no flow that is late with its answer
\* has the last word, and probeAllHosts repairs what one left behind.
Converges ==
  <>[](state = "MAINTENANCE" \/ state = IF reachable THEN "ONLINE" ELSE "ERROR")

\* A settled ONLINE host that goes down is reported as "Host offline" (unless it
\* comes back first), and a settled ERROR host that comes up as "Host online":
\* the flows that share one outage do not talk each other out of reporting it.
\* A maintenance that the admin starts or ends meanwhile keeps them silent.
OutageReported ==
  /\ (Quiet /\ state = "ONLINE" /\ ~reachable) ~>
       (told = "offline" \/ reachable \/ state \in {"MAINTENANCE", "CONNECTING"})
  /\ (Quiet /\ state = "ERROR" /\ reachable) ~>
       (told = "online" \/ ~reachable \/ state \in {"MAINTENANCE", "CONNECTING"})

\* A switch to maintenance is undone only by the admin or by a flow that had
\* read the row before the switch: everyone who reads MAINTENANCE leaves it.
MaintenanceKeptByNewFlows ==
  [][state = "MAINTENANCE" /\ state' /= "MAINTENANCE" =>
       \/ switches' /= switches
       \/ \E a \in switching \cup Admins : pc'[a] /= pc[a]]_vars

\* An update window does not stay open: it is closed by the end of the update,
\* by a successful sync, or by its deadline.
WindowCloses == until /= "none" ~> until = "none"

\* With the colleague's Proxora back for good and its host up, the host row is
\* ONLINE for good, whichever announcements were lost or came late.
PeerHostReturns ==
  <>[](colleague = "up" /\ reachable) => <>[](state = "ONLINE")

\* CHANGELOG.md:660: a colleague who updates Proxora does not look like their
\* hosts went offline; within the announced window a host the colleague keeps
\* up is not reported as offline while the colleague is away.
UpdateIsNoOutage ==
  [][told' = "offline" /\ told /= "offline" =>
       ~(colleague = "down" /\ reachable /\ announced)]_vars

=============================================================================
