-------------------------- MODULE HostState_proofs --------------------------
(* Proofs about HostState for every set of admins, requests and handlers   *)
(* and every bound.                                                        *)
EXTENDS HostState, TLAPS

USE HostAssumption
USE DEF Actors, flow, env, Go, Read, End, Continue, States, Outcomes, Points

\* Where flows may stand at a host of this instance, and what a flow that began
\* after the switch to maintenance knows.
LocalFlows ==
  /\ until = "none" /\ colleague = "up" /\ pc[Syncer] = "idle"
  /\ \A a \in Incoming : pc[a] = "idle"
  /\ pc[Prober] \in {"idle", "list", "test", "current", "writeOnline", "absorb",
                     "writeError"}
  /\ \A a \in Admins \cup Requests :
       pc[a] \in {"idle", "test", "current", "writeOnline", "absorb", "writeError"}

NewFlowsKnow ==
  state = "MAINTENANCE" =>
    /\ Prober \in switching \/ pc[Prober] \in {"idle", "list"}
    /\ \A a \in Requests \ switching :
         pc[a] = "idle" \/ (pc[a] = "test" /\ seen[a] = "MAINTENANCE")

LocalInv == TypeOK /\ LocalFlows /\ NewFlowsKnow

\* The initial values, and every step one by one, have their types.
LEMMA InitType == Init => TypeOK
<1> SUFFICES ASSUME Init PROVE TypeOK
  OBVIOUS
<1> USE DEF Init
<1>1. /\ pc \in [Actors -> Points] /\ seen \in [Actors -> States]
      /\ window \in [Actors -> {"none", "ahead", "passed"}]
      /\ outcome \in [Actors -> Outcomes]
  OBVIOUS
<1>2. reachable \in BOOLEAN /\ announced \in BOOLEAN
  OBVIOUS
<1>3. flaps \in 0..MaxFlaps /\ switches \in 0..MaxSwitches /\ updates \in 0..MaxUpdates
  OBVIOUS
<1> QED BY <1>1, <1>2, <1>3 DEF TypeOK

LEMMA TypeStep ==
  ASSUME TypeOK, [Next]_vars
  PROVE  TypeOK'
<1> USE DEF TypeOK
<1>1. ASSUME ProbeBegin PROVE TypeOK'
  BY <1>1 DEF ProbeBegin
<1>2. ASSUME ProbeList PROVE TypeOK'
  BY <1>2 DEF ProbeList
<1>3. ASSUME SyncBegin PROVE TypeOK'
  BY <1>3 DEF SyncBegin
<1>4. ASSUME SyncFetched PROVE TypeOK'
  BY <1>4 DEF SyncFetched
<1>5. ASSUME SyncUpsert PROVE TypeOK'
  BY <1>5 DEF SyncUpsert
<1>6. ASSUME Flap PROVE TypeOK'
  BY <1>6 DEF Flap
<1>7. ASSUME Deadline PROVE TypeOK'
  BY <1>7 DEF Deadline
<1>8. ASSUME Announce PROVE TypeOK'
  BY <1>8 DEF Announce, Deliver
<1>9. ASSUME GoDown PROVE TypeOK'
  BY <1>9 DEF GoDown
<1>10. ASSUME ComeBack PROVE TypeOK'
  <2>1. pc' \in [Actors -> Points] /\ outcome' \in [Actors -> Outcomes]
    BY <1>10 DEF ComeBack, Deliver
  <2>2. announced' \in BOOLEAN /\ colleague' \in {"up", "updating", "down"}
    BY <1>10 DEF ComeBack
  <2> QED BY <1>10, <2>1, <2>2 DEF ComeBack
<1>11. ASSUME NEW a \in Actors, RowRead(a) PROVE TypeOK'
  BY <1>11 DEF RowRead
<1>12. ASSUME NEW a \in Actors, StartMaintenance(a) PROVE TypeOK'
  BY <1>12 DEF StartMaintenance
<1>13. ASSUME NEW a \in Actors, EndMaintenance(a) PROVE TypeOK'
  BY <1>13 DEF EndMaintenance
<1>14. ASSUME NEW a \in Actors, TestAnswered(a) PROVE TypeOK'
  BY <1>14 DEF TestAnswered, Answers
<1>15. ASSUME NEW a \in Actors, RequestAnswered(a) PROVE TypeOK'
  BY <1>15 DEF RequestAnswered, Answers
<1>16. ASSUME NEW a \in Actors, ReadCurrent(a) PROVE TypeOK'
  BY <1>16 DEF ReadCurrent
<1>17. ASSUME NEW a \in Actors, WriteOnline(a) PROVE TypeOK'
  BY <1>17 DEF WriteOnline, Notify
<1>18. ASSUME NEW a \in Actors, WriteError(a) PROVE TypeOK'
  BY <1>18 DEF WriteError, Notify
<1>19. ASSUME NEW a \in Actors, Absorb(a) PROVE TypeOK'
  BY <1>19 DEF Absorb
<1>20. ASSUME NEW a \in Actors, AbsorbPeer(a) PROVE TypeOK'
  BY <1>20 DEF AbsorbPeer
<1>21. ASSUME NEW a \in Actors, AbsorbWrite(a) PROVE TypeOK'
  BY <1>21 DEF AbsorbWrite
<1>22. ASSUME NEW a \in Actors, Note(a) PROVE TypeOK'
  BY <1>22 DEF Note
<1>23. ASSUME NEW a \in Actors, Clear(a) PROVE TypeOK'
  BY <1>23 DEF Clear, AfterFinish
<1>24. ASSUME NEW a \in Actors, Release(a) PROVE TypeOK'
  BY <1>24 DEF Release, AfterFinish
<1>25. ASSUME NEW a \in Actors, Mark(a) PROVE TypeOK'
  BY <1>25 DEF Mark
<1>26. ASSUME NEW a \in Actors, MarkHosts(a) PROVE TypeOK'
  BY <1>26 DEF MarkHosts
<1>27. CASE UNCHANGED vars
  BY <1>27 DEF vars
<1> QED BY <1>1, <1>2, <1>3, <1>4, <1>5, <1>6, <1>7, <1>8, <1>9, <1>10,
       <1>11, <1>12, <1>13, <1>14, <1>15, <1>16, <1>17, <1>18, <1>19, <1>20,
       <1>21, <1>22, <1>23, <1>24, <1>25, <1>26, <1>27 DEF Next, Step

\* A host of this instance never meets the flows of peer updates.
LEMMA LocalFlowsStep ==
  ASSUME Origin = "LOCAL", TypeOK, LocalFlows, [Next]_vars
  PROVE  LocalFlows'
<1> USE DEF TypeOK, LocalFlows
<1>1. ASSUME ProbeBegin PROVE LocalFlows'
  BY <1>1 DEF ProbeBegin
<1>2. ASSUME ProbeList PROVE LocalFlows'
  BY <1>2 DEF ProbeList
<1>3. ASSUME SyncFetched PROVE LocalFlows'
  BY <1>3 DEF SyncFetched
<1>4. ASSUME SyncUpsert PROVE LocalFlows'
  BY <1>4 DEF SyncUpsert
<1>5. ASSUME SyncBegin \/ Flap \/ Deadline \/ Announce \/ GoDown \/
             ComeBack
      PROVE  LocalFlows'
  BY <1>5 DEF SyncBegin, Flap, Deadline, Announce, GoDown, ComeBack, Deliver
<1>6. ASSUME NEW a \in Actors,
             RowRead(a) \/ StartMaintenance(a) \/ EndMaintenance(a) \/
             TestAnswered(a) \/ RequestAnswered(a) \/ ReadCurrent(a) \/
             WriteOnline(a) \/ WriteError(a) \/ Absorb(a) \/ AbsorbPeer(a)
             \/ AbsorbWrite(a) \/ Note(a) \/ Clear(a) \/ Release(a) \/
             Mark(a) \/ MarkHosts(a)
      PROVE  LocalFlows'
  BY <1>6 DEF RowRead, StartMaintenance, EndMaintenance, TestAnswered,
     RequestAnswered, ReadCurrent, WriteOnline, WriteError, Absorb,
     AbsorbPeer, AbsorbWrite, Note, Clear, Release, Mark, MarkHosts,
     Answers, Notify, AfterFinish
<1>7. CASE UNCHANGED vars
  BY <1>7 DEF vars
<1> QED BY <1>1, <1>2, <1>3, <1>4, <1>5, <1>6, <1>7 DEF Next, Step

\* A flow that begins after the switch reads MAINTENANCE and goes no further.
LEMMA NewFlowsStep ==
  ASSUME Origin = "LOCAL", LocalInv, [Next]_vars
  PROVE  NewFlowsKnow'
<1> USE DEF LocalInv, TypeOK, LocalFlows, NewFlowsKnow
<1>1. ASSUME ProbeBegin \/ ProbeList \/ SyncBegin \/ SyncFetched \/
             SyncUpsert \/ Flap \/ Deadline \/ Announce \/ GoDown \/
             ComeBack
      PROVE  NewFlowsKnow'
  BY <1>1 DEF ProbeBegin, ProbeList, SyncBegin, SyncFetched, SyncUpsert,
     Flap, Deadline, Announce, GoDown, ComeBack, Deliver
<1>2. ASSUME NEW a \in Actors,
             RowRead(a) \/ StartMaintenance(a) \/ EndMaintenance(a) \/
             TestAnswered(a) \/ RequestAnswered(a) \/ ReadCurrent(a) \/
             WriteOnline(a) \/ WriteError(a) \/ Absorb(a) \/ AbsorbPeer(a)
             \/ AbsorbWrite(a) \/ Note(a) \/ Clear(a) \/ Release(a) \/
             Mark(a) \/ MarkHosts(a)
      PROVE  NewFlowsKnow'
  BY <1>2 DEF RowRead, StartMaintenance, EndMaintenance, TestAnswered,
     RequestAnswered, ReadCurrent, WriteOnline, WriteError, Absorb,
     AbsorbPeer, AbsorbWrite, Note, Clear, Release, Mark, MarkHosts,
     Answers, Notify, AfterFinish
<1>3. CASE UNCHANGED vars
  BY <1>3 DEF vars
<1> QED BY <1>1, <1>2, <1>3 DEF Next, Step

\* The variables have their types, whoever interleaves.
THEOREM TypeCorrect == Spec => []TypeOK
<1>1. Init => TypeOK
  BY InitType
<1>2. TypeOK /\ [Next]_vars => TypeOK'
  BY TypeStep
<1> QED BY <1>1, <1>2, PTL DEF Spec

\* A host of this instance leaves maintenance only by its admin or by a flow that
\* had read the row before the switch (host-service.ts:186-215, 337-339,
\* 384-417), for any number of requests and admins.
THEOREM MaintenanceKept ==
  Origin = "LOCAL" => (Spec => MaintenanceKeptByNewFlows)
<1> SUFFICES ASSUME Origin = "LOCAL" PROVE Spec => MaintenanceKeptByNewFlows
  OBVIOUS
<1>1. Init => LocalInv
  BY InitType DEF Init, LocalInv, LocalFlows, NewFlowsKnow
<1>2. LocalInv /\ [Next]_vars => LocalInv'
  BY TypeStep, LocalFlowsStep, NewFlowsStep DEF LocalInv
<1>3. LocalInv /\ [Next]_vars =>
        [state = "MAINTENANCE" /\ state' /= "MAINTENANCE" =>
           \/ switches' /= switches
           \/ \E a \in switching \cup Admins : pc'[a] /= pc[a]]_vars
  <2> SUFFICES ASSUME LocalInv, Next, state = "MAINTENANCE",
                      state' /= "MAINTENANCE", switches' = switches
               PROVE  \E a \in switching \cup Admins : pc'[a] /= pc[a]
    OBVIOUS
  <2> USE DEF LocalInv, TypeOK, LocalFlows
  <2>1. ASSUME NEW a \in Actors, WriteOnline(a) \/ WriteError(a)
        PROVE  \E b \in switching \cup Admins : pc'[b] /= pc[b]
    <3>1. a \in switching \cup Admins
      BY <2>1 DEF WriteOnline, WriteError, NewFlowsKnow
    <3>2. pc[a] \in {"writeOnline", "writeError"} /\ pc'[a] = "idle"
      BY <2>1 DEF WriteOnline, WriteError
    <3> QED BY <3>1, <3>2
  <2>2. ASSUME NEW a \in Actors, Step(a), ~WriteOnline(a), ~WriteError(a)
        PROVE  state' = state
    BY <2>2 DEF Step, TestAnswered, RequestAnswered, ReadCurrent, Absorb, AbsorbPeer,
       AbsorbWrite, Note, Clear, Release, Mark, MarkHosts
  <2>3. ASSUME NEW a \in Actors, RowRead(a) \/ StartMaintenance(a) \/ EndMaintenance(a)
        PROVE  state' = state
    BY <2>3 DEF RowRead, StartMaintenance, EndMaintenance
  <2>4. ASSUME ProbeBegin \/ ProbeList \/ SyncBegin \/ SyncFetched \/ SyncUpsert
        PROVE  state' = state
    BY <2>4 DEF ProbeBegin, ProbeList, SyncBegin, SyncFetched, SyncUpsert
  <2>5. ASSUME Flap \/ Deadline \/ Announce \/ GoDown \/ ComeBack
        PROVE  state' = state
    BY <2>5 DEF Flap, Deadline, Announce, GoDown, ComeBack
  <2> QED BY <2>1, <2>2, <2>3, <2>4, <2>5 DEF Next
<1> QED BY <1>1, <1>2, <1>3, PTL DEF Spec, MaintenanceKeptByNewFlows

=============================================================================
