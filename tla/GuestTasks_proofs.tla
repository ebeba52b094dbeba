------------------------- MODULE GuestTasks_proofs -------------------------
(* Proofs about GuestTasks, and the inventory cache inside it, for every set *)
(* of deletions, cleanups, readers, archives and fetches and every bound.    *)
EXTENDS GuestTasks, TLAPS

USE CacheAssumption, GuestAssumption
USE DEF Answers, Cleanups, Tasks

(***************************** The cache ***********************************)

CacheInv == CacheTypeOK /\ ServesThePast

\* What a step of the project can do to the cache: the ways in which the
\* guests' routes, the pages, the cleanups and the node touch it.
Untouched == UNCHANGED cacheVars
Dropped ==
  \E c \in Readers : /\ got' = [got EXCEPT ![c] = "none"]
                     /\ UNCHANGED <<kind, cache, inflight, fetch, waits, past>>
Invalidated == Invalidate /\ UNCHANGED <<kind, fetch, waits, got>>
Turned == \E k \in Answers : Becomes(k) /\ UNCHANGED <<cache, inflight, fetch, waits, got>>
Loaded == \E r \in Readers \cup Pages : Load(r)

CacheMove == Untouched \/ Dropped \/ Invalidated \/ Turned \/ Loaded \/ CacheStep

\* Every step of the system is one of those for the cache.
LEMMA OnlyThese == [Next]_vars => CacheMove
<1> SUFFICES ASSUME [Next]_vars PROVE CacheMove
  OBVIOUS
<1> USE DEF CacheMove, cacheVars
<1>1. ASSUME NEW d \in Deleters, Confirm(d) \/ ReadStatus(d) \/ Call(d) \/ CallThrows(d)
      PROVE  Untouched
  BY <1>1 DEF Confirm, ReadStatus, Call, CallThrows, OnlyDeletion, Untouched
<1>2. ASSUME NEW d \in Deleters, Waited(d) \/ Await(d) \/ Poll(d) \/ Advance(d)
      PROVE  Untouched
  BY <1>2 DEF Waited, Await, Poll, Advance, OnlyDeletion, Untouched
<1>3. ASSUME NEW d \in Deleters, Respond(d) PROVE Invalidated
  BY <1>3 DEF Respond, OnlyDeletion, Invalidated
<1>4. ASSUME NEW d \in Deleters, DirectPurge(d) PROVE Untouched \/ Invalidated
  BY <1>4 DEF DirectPurge, OnlyDeletion, Untouched, Invalidated
<1>5. ASSUME NEW u \in Tasks, TaskEnds(u) PROVE Untouched \/ Turned
  BY <1>5 DEF TaskEnds, Turns, Untouched, Turned
<1>6. ASSUME NEW u \in Tasks, PurgeAfter(u) PROVE Untouched
  BY <1>6 DEF PurgeAfter, Untouched
<1>7. ASSUME NEW c \in Cleanups, SweepBegin(c) \/ SweepNodes(c) PROVE Loaded
  BY <1>7 DEF SweepBegin, SweepNodes, Loaded
<1>8. ASSUME NEW c \in Cleanups, SweepGuests(c) \/ SweepFiles(c) PROVE Dropped
  BY <1>8 DEF SweepGuests, SweepFiles, Dropped
<1>9. ASSUME NEW c \in Cleanups, SweepDelete(c) PROVE Untouched
  BY <1>9 DEF SweepDelete, Untouched
<1>10. ASSUME NEW p \in Pages, PageLoad(p) PROVE Loaded
  BY <1>10 DEF PageLoad, Loaded
<1>11. ASSUME OthersChange PROVE Untouched \/ Turned
  BY <1>11 DEF OthersChange, Turns, Untouched, Turned
<1>12. ASSUME OtherAction PROVE Invalidated
  BY <1>12 DEF OtherAction, Invalidated
<1>13. ASSUME CacheMoves PROVE CacheStep
  BY <1>13 DEF CacheMoves
<1>14. CASE UNCHANGED vars
  BY <1>14 DEF vars, Untouched
<1> QED BY <1>1, <1>2, <1>3, <1>4, <1>5, <1>6, <1>7, <1>8, <1>9, <1>10,
       <1>11, <1>12, <1>13, <1>14 DEF Next, Delete, Sweep

\* A load takes one of its three ways.
LEMMA LoadTypes ==
  ASSUME CacheInv, NEW r \in Readers \cup Pages, Load(r)
  PROVE  CacheInv' /\ UNCHANGED <<kind, cache, past>>
<1> USE DEF CacheInv, CacheTypeOK, ServesThePast
<1>1. ASSUME r \in Readers, Hit(r) PROVE CacheInv' /\ UNCHANGED <<kind, cache, past>>
  BY <1>1 DEF Hit
<1>2. ASSUME Join(r) PROVE CacheInv' /\ UNCHANGED <<kind, cache, past>>
  BY <1>2 DEF Join
<1>3. ASSUME Begin(r) PROVE CacheInv' /\ UNCHANGED <<kind, cache, past>>
  <2>1. PICK f \in Fetches : /\ fetch' = [fetch EXCEPT ![f] = "sent"] /\ inflight' = f
                             /\ waits' = [waits EXCEPT ![r] = f]
    BY <1>3 DEF Begin
  <2>2. UNCHANGED <<kind, cache, got, past>>
    BY <1>3 DEF Begin
  <2> QED BY <2>1, <2>2
<1> QED BY <1>1, <1>2, <1>3 DEF Load

LEMMA CacheInvStep ==
  ASSUME CacheInv, CacheMove
  PROVE  CacheInv'
<1> USE DEF CacheInv, CacheTypeOK, ServesThePast
<1>1. CASE Untouched
  BY <1>1 DEF Untouched, cacheVars
<1>2. CASE Dropped
  BY <1>2 DEF Dropped
<1>3. CASE Invalidated
  BY <1>3 DEF Invalidated, Invalidate, Quiet
<1>4. CASE Turned
  BY <1>4 DEF Turned, Becomes
<1>5. CASE Loaded
  BY <1>5, LoadTypes DEF Loaded
<1>6. ASSUME NEW f \in Fetches, Answer(f) PROVE CacheInv'
  BY <1>6 DEF Answer
<1>7. ASSUME NEW f \in Fetches, Store(f) PROVE CacheInv'
  BY <1>7 DEF Store, Deliver
<1>8. ASSUME NEW f \in Fetches, FetchFails(f) PROVE CacheInv'
  BY <1>8 DEF FetchFails, Deliver
<1>9. ASSUME Expire PROVE CacheInv'
  BY <1>9 DEF Expire
<1> QED BY <1>1, <1>2, <1>3, <1>4, <1>5, <1>6, <1>7, <1>8, <1>9 DEF CacheMove, CacheStep

LEMMA CacheInvInit == Init => CacheInv
BY DEF Init, CacheInit, CacheInv, CacheTypeOK, ServesThePast

\* The cache, and a request on its way, hold only what the node had since the
\* last invalidation that no request overlapped (inventory-cache.ts:61).
THEOREM PastServed == Spec => []ServesThePast
<1>1. CacheInv /\ [Next]_vars => CacheInv'
  BY OnlyThese, CacheInvStep
<1>2. CacheInv => ServesThePast
  BY DEF CacheInv
<1> QED BY CacheInvInit, <1>1, <1>2, PTL DEF Spec

(**************************** The cleanups *********************************)

\* What a cleanup has read, and what it takes for orphans, lies in its history.
SweepInv ==
  /\ since \in [Cleanups -> SUBSET Answers]
  /\ orphans \in [Cleanups -> SUBSET Archives]
  /\ sweep \in [Cleanups -> {"idle", "guests", "nodes", "delete"}]
  /\ \A c \in Cleanups : sweep[c] # "idle" =>
       /\ past \subseteq since[c]
       /\ got[c] \in Answers => got[c] \in since[c]
  /\ \A c \in Cleanups : sweep[c] \in {"nodes", "delete"} =>
       \A a \in orphans[c] : \E k \in since[c] : k \notin Keeps(a)

\* What can happen to the cache while the cleanups stand still.
LEMMA SweepKept ==
  ASSUME CacheInv, SweepInv, UNCHANGED <<cleaning, seen>>,
         Untouched \/ Invalidated \/ Loaded \/ CacheStep
  PROVE  SweepInv'
<1> USE DEF CacheInv, CacheTypeOK, ServesThePast, SweepInv, cleaning, seen
<1>1. CASE Untouched
  BY <1>1 DEF Untouched, cacheVars
<1>2. CASE Invalidated
  <2>1. past' \subseteq past /\ got' = got
    BY <1>2 DEF Invalidated, Invalidate
  <2> QED BY <2>1
<1>3. CASE Loaded
  <2>1. PICK r \in Readers \cup Pages : Load(r)
    BY <1>3 DEF Loaded
  <2>2. /\ past' = past
        /\ got' = got \/ (got' = [got EXCEPT ![r] = cache] /\ cache # "none")
    BY <2>1 DEF Load, Hit, Join, Begin
  <2> QED BY <2>2
<1>4. ASSUME NEW f \in Fetches, Store(f) PROVE SweepInv'
  <2>1. /\ past' = past /\ fetch[f] \in past
        /\ \A c \in Cleanups : got'[c] \in {got[c], fetch[f]}
    BY <1>4 DEF Store, Deliver
  <2> QED BY <2>1
<1>5. ASSUME NEW f \in Fetches, Answer(f) \/ FetchFails(f) PROVE SweepInv'
  <2>1. past' = past /\ \A c \in Cleanups : got'[c] \in {got[c], "failed"}
    BY <1>5 DEF Answer, FetchFails, Deliver
  <2>2. "failed" \notin Answers
    OBVIOUS
  <2> QED BY <2>1, <2>2
<1>6. ASSUME Expire PROVE SweepInv'
  BY <1>6 DEF Expire
<1> QED BY <1>1, <1>2, <1>3, <1>4, <1>5, <1>6 DEF CacheStep

\* Turning the guest adds to the history of every cleanup under way.
LEMMA SweepTurns ==
  ASSUME CacheInv, SweepInv, NEW k \in Answers, Turns(k),
         UNCHANGED <<got, cleaning>>
  PROVE  SweepInv'
<1> USE DEF CacheInv, CacheTypeOK, SweepInv, cleaning
<1>1. since' = [c \in Cleanups |-> IF sweep[c] = "idle" THEN {} ELSE since[c] \cup {k}]
  BY DEF Turns
<1>2. past' = past \cup {k}
  BY DEF Turns, Becomes
<1> QED BY <1>1, <1>2

LEMMA SweepActs ==
  ASSUME CacheInv, SweepInv, NEW c \in Cleanups, Sweep(c)
  PROVE  SweepInv'
<1> USE DEF CacheInv, CacheTypeOK, ServesThePast, SweepInv
<1>1. ASSUME SweepBegin(c) PROVE SweepInv'
  <2>1. /\ past' = past
        /\ got' = got \/ (got' = [got EXCEPT ![c] = cache] /\ cache # "none")
    BY <1>1 DEF SweepBegin, Load, Hit, Join, Begin
  <2>2. /\ got[c] = "none" /\ UNCHANGED orphans
        /\ sweep' = [sweep EXCEPT ![c] = "guests"]
        /\ since' = [since EXCEPT ![c] = past]
    BY <1>1 DEF SweepBegin
  <2> QED BY <2>1, <2>2
<1>2. ASSUME SweepGuests(c) PROVE SweepInv'
  <2>1. /\ got' = [got EXCEPT ![c] = "none"] /\ past' = past
        /\ sweep[c] = "guests" /\ got[c] # "none"
    BY <1>2 DEF SweepGuests
  <2>2. CASE SweepEnds(c) /\ UNCHANGED orphans
    BY <2>1, <2>2 DEF SweepEnds
  <2>3. CASE got[c] # "failed" /\ SweepGoes(c, "nodes") /\
             orphans' = [orphans EXCEPT ![c] = {a \in Archives : Orphaned(a, got[c])}]
    BY <2>1, <2>3, ZenonT(60) DEF SweepGoes, Orphaned, seen
  <2> QED BY <1>2, <2>2, <2>3 DEF SweepGuests
<1>3. ASSUME SweepNodes(c) PROVE SweepInv'
  BY <1>3, SweepKept DEF SweepNodes, Loaded
<1>4. ASSUME SweepFiles(c) PROVE SweepInv'
  <2>1. /\ got' = [got EXCEPT ![c] = "none"] /\ past' = past /\ sweep[c] = "nodes"
        /\ orphans' \in [Cleanups -> SUBSET Archives]
        /\ \A b \in Cleanups : orphans'[b] \subseteq orphans[b]
    BY <1>4 DEF SweepFiles
  <2>2. SweepEnds(c) \/ SweepGoes(c, "delete")
    BY <1>4 DEF SweepFiles
  <2>3. CASE SweepEnds(c)
    BY <2>1, <2>3 DEF SweepEnds
  <2>4. CASE SweepGoes(c, "delete")
    BY <2>1, <2>4 DEF SweepGoes, seen
  <2> QED BY <2>2, <2>3, <2>4
<1>5. ASSUME SweepDelete(c) PROVE SweepInv'
  <2>1. /\ UNCHANGED cacheVars /\ sweep[c] = "delete"
        /\ orphans' \in [Cleanups -> SUBSET Archives]
        /\ \A b \in Cleanups : orphans'[b] \subseteq orphans[b]
    BY <1>5 DEF SweepDelete
  <2>2. SweepEnds(c) \/ SweepGoes(c, "delete")
    BY <1>5 DEF SweepDelete
  <2>3. CASE SweepEnds(c)
    BY <2>1, <2>3 DEF SweepEnds, cacheVars
  <2>4. CASE SweepGoes(c, "delete")
    BY <2>1, <2>4 DEF SweepGoes, seen, cacheVars
  <2> QED BY <2>2, <2>3, <2>4
<1> QED BY <1>1, <1>2, <1>3, <1>4, <1>5 DEF Sweep

LEMMA SweepInvStep ==
  ASSUME CacheInv, SweepInv, [Next]_vars
  PROVE  SweepInv'
<1>1. ASSUME NEW d \in Deleters, Confirm(d) \/ Delete(d) PROVE SweepInv'
  <2>1. UNCHANGED <<cleaning, seen>>
    BY <1>1 DEF Delete, Confirm, ReadStatus, Call, CallThrows, Respond, Waited, Await, Poll,
       Advance, DirectPurge, OnlyDeletion
  <2>2. UNCHANGED cacheVars \/ Invalidated
    BY <1>1 DEF Delete, Confirm, ReadStatus, Call, CallThrows, Respond, Waited, Await, Poll,
       Advance, DirectPurge, OnlyDeletion, Invalidated, cacheVars
  <2> QED BY <2>1, <2>2, SweepKept DEF Untouched
<1>2. ASSUME NEW u \in Tasks, PurgeAfter(u) PROVE SweepInv'
  BY <1>2, SweepKept DEF PurgeAfter, Untouched
<1>3. ASSUME NEW u \in Tasks, TaskEnds(u) PROVE SweepInv'
  <2>1. CASE Turns("gone")
    BY <1>3, <2>1, SweepTurns DEF TaskEnds
  <2>2. CASE UNCHANGED <<kind, past, seen>>
    BY <1>3, <2>2, SweepKept DEF TaskEnds, Untouched, cacheVars
  <2> QED BY <1>3, <2>1, <2>2 DEF TaskEnds
<1>4. ASSUME OthersChange PROVE SweepInv'
  <2>1. ASSUME NEW k \in Answers, Turns(k) PROVE SweepInv'
    BY <1>4, <2>1, SweepTurns DEF OthersChange
  <2>2. CASE UNCHANGED <<kind, past, seen>>
    BY <1>4, <2>2, SweepKept DEF OthersChange, Untouched, cacheVars
  <2> QED BY <1>4, <2>1, <2>2 DEF OthersChange
<1>5. ASSUME NEW c \in Cleanups, Sweep(c) PROVE SweepInv'
  BY <1>5, SweepActs
<1>6. ASSUME NEW p \in Pages, PageLoad(p) PROVE SweepInv'
  BY <1>6, SweepKept DEF PageLoad, Loaded
<1>7. ASSUME OtherAction PROVE SweepInv'
  BY <1>7, SweepKept DEF OtherAction, Invalidated
<1>8. ASSUME CacheMoves PROVE SweepInv'
  BY <1>8, SweepKept DEF CacheMoves
<1>9. CASE UNCHANGED vars
  BY <1>9, SweepKept DEF vars, Untouched
<1> QED BY <1>1, <1>2, <1>3, <1>4, <1>5, <1>6, <1>7, <1>8, <1>9 DEF Next

\* A cleanup deletes only archives that were orphans at some moment since the
\* last quiet invalidation before it began (backup-service.ts:129,
\* inventory-cache.ts:61), however many cleanups, pages and fetches there are.
THEOREM CleanupsSeeInvalidation == Spec => CleanupSeesInvalidation
<1>1. Init => CacheInv /\ SweepInv
  BY CacheInvInit DEF Init, SweepInv
<1>2. CacheInv /\ SweepInv /\ [Next]_vars => (CacheInv /\ SweepInv)'
  BY OnlyThese, CacheInvStep, SweepInvStep
<1>3. CacheInv /\ SweepInv /\ [Next]_vars =>
        [\A c \in Cleanups, a \in archives \ archives' :
           sweep[c] = "delete" /\ a \in orphans[c] \ orphans'[c]
             => \E k \in since[c] : k \notin Keeps(a)]_vars
  BY DEF SweepInv
<1> QED BY <1>1, <1>2, <1>3, PTL DEF Spec, CleanupSeesInvalidation

(**************************** The deletions ********************************)

Record == [op : Ops, of : Kinds, st : {"free", "running", "ok", "failed"}]

DeletionTypes ==
  /\ archives \subseteq Archives
  /\ task \in [Tasks -> Record] /\ used \in 0..MaxTasks
  /\ stage \in [Deleters -> Stages] /\ mode \in [Deleters -> Modes]
  /\ target \in [Deleters -> Kinds]
  /\ ask \in [Deleters -> Ops] /\ phase \in [Deleters -> Ops \cup {"none"}]
  /\ upid \in [Deleters -> 0..MaxTasks]
  /\ settled \in [Deleters -> [upid : 0..MaxTasks, ok : BOOLEAN]]
  /\ chosen \in [Deleters -> SUBSET Archives]
  /\ purge \in [Tasks -> SUBSET Archives]

\* The task that a deletion or a purge is about, and how it ended when that is
\* known.  Task ids past `used` are free, so no other deletion has them.
Owns(d, op) == upid[d] \in 1..used /\ task[upid[d]].op = op /\ task[upid[d]].of = target[d]

Linked(d) ==
  /\ \A a \in chosen[d] : target[d] \in Keeps(a)
  /\ stage[d] = "called" => Owns(d, ask[d])
  /\ stage[d] = "tracking" => Owns(d, phase[d])
  /\ stage[d] \in {"purge", "done"} => Owns(d, "delete") /\ task[upid[d]].st = "ok"
  /\ settled[d].ok => settled[d].upid \in 1..used /\ task[settled[d].upid].st = "ok"

PurgeLinked(u) ==
  purge[u] # {} => /\ u <= used /\ task[u].op = "delete"
                   /\ \A a \in purge[u] : task[u].of \in Keeps(a)

DeletionInv ==
  /\ DeletionTypes
  /\ \A d \in Deleters : Linked(d)
  /\ \A u \in Tasks : PurgeLinked(u)

\* A step keeps what is known of the tasks that were accepted, and everything
\* of deletion e.
TasksGrow ==
  /\ used <= used'
  /\ \A u \in 1..used : /\ task'[u].op = task[u].op /\ task'[u].of = task[u].of
                        /\ task[u].st = "ok" => task'[u].st = "ok"

Spared(e) ==
  /\ stage'[e] = stage[e] /\ target'[e] = target[e] /\ ask'[e] = ask[e]
  /\ phase'[e] = phase[e] /\ upid'[e] = upid[e] /\ settled'[e] = settled[e]
  /\ chosen'[e] \subseteq chosen[e]

deletionSide == <<task, used, deletion, purge>>

LEMMA DeletionInit == Init => DeletionInv
<1> SUFFICES ASSUME Init PROVE DeletionInv
  OBVIOUS
<1> USE DEF Init, Ops, Stages
<1>1. Kinds # {}
  BY DEF CacheInit
<1>2. task \in [Tasks -> Record] /\ used \in 0..MaxTasks
  <2>1. (CHOOSE k \in Kinds : TRUE) \in Kinds
    BY <1>1
  <2> QED BY <2>1 DEF Record
<1>3. settled \in [Deleters -> [upid : 0..MaxTasks, ok : BOOLEAN]]
  OBVIOUS
<1>4. /\ stage \in [Deleters -> Stages] /\ mode \in [Deleters -> Modes]
      /\ target \in [Deleters -> Kinds]
      /\ ask \in [Deleters -> Ops] /\ phase \in [Deleters -> Ops \cup {"none"}]
      /\ upid \in [Deleters -> 0..MaxTasks]
  OBVIOUS
<1>5. chosen \in [Deleters -> SUBSET Archives] /\ purge \in [Tasks -> SUBSET Archives]
  OBVIOUS
<1>6. \A d \in Deleters : Linked(d)
  BY DEF Linked
<1>7. \A u \in Tasks : PurgeLinked(u)
  BY DEF PurgeLinked
<1> QED BY <1>2, <1>3, <1>4, <1>5, <1>6, <1>7 DEF DeletionTypes, DeletionInv

LEMMA LinkSpared ==
  ASSUME DeletionTypes, NEW e \in Deleters, Linked(e), TasksGrow, Spared(e), used' \in Nat
  PROVE  Linked(e)'
<1>1. ASSUME NEW op, Owns(e, op)
      PROVE  /\ upid[e] \in 1..used' /\ task'[upid[e]].op = op
             /\ task'[upid[e]].of = target[e]
  BY <1>1 DEF Owns, TasksGrow, DeletionTypes
<1>2. \A u \in 1..used : u \in 1..used' /\ (task[u].st = "ok" => task'[u].st = "ok")
  BY DEF TasksGrow, DeletionTypes
<1> QED BY <1>1, <1>2 DEF Linked, Owns, Spared

LEMMA PurgeSpared ==
  ASSUME DeletionTypes, NEW u \in Tasks, PurgeLinked(u), TasksGrow,
         purge'[u] \subseteq purge[u], used' \in Nat
  PROVE  PurgeLinked(u)'
<1> SUFFICES ASSUME purge[u] # {} PROVE PurgeLinked(u)'
  BY DEF PurgeLinked
<1>1. u \in 1..used
  BY DEF PurgeLinked, DeletionTypes
<1>2. u <= used'
  BY <1>1 DEF TasksGrow, DeletionTypes
<1>3. task'[u].op = "delete" /\ task'[u].of = task[u].of
  BY <1>1 DEF TasksGrow, PurgeLinked
<1> QED BY <1>2, <1>3 DEF PurgeLinked

\* The steps that have to do with no deletion.
LEMMA DeletionApart ==
  ASSUME DeletionInv, UNCHANGED deletionSide, archives' \subseteq archives
  PROVE  DeletionInv'
<1>1. DeletionTypes'
  BY DEF DeletionInv, DeletionTypes, deletionSide, deletion
<1>2. \A d \in Deleters : Linked(d)'
  BY DEF DeletionInv, Linked, Owns, deletionSide, deletion
<1>3. \A u \in Tasks : PurgeLinked(u)'
  BY DEF DeletionInv, PurgeLinked, deletionSide
<1> QED BY <1>1, <1>2, <1>3 DEF DeletionInv

\* The node's call: a new task, and the ids of the old ones stay.
LEMMA CallGrows ==
  ASSUME DeletionTypes, NEW d \in Deleters, Call(d)
  PROVE  /\ task' \in [Tasks -> Record] /\ used' \in 0..MaxTasks /\ used' = used + 1
         /\ upid' \in [Deleters -> 0..MaxTasks] /\ TasksGrow
         /\ used' \in Tasks /\ task'[used'] = [op |-> ask[d], of |-> target[d], st |-> "running"]
<1> USE DEF DeletionTypes
<1>1. /\ used < MaxTasks /\ used' = used + 1
      /\ task' = [task EXCEPT ![used + 1] = [op |-> ask[d], of |-> target[d], st |-> "running"]]
      /\ upid' = [upid EXCEPT ![d] = used + 1]
  BY DEF Call
<1>2. used' \in Tasks /\ used' \in 0..MaxTasks
  BY <1>1
<1>3. [op |-> ask[d], of |-> target[d], st |-> "running"] \in Record
  BY DEF Record
<1>4. task' \in [Tasks -> Record] /\ upid' \in [Deleters -> 0..MaxTasks]
  BY <1>1, <1>2, <1>3
<1>5. \A u \in 1..used : u \in Tasks /\ task'[u] = task[u]
  BY <1>1
<1> QED BY <1>1, <1>2, <1>4, <1>5 DEF TasksGrow

LEMMA DeletionTypeActs ==
  ASSUME DeletionTypes, NEW d \in Deleters, Confirm(d) \/ Delete(d)
  PROVE  DeletionTypes'
<1> USE DEF DeletionTypes, Ops, Stages
<1>1. ASSUME Confirm(d) PROVE DeletionTypes'
  <2>1. PICK S \in SUBSET {a \in archives : target[d] \in Keeps(a)} :
               chosen' = [chosen EXCEPT ![d] = S]
    BY <1>1 DEF Confirm
  <2>2. chosen' \in [Deleters -> SUBSET Archives]
    BY <2>1
  <2> QED BY <1>1, <2>2 DEF Confirm
<1>2. ASSUME ReadStatus(d) PROVE DeletionTypes'
  BY <1>2, ZenonT(60) DEF ReadStatus, Calls, Waits
<1>3. ASSUME Call(d) PROVE DeletionTypes'
  BY <1>3, CallGrows DEF Call
<1>4. ASSUME CallThrows(d) PROVE DeletionTypes'
  BY <1>4 DEF CallThrows
<1>5. ASSUME Respond(d) PROVE DeletionTypes'
  BY <1>5 DEF Respond
<1>6. ASSUME Waited(d) PROVE DeletionTypes'
  BY <1>6 DEF Waited
<1>7. ASSUME Await(d) PROVE DeletionTypes'
  BY <1>7, ZenonT(60) DEF Await, Calls
<1>8. ASSUME Poll(d) PROVE DeletionTypes'
  <2>1. settled' \in [Deleters -> [upid : 0..MaxTasks, ok : BOOLEAN]]
    BY <1>8 DEF Poll
  <2> QED BY <1>8, <2>1 DEF Poll
<1>9. ASSUME Advance(d) PROVE DeletionTypes'
  BY <1>9, ZenonT(60) DEF Advance
<1>10. ASSUME DirectPurge(d) PROVE DeletionTypes'
  <2>1. CASE UNCHANGED stage
    <3>1. PICK a \in chosen[d] \cap archives :
            archives' = archives \ {a} /\ chosen' = [chosen EXCEPT ![d] = @ \ {a}]
      BY <1>10, <2>1, ZenonT(60) DEF DirectPurge
    <3> QED BY <1>10, <2>1, <3>1 DEF DirectPurge
  <2>2. CASE UNCHANGED <<archives, chosen>>
    BY <1>10, <2>2 DEF DirectPurge
  <2> QED BY <1>10, <2>1, <2>2 DEF DirectPurge
<1> QED BY <1>1, <1>2, <1>3, <1>4, <1>5, <1>6, <1>7, <1>8, <1>9, <1>10 DEF Delete

\* The deletion that acts stays linked with its tasks.
LEMMA LinkActs ==
  ASSUME DeletionTypes, NEW d \in Deleters, Linked(d), Confirm(d) \/ Delete(d)
  PROVE  Linked(d)'
<1> USE DEF DeletionTypes, Linked, Owns
<1>1. ASSUME Confirm(d) PROVE Linked(d)'
  <2>1. PICK S \in SUBSET {a \in archives : target[d] \in Keeps(a)} :
               chosen' = [chosen EXCEPT ![d] = S]
    BY <1>1 DEF Confirm
  <2> QED BY <1>1, <2>1 DEF Confirm
<1>2. ASSUME ReadStatus(d) PROVE Linked(d)'
  <2>1. stage'[d] \in {"call", "await"}
    BY <1>2 DEF ReadStatus, Calls, Waits
  <2> QED BY <1>2, <2>1 DEF ReadStatus
<1>3. ASSUME Call(d) PROVE Linked(d)'
  <2>1. /\ stage'[d] = "called" /\ upid'[d] = used'
        /\ UNCHANGED <<target, ask, settled, chosen>>
    BY <1>3 DEF Call
  <2>2. used \in Nat /\ used' = used + 1 /\ TasksGrow
    <3>1. used \in Nat
      OBVIOUS
    <3> QED BY <3>1, <1>3, CallGrows
  <2>3. task'[used'] = [op |-> ask[d], of |-> target[d], st |-> "running"]
    BY <1>3, CallGrows
  <2>4. used' \in 1..used' /\ task'[used'].op = ask[d] /\ task'[used'].of = target[d]
    BY <2>2, <2>3
  <2>5. settled[d].ok => /\ settled[d].upid \in 1..used'
                         /\ task'[settled[d].upid].st = "ok"
    BY <2>2 DEF TasksGrow
  <2> QED BY <2>1, <2>4, <2>5
<1>4. ASSUME CallThrows(d) PROVE Linked(d)'
  <2>1. stage'[d] \in {"await", "failed"}
    BY <1>4 DEF CallThrows
  <2> QED BY <1>4, <2>1 DEF CallThrows
<1>5. ASSUME Respond(d) PROVE Linked(d)'
  BY <1>5 DEF Respond
<1>6. ASSUME Waited(d) PROVE Linked(d)'
  BY <1>6 DEF Waited
<1>7. ASSUME Await(d) PROVE Linked(d)'
  <2>1. stage'[d] \in {"call", "failed"}
    BY <1>7 DEF Await, Calls
  <2> QED BY <1>7, <2>1 DEF Await
<1>8. ASSUME Poll(d) PROVE Linked(d)'
  BY <1>8 DEF Poll
<1>9. ASSUME Advance(d) PROVE Linked(d)'
  BY <1>9 DEF Advance, Finished
<1>10. ASSUME DirectPurge(d) PROVE Linked(d)'
  BY <1>10 DEF DirectPurge
<1> QED BY <1>1, <1>2, <1>3, <1>4, <1>5, <1>6, <1>7, <1>8, <1>9, <1>10 DEF Delete

\* A deletion leaves the tasks and the other deletions what they are.
LEMMA OthersSpared ==
  ASSUME DeletionTypes, NEW d \in Deleters, Confirm(d) \/ Delete(d)
  PROVE  TasksGrow /\ \A e \in Deleters \ {d} : Spared(e)
<1> USE DEF DeletionTypes, Spared
<1>1. ASSUME UNCHANGED <<task, used>> PROVE TasksGrow
  BY <1>1 DEF TasksGrow
<1>2. ASSUME Confirm(d) \/ ReadStatus(d) \/ CallThrows(d) \/ Respond(d) \/ Waited(d)
      PROVE  UNCHANGED <<task, used>> /\ \A e \in Deleters \ {d} : Spared(e)
  BY <1>2 DEF Confirm, ReadStatus, Calls, Waits, CallThrows, Respond, Waited
<1>3. ASSUME Await(d) \/ Poll(d)
      PROVE  UNCHANGED <<task, used>> /\ \A e \in Deleters \ {d} : Spared(e)
  BY <1>3, ZenonT(60) DEF Await, Calls, Poll
<1>4. ASSUME Advance(d) \/ DirectPurge(d)
      PROVE  UNCHANGED <<task, used>> /\ \A e \in Deleters \ {d} : Spared(e)
  BY <1>4 DEF Advance, DirectPurge
<1>5. ASSUME Call(d) PROVE TasksGrow /\ \A e \in Deleters \ {d} : Spared(e)
  <2>1. TasksGrow
    BY <1>5, CallGrows
  <2>2. \A e \in Deleters \ {d} : Spared(e)
    BY <1>5 DEF Call
  <2> QED BY <2>1, <2>2
<1> HIDE DEF DeletionTypes, Spared
<1> QED BY <1>1, <1>2, <1>3, <1>4, <1>5 DEF Delete

LEMMA PurgeActs ==
  ASSUME DeletionTypes, NEW d \in Deleters, Linked(d), Confirm(d) \/ Delete(d),
         NEW u \in Tasks, PurgeLinked(u)
  PROVE  PurgeLinked(u)'
<1>1. ASSUME purge'[u] \subseteq purge[u] PROVE PurgeLinked(u)'
  <2>1. used' \in Nat
    BY DeletionTypeActs DEF DeletionTypes
  <2> QED BY <1>1, <2>1, OthersSpared, PurgeSpared
<1>2. ASSUME ~Respond(d) PROVE purge' = purge
  BY <1>2 DEF Delete, Confirm, ReadStatus, Call, CallThrows, Waited, Await, Poll, Advance,
     DirectPurge
<1>3. ASSUME Respond(d), u = upid[d], ask[d] = "delete" PROVE PurgeLinked(u)'
  <2>1. purge'[u] = chosen[d] /\ UNCHANGED <<task, used, target>> /\ Owns(d, "delete")
    BY <1>3 DEF Respond, DeletionTypes, Linked
  <2> QED BY <1>3, <2>1 DEF PurgeLinked, Linked, Owns, DeletionTypes
<1>4. ASSUME Respond(d), u # upid[d] \/ ask[d] # "delete" PROVE purge'[u] \subseteq purge[u]
  BY <1>4 DEF Respond, DeletionTypes
<1> QED BY <1>1, <1>2, <1>3, <1>4

LEMMA DeletionActs ==
  ASSUME DeletionInv, NEW d \in Deleters, Confirm(d) \/ Delete(d)
  PROVE  DeletionInv'
<1> USE DEF DeletionInv
<1>1. DeletionTypes' /\ used' \in Nat
  BY DeletionTypeActs DEF DeletionTypes
<1>2. ASSUME NEW e \in Deleters PROVE Linked(e)'
  BY <1>1, LinkActs, OthersSpared, LinkSpared
<1>3. ASSUME NEW u \in Tasks PROVE PurgeLinked(u)'
  BY PurgeActs
<1> QED BY <1>1, <1>2, <1>3

LEMMA DeletionInvStep ==
  ASSUME DeletionInv, [Next]_vars
  PROVE  DeletionInv'
<1>1. ASSUME NEW d \in Deleters, Confirm(d) \/ Delete(d) PROVE DeletionInv'
  BY <1>1, DeletionActs
<1>2. ASSUME NEW u \in Tasks, TaskEnds(u) PROVE DeletionInv'
  <2> USE DEF DeletionInv, DeletionTypes
  <2>1. /\ UNCHANGED <<archives, used, deletion, purge>>
        /\ \E end \in {"ok", "failed"} : task' = [task EXCEPT ![u].st = end]
        /\ task[u].st = "running"
    BY <1>2 DEF TaskEnds
  <2>2. DeletionTypes'
    <3>1. PICK end \in {"ok", "failed"} : task' = [task EXCEPT ![u].st = end]
      BY <2>1
    <3>2. [task[u] EXCEPT !.st = end] \in Record
      <4>1. task[u] \in Record
        OBVIOUS
      <4>2. \A t \in Record : [t EXCEPT !.st = end] \in Record
        BY DEF Record
      <4> QED BY <4>1, <4>2
    <3>3. task' \in [Tasks -> Record]
      BY <3>1, <3>2
    <3> QED BY <2>1, <3>3 DEF deletion
  <2>3. TasksGrow /\ used' \in Nat
    <3>1. \A v \in Tasks : /\ task'[v].op = task[v].op /\ task'[v].of = task[v].of
                           /\ task[v].st = "ok" => task'[v].st = "ok"
      <4>1. PICK end : task' = [task EXCEPT ![u].st = end]
        BY <2>1
      <4>2. \A v \in Tasks : v # u => task'[v] = task[v]
        BY <4>1
      <4>3. task'[u] = [task[u] EXCEPT !.st = end] /\ task[u] \in Record
        BY <4>1
      <4>4. task'[u].op = task[u].op /\ task'[u].of = task[u].of
        BY <4>3 DEF Record
      <4> QED BY <2>1, <4>2, <4>4
    <3>2. \A v \in 1..used : v \in Tasks
      OBVIOUS
    <3> QED BY <2>1, <3>1, <3>2 DEF TasksGrow
  <2>4. \A e \in Deleters : Spared(e)
    BY <2>1 DEF Spared, deletion
  <2>5. \A e \in Deleters : Linked(e)'
    BY <2>3, <2>4, LinkSpared
  <2>6. \A v \in Tasks : PurgeLinked(v)'
    BY <2>1, <2>3, PurgeSpared
  <2> QED BY <2>2, <2>5, <2>6
<1>3. ASSUME NEW u \in Tasks, PurgeAfter(u) PROVE DeletionInv'
  <2> USE DEF DeletionInv, DeletionTypes
  <2>1. /\ UNCHANGED <<task, used, deletion>> /\ archives' \subseteq archives
        /\ purge' \in [Tasks -> SUBSET Archives]
        /\ \A v \in Tasks : purge'[v] \subseteq purge[v]
    <3>1. CASE purge' = [purge EXCEPT ![u] = {}] /\ UNCHANGED archives
      BY <1>3, <3>1 DEF PurgeAfter
    <3>2. ASSUME NEW a \in archives, archives' = archives \ {a},
                 purge' = [purge EXCEPT ![u] = @ \ {a}]
          PROVE  /\ UNCHANGED <<task, used, deletion>> /\ archives' \subseteq archives
                 /\ purge' \in [Tasks -> SUBSET Archives]
                 /\ \A v \in Tasks : purge'[v] \subseteq purge[v]
      BY <1>3, <3>2 DEF PurgeAfter
    <3> QED BY <1>3, <3>1, <3>2 DEF PurgeAfter
  <2>2. DeletionTypes' /\ TasksGrow /\ used' \in Nat
    BY <2>1 DEF TasksGrow, deletion
  <2>3. \A e \in Deleters : Spared(e)
    BY <2>1 DEF Spared, deletion
  <2>4. \A e \in Deleters : Linked(e)'
    BY <2>2, <2>3, LinkSpared
  <2>5. \A v \in Tasks : PurgeLinked(v)'
    BY <2>1, <2>2, PurgeSpared
  <2> QED BY <2>2, <2>4, <2>5
<1>4. ASSUME NEW c \in Cleanups, Sweep(c)
      PROVE  UNCHANGED deletionSide /\ archives' \subseteq archives
  BY <1>4 DEF Sweep, SweepBegin, SweepGuests, SweepNodes, SweepFiles, SweepDelete,
     OnlyCleaning, deletionSide
<1>5. ASSUME NEW p \in Pages, PageLoad(p) PROVE UNCHANGED <<deletionSide, archives>>
  BY <1>5 DEF PageLoad, OnlyCleaning, deletionSide
<1>6. ASSUME OthersChange \/ OtherAction \/ CacheMoves
      PROVE  UNCHANGED <<deletionSide, archives>>
  BY <1>6 DEF OthersChange, OtherAction, CacheMoves, OnlyCleaning, deletionSide
<1>7. CASE UNCHANGED vars
  BY <1>7, DeletionApart DEF vars, deletionSide
<1> QED BY <1>1, <1>2, <1>3, <1>4, <1>5, <1>6, <1>7, DeletionApart DEF Next

LEMMA DeletionInvariant == Spec => []DeletionInv
<1>1. DeletionInv /\ [Next]_vars => DeletionInv'
  BY DeletionInvStep
<1> QED BY DeletionInit, <1>1, PTL DEF Spec

\* "Deleted" is only said of a guest whose own delete task ended well, whatever
\* phase an answer is about (CHANGELOG.md:291), for any number of deletions and
\* tasks.
THEOREM DeletedTrue == Spec => []DeletedIsTrue
<1>1. DeletionInv => DeletedIsTrue
  <2> SUFFICES ASSUME DeletionInv, NEW d \in Deleters, stage[d] = "done"
               PROVE  /\ upid[d] \in Tasks
                      /\ task[upid[d]] = [op |-> "delete", of |-> target[d], st |-> "ok"]
    BY DEF DeletedIsTrue
  <2>1. upid[d] \in Tasks /\ task[upid[d]] \in Record
    BY DEF DeletionInv, DeletionTypes, Linked, Owns
  <2>2. task[upid[d]].op = "delete" /\ task[upid[d]].of = target[d] /\ task[upid[d]].st = "ok"
    BY DEF DeletionInv, Linked, Owns
  <2> QED BY <2>1, <2>2 DEF Record
<1> QED BY DeletionInvariant, <1>1, PTL

\* An archive goes only after a delete task of its guest ended well, or because
\* a cleanup took it for an orphan (guest-delete.ts:94), for any number of
\* deletions, archives and tasks.
THEOREM ArchivesKept == Spec => ArchivesGoForAReason
<1>1. DeletionInv /\ [Next]_vars =>
        [\A a \in archives \ archives' :
           \/ \E c \in Cleanups : sweep[c] = "delete" /\ a \in orphans[c]
           \/ Deleted(a)]_vars
  <2> SUFFICES ASSUME DeletionInv, Next, NEW a \in archives \ archives'
               PROVE  \/ \E c \in Cleanups : sweep[c] = "delete" /\ a \in orphans[c]
                      \/ Deleted(a)
    OBVIOUS
  <2>1. ASSUME NEW d \in Deleters, DirectPurge(d) PROVE Deleted(a)
    <3>1. stage[d] = "purge" /\ a \in chosen[d]
      BY <2>1 DEF DirectPurge
    <3>2. /\ upid[d] \in Tasks /\ task[upid[d]].op = "delete"
          /\ task[upid[d]].st = "ok" /\ task[upid[d]].of = target[d]
      BY <3>1 DEF DeletionInv, DeletionTypes, Linked, Owns
    <3>3. target[d] \in Keeps(a)
      BY <3>1 DEF DeletionInv, Linked
    <3> QED BY <3>2, <3>3 DEF Deleted
  <2>2. ASSUME NEW u \in Tasks, PurgeAfter(u) PROVE Deleted(a)
    <3>1. task[u].st = "ok" /\ a \in purge[u]
      BY <2>2 DEF PurgeAfter
    <3> QED BY <3>1 DEF DeletionInv, PurgeLinked, Deleted
  <2>3. ASSUME NEW c \in Cleanups, SweepDelete(c)
        PROVE  sweep[c] = "delete" /\ a \in orphans[c]
    BY <2>3 DEF SweepDelete
  <2>4. ASSUME NEW d \in Deleters, Confirm(d) \/ Delete(d), ~DirectPurge(d)
        PROVE  archives' = archives
    BY <2>4 DEF Delete, Confirm, ReadStatus, Call, CallThrows, Respond, Waited, Await, Poll,
       Advance
  <2>5. ASSUME NEW c \in Cleanups, Sweep(c), ~SweepDelete(c) PROVE archives' = archives
    BY <2>5 DEF Sweep, SweepBegin, SweepGuests, SweepNodes, SweepFiles
  <2>6. ASSUME NEW u \in Tasks, TaskEnds(u) PROVE archives' = archives
    BY <2>6 DEF TaskEnds
  <2>7. ASSUME \/ \E p \in Pages : PageLoad(p)
               \/ OthersChange \/ OtherAction \/ CacheMoves
        PROVE  archives' = archives
    BY <2>7 DEF PageLoad, OthersChange, OtherAction, CacheMoves
  <2> QED BY <2>1, <2>2, <2>3, <2>4, <2>5, <2>6, <2>7 DEF Next
<1> QED BY DeletionInvariant, <1>1, PTL DEF Spec, ArchivesGoForAReason

(****************************** All types **********************************)

OtherTypes ==
  /\ running \in BOOLEAN /\ changes \in 0..MaxChanges
  /\ during \in [Cleanups -> SUBSET Answers]

LEMMA OtherTypesStep ==
  ASSUME CacheInv, OtherTypes, [Next]_vars
  PROVE  OtherTypes'
<1> USE DEF OtherTypes
<1>1. ASSUME NEW d \in Deleters, Confirm(d) \/ Delete(d) PROVE OtherTypes'
  <2>1. UNCHANGED <<running, changes, seen>>
    BY <1>1 DEF Delete, Confirm, ReadStatus, Call, CallThrows, Respond, Waited, Await, Poll,
       Advance, DirectPurge, OnlyDeletion
  <2> QED BY <2>1 DEF seen
<1>2. ASSUME NEW u \in Tasks, PurgeAfter(u) PROVE OtherTypes'
  BY <1>2 DEF PurgeAfter, seen
<1>3. ASSUME NEW k \in Answers, Turns(k) PROVE during' \in [Cleanups -> SUBSET Answers]
  BY <1>3 DEF Turns
<1>4. ASSUME NEW u \in Tasks, TaskEnds(u) PROVE OtherTypes'
  <2>1. running' \in BOOLEAN /\ changes' = changes
    BY <1>4 DEF TaskEnds
  <2>2. during' = during \/ Turns("gone")
    BY <1>4 DEF TaskEnds, seen
  <2> QED BY <2>1, <2>2, <1>3
<1>5. ASSUME OthersChange PROVE OtherTypes'
  <2>1. running' \in BOOLEAN
    BY <1>5 DEF OthersChange
  <2>2. changes' \in 0..MaxChanges
    BY <1>5 DEF OthersChange
  <2>3. during' = during \/ \E k \in Answers : Turns(k)
    BY <1>5 DEF OthersChange, seen
  <2> QED BY <2>1, <2>2, <2>3, <1>3
<1>6. ASSUME NEW c \in Cleanups, Sweep(c) PROVE OtherTypes'
  <2>1. running' = running /\ changes' = changes
    BY <1>6 DEF Sweep, SweepBegin, SweepGuests, SweepNodes, SweepFiles, SweepDelete, OnlyCleaning
  <2>2. \E S \in SUBSET Answers : during' \in {during, [during EXCEPT ![c] = S]}
    BY <1>6 DEF Sweep, SweepBegin, SweepGuests, SweepNodes, SweepFiles, SweepDelete,
       SweepEnds, SweepGoes, seen, CacheInv, CacheTypeOK
  <2>3. during' \in [Cleanups -> SUBSET Answers]
    BY <2>2
  <2> QED BY <2>1, <2>3
<1>7. ASSUME NEW p \in Pages, PageLoad(p) PROVE OtherTypes'
  BY <1>7 DEF PageLoad, OnlyCleaning, seen
<1>8. ASSUME OtherAction \/ CacheMoves PROVE OtherTypes'
  BY <1>8 DEF OtherAction, CacheMoves, OnlyCleaning, seen
<1>9. CASE UNCHANGED vars
  BY <1>9 DEF vars, seen
<1> QED BY <1>1, <1>2, <1>4, <1>5, <1>6, <1>7, <1>8, <1>9 DEF Next

\* The variables have their types, whoever interleaves.
THEOREM TypeCorrect == Spec => []TypeOK
<1> DEFINE Inv == CacheInv /\ SweepInv /\ DeletionInv /\ OtherTypes
<1>1. Init => Inv
  BY CacheInvInit, DeletionInit DEF Init, SweepInv, OtherTypes
<1>2. Inv /\ [Next]_vars => Inv'
  BY OnlyThese, CacheInvStep, SweepInvStep, DeletionInvStep, OtherTypesStep
<1>3. Inv => TypeOK
  BY DEF TypeOK, CacheInv, SweepInv, DeletionInv, DeletionTypes, Record, OtherTypes
<1> HIDE DEF Inv
<1> QED BY <1>1, <1>2, <1>3, PTL DEF Spec

=============================================================================
