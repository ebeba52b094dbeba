------------------------ MODULE RestoreFinal_proofs -------------------------
(* RestoreJobs keeps its word across both copies, the row and restarts: one *)
(* worker per restore, no request and no report after an end that was told, *)
(* and Restores as a whole.  Requests come after resumeRestoreJobs has read *)
(* the row (~EarlyEnqueue).  The views of a step are those of               *)
(* RestoreJobs_proofs and RestoreReports_proofs.                            *)
EXTENDS RestoreReports_proofs

USE RestoreAssumption DEF Bundles

----------------------------------------------------------------------------
(* One worker.                                                             *)

\* An id that was never handed out has no worker.
FreshIdle == \A j \in Jobs \ enqueued, b \in Bundles : pc[b][j] = "idle"

\* A restore lives in one copy of the module: bundle b has nothing of j, not
\* even in the write it has under way.
Empty(b, j) ==
  pc[b][j] = "idle" /\ job[b][j].phase = "none" /\ image[b][j].phase = "none"

Unresumed(j) == resume.step = "read" \/ resume.left[j].phase /= "none"

Sides ==
  \A j \in Jobs : Empty(RouteBundle, j) \/ (Empty(ServerBundle, j) /\ ~Unresumed(j))

\* Somebody may yet start a worker for j.
Startable(j) ==
  \/ j \notin enqueued \/ Unresumed(j)
  \/ resume.step = "user" /\ resume.current = j

LEMMA FreshIdleStep == IInv /\ FreshIdle /\ Seen => FreshIdle'
<1> SUFFICES ASSUME IInv, FreshIdle, Seen, NEW j \in Jobs \ enqueued', NEW b \in Bundles
             PROVE  pc'[b][j] = "idle"
  BY DEF FreshIdle
<1>1. j \notin enqueued /\ pc[b][j] = "idle" /\ job[b][j] = Absent
  BY DEF Seen, FreshIdle, IInv, FreshAbsent
<1>2. resume.step = "user" /\ b = ServerBundle => resume.current /= j
  BY <1>1, AbsentUpid DEF IInv, ResumeOrder, IsActive
<1>3. CellMove(b, j)
  BY DEF Seen
<1> QED BY <1>1, <1>2, <1>3, AbsentUpid DEF CellMove, Same, Began, Advanced, Retried, Named,
     Failed, Dropped, Taken, Restarted, IsActive

\* A copy that has nothing of a job gets it by enqueueRestoreJob only, once
\* resumeRestoreJobs has nothing of it either.
LEMMA EmptyStays ==
  ASSUME IInv, Seen, NEW b \in Bundles, NEW j \in Jobs, Empty(b, j),
         b = ServerBundle => ~Unresumed(j)
  PROVE  Empty(b, j)' \/ Began(b, j)
<1>1. pc[b][j] = "idle" /\ job[b][j].phase = "none" /\ image[b][j].phase = "none"
  BY DEF Empty
<1>2. resume.step = "user" /\ b = ServerBundle => resume.current /= j
  BY <1>1 DEF IInv, ResumeOrder, IsActive
<1>3. CellMove(b, j)
  BY DEF Seen
<1>4. Began(b, j) \/ (pc'[b][j] = "idle" /\ job'[b][j].phase = "none")
  BY <1>1, <1>2, <1>3, AbsentUpid DEF CellMove, Same, Advanced, Retried, Named,
     Failed, Dropped, Taken, Restarted, IsActive, Unresumed
<1>5. image'[b][j] \in {image[b][j], job[b][j], Absent}
  BY DEF Seen, RowMove
<1> QED BY <1>1, <1>4, <1>5, AbsentUpid DEF Empty

LEMMA ResumedStays ==
  ASSUME Seen, NEW j \in Jobs, ~Unresumed(j)
  PROVE  ~Unresumed(j)'
BY AbsentUpid DEF Seen, ResumeMove, Unresumed

LEMMA SidesStep ==
  ASSUME ~EarlyEnqueue, IInv, FreshIdle, Sides, Seen
  PROVE  Sides'
<1> SUFFICES ASSUME NEW j \in Jobs, ~Empty(RouteBundle, j)'
             PROVE  Empty(ServerBundle, j)' /\ ~Unresumed(j)'
  BY DEF Sides
<1>1. ~Began(ServerBundle, j)
  BY DEF Began
<1>2. Empty(ServerBundle, j) /\ ~Unresumed(j)
  <2>1. CASE Empty(RouteBundle, j)
    <3>1. Began(RouteBundle, j)
      BY <2>1, EmptyStays
    <3>2. j \notin enqueued /\ resume.step /= "read"
      BY <3>1 DEF Began
    <3> QED BY <3>2, AbsentUpid DEF IInv, FreshAbsent, FreshIdle, Empty, Unresumed
  <2>2. CASE ~Empty(RouteBundle, j)
    BY <2>2 DEF Sides
  <2> QED BY <2>1, <2>2
<1> QED BY <1>1, <1>2, EmptyStays, ResumedStays

\* A job that somebody works on is worked on nowhere else, and nobody will
\* start on it.
Alone ==
  \A j \in Jobs, b \in Bundles : pc[b][j] /= "idle" =>
    ~Startable(j) /\ \A c \in Bundles : c /= b => pc[c][j] = "idle"

LEMMA WorkerAlone == IInv /\ FreshIdle /\ Sides => Alone
<1> SUFFICES ASSUME IInv, FreshIdle, Sides, NEW j \in Jobs, NEW b \in Bundles, pc[b][j] /= "idle"
             PROVE  ~Startable(j) /\ \A c \in Bundles : c /= b => pc[c][j] = "idle"
  BY DEF Alone
<1>1. j \in enqueued
  BY DEF FreshIdle
<1>2. CASE b = RouteBundle
  <2>1. Empty(ServerBundle, j) /\ ~Unresumed(j)
    BY <1>2 DEF Sides, Empty
  <2>2. ~(resume.step = "user" /\ resume.current = j)
    BY <2>1 DEF Empty, IInv, ResumeOrder, IsActive
  <2> QED BY <1>1, <1>2, <2>1, <2>2 DEF Startable, Empty
<1>3. CASE b = ServerBundle
  <2>1. ~Unresumed(j) /\ ~(resume.step = "user" /\ resume.current = j)
    BY <1>3 DEF IInv, ResumeOrder, Unresumed
  <2>2. Empty(RouteBundle, j)
    BY <1>3 DEF Sides, Empty
  <2> QED BY <1>1, <1>3, <2>1, <2>2 DEF Startable, Empty
<1> QED BY <1>2, <1>3

\* Before a crash the ids are handed out, after it every copy is empty.
LEMMA DiedSides ==
  ASSUME Died PROVE Sides' /\ FreshIdle'
BY AbsentUpid DEF Died, Sides, Empty, FreshIdle

SideInv == FreshIdle /\ Sides

LEMMA SideInductive ==
  ASSUME ~EarlyEnqueue PROVE IInv /\ SideInv /\ [Next]_vars => SideInv'
<1> SUFFICES ASSUME IInv, SideInv, [Next]_vars PROVE SideInv'
  OBVIOUS
<1>1. CASE Seen
  BY <1>1, FreshIdleStep, SidesStep DEF SideInv
<1>2. CASE Crash
  BY <1>2, CrashDied, DiedSides DEF SideInv, IInv
<1>3. CASE UNCHANGED vars
  BY <1>3 DEF vars, bundleVars, history, bounds, SideInv, FreshIdle, Sides, Empty, Unresumed
<1> QED BY <1>1, <1>2, <1>3, SeenStep

LEMMA SideInit == Init => SideInv
BY AbsentUpid DEF Init, SideInv, FreshIdle, Sides, Empty, Nothing

LEMMA AlwaysAlone == ASSUME ~EarlyEnqueue PROVE Spec => [](SideInv /\ Alone)
<1>1. Init => SideInv
  BY SideInit
<1>2. IInv /\ SideInv /\ [Next]_vars => SideInv'
  BY SideInductive
<1>3. IInv /\ SideInv => Alone
  BY WorkerAlone DEF SideInv
<1> QED BY <1>1, <1>2, <1>3, CopiesAgree, PTL DEF Spec

\* Both copies of restore-jobs.ts and resumeRestoreJobs never work on the same
\* restore, as long as no request comes before the row was read.
THEOREM WorkersAlone == ASSUME ~EarlyEnqueue PROVE Spec => []OneWorker
<1>1. Alone => OneWorker
  BY DEF Alone, OneWorker, Startable
<1> QED BY <1>1, AlwaysAlone, PTL

----------------------------------------------------------------------------
(* The write queue.                                                        *)

Saving == {"saveAttempt", "saveUpid", "saveRunning", "saveDelete", "saveError"}

\* A queue q of a copy whose workers stand at p: whoever awaits a write is at a
\* step that awaits one, and awaits only one.
QueueOK(q, p) ==
  /\ \A i \in 1..Len(q) : q[i] /= Nobody => p[q[i]] \in Saving
  /\ \A i, k \in 1..Len(q) : q[i] = q[k] /\ q[i] /= Nobody => i = k

\* A write that ends a restore does not store it as unfinished.
HeadOK(b) ==
  b \in busy =>
    /\ Len(chain[b]) > 0
    /\ Head(chain[b]) /= Nobody /\ pc[b][Head(chain[b])] \in {"saveDelete", "saveError"}
         => ~IsActive(image[b][Head(chain[b])])

Unlisted(b) == \A j \in Jobs : pc[b][j] = "saveDelete" => j \notin listed[b]

QueueInv == \A b \in Bundles : QueueOK(chain[b], pc[b]) /\ HeadOK(b) /\ Unlisted(b)

Waiters == Jobs \cup {Nobody}

LEMMA AppendNobody ==
  ASSUME NEW q \in Seq(Waiters), NEW p, QueueOK(q, p)
  PROVE  QueueOK(Append(q, Nobody), p)
BY DEF QueueOK

LEMMA AppendJob ==
  ASSUME NEW q \in Seq(Waiters), NEW p, QueueOK(q, p), NEW j \in Jobs,
         \A i \in 1..Len(q) : q[i] /= j,
         NEW r, r[j] \in Saving, \A i \in Jobs : i /= j => r[i] = p[i]
  PROVE  QueueOK(Append(q, j), r)
<1>1. \A i \in 1..Len(q) : q[i] \in Waiters
  BY ElementOfSeq
<1>2. /\ Len(Append(q, j)) = Len(q) + 1 /\ Len(q) \in Nat
      /\ \A i \in 1..Len(q) : Append(q, j)[i] = q[i]
      /\ Append(q, j)[Len(q) + 1] = j
  BY AppendProperties DEF Waiters
<1>3. \A i \in 1..Len(q) : q[i] /= Nobody => r[q[i]] \in Saving
  BY <1>1 DEF QueueOK, Waiters
<1>4. \A i \in 1..(Len(q) + 1) : i \in 1..Len(q) \/ i = Len(q) + 1
  <2>1. Len(q) \in Nat
    BY <1>2
  <2> HIDE DEF Saving
  <2> QED BY ONLY <2>1
<1> DEFINE a == Append(q, j)
<1>5. ASSUME NEW i \in 1..Len(a), a[i] /= Nobody PROVE r[a[i]] \in Saving
  <2>1. CASE i \in 1..Len(q)
    BY <1>2, <1>3, <1>5, <2>1
  <2>2. CASE i = Len(q) + 1
    BY <1>2, <2>2
  <2> QED BY <1>2, <1>4, <2>1, <2>2
<1>6. ASSUME NEW i \in 1..Len(a), NEW k \in 1..Len(a), a[i] = a[k], a[i] /= Nobody
      PROVE  i = k
  <2>1. CASE i \in 1..Len(q) /\ k \in 1..Len(q)
    BY <1>2, <1>6, <2>1 DEF QueueOK
  <2>2. CASE i = Len(q) + 1 /\ k = Len(q) + 1
    BY <2>2
  <2>3. CASE i \in 1..Len(q) /\ k = Len(q) + 1
    BY <1>2, <1>6, <2>3
  <2>4. CASE i = Len(q) + 1 /\ k \in 1..Len(q)
    BY <1>2, <1>6, <2>4
  <2> QED BY <1>2, <1>4, <2>1, <2>2, <2>3, <2>4
<1> QED BY <1>5, <1>6 DEF QueueOK

LEMMA TailQueue ==
  ASSUME NEW q \in Seq(Waiters), NEW p, QueueOK(q, p), Len(q) > 0,
         NEW r, \A i \in Jobs : i /= Head(q) => r[i] = p[i]
  PROVE  /\ QueueOK(Tail(q), r)
         /\ Head(q) /= Nobody => \A i \in 1..Len(Tail(q)) : Tail(q)[i] /= Head(q)
<1>1. /\ Len(Tail(q)) = Len(q) - 1 /\ Len(q) \in Nat /\ Head(q) = q[1]
      /\ \A i \in 1..Len(Tail(q)) : Tail(q)[i] = q[i + 1] /\ i + 1 \in 1..Len(q)
      /\ \A i \in 1..Len(q) : q[i] \in Waiters
  OBVIOUS
<1>2. \A i \in 1..Len(Tail(q)) : Tail(q)[i] /= Nobody => Tail(q)[i] /= Head(q)
  BY <1>1 DEF QueueOK
<1>3. \A i \in 1..Len(Tail(q)) : Tail(q)[i] /= Nobody => r[Tail(q)[i]] \in Saving
  BY <1>1, <1>2 DEF QueueOK, Waiters
<1>4. \A i, k \in 1..Len(Tail(q)) : Tail(q)[i] = Tail(q)[k] /\ Tail(q)[i] /= Nobody => i = k
  BY <1>1 DEF QueueOK
<1> QED BY <1>2, <1>3, <1>4 DEF QueueOK

LEMMA QuietQueue ==
  ASSUME NEW q \in Seq(Waiters), NEW p, QueueOK(q, p),
         NEW r, \A i \in Jobs : r[i] = p[i] \/ p[i] \notin Saving
  PROVE  QueueOK(q, r)
<1>1. \A i \in 1..Len(q) : q[i] \in Waiters
  BY ElementOfSeq
<1> QED BY <1>1 DEF QueueOK, Waiters

\* What one step does to the queue of a copy.
Grows(b) ==
  \/ /\ chain'[b] = chain[b]
     /\ \A i \in Jobs : pc'[b][i] = pc[b][i] \/ pc[b][i] \notin Saving
  \/ /\ chain'[b] = Append(chain[b], Nobody)
     /\ \A i \in Jobs : pc'[b][i] = pc[b][i]
  \/ \E j \in Jobs :
       /\ pc[b][j] \notin Saving /\ pc'[b][j] \in Saving
       /\ \A i \in Jobs : i /= j => pc'[b][i] = pc[b][i]
       /\ chain'[b] \in {Append(chain[b], j), Append(Append(chain[b], Nobody), j)}
Shrinks(b) ==
  /\ Len(chain[b]) > 0
  /\ \A i \in Jobs : i /= Head(chain[b]) => pc'[b][i] = pc[b][i]
  /\ \/ chain'[b] = Tail(chain[b])
     \/ \E j \in Jobs : /\ j = Head(chain[b]) /\ pc'[b][j] \in Saving
                        /\ chain'[b] = Append(Tail(chain[b]), j)
QueueMove(b) ==
  \/ Grows(b) /\ (b \in busy' => b \in busy /\ image'[b] = image[b])
  \/ Shrinks(b) /\ b \notin busy'
  \/ WriteStart(b)

LEMMA HeadStays ==
  ASSUME NEW q \in Seq(Waiters), Len(q) > 0, NEW w \in Waiters
  PROVE  /\ Append(q, w) \in Seq(Waiters) /\ Len(Append(q, w)) > 0
         /\ Head(Append(q, w)) = Head(q)
<1>1. /\ Append(q, w) \in Seq(Waiters) /\ Len(Append(q, w)) = Len(q) + 1
      /\ \A i \in 1..Len(q) : Append(q, w)[i] = q[i]
  BY AppendProperties
<1>2. Len(q) \in Nat /\ 1 \in 1..Len(q)
  OBVIOUS
<1>3. Head(Append(q, w)) = Append(q, w)[1] /\ Head(q) = q[1]
  BY <1>1, <1>2
<1> QED BY <1>1, <1>2, <1>3

LEMMA HeadWaits ==
  ASSUME NEW q \in Seq(Waiters), NEW p, QueueOK(q, p), Len(q) > 0, Head(q) /= Nobody
  PROVE  Head(q) \in Jobs /\ p[Head(q)] \in Saving
<1>1. Head(q) = q[1] /\ 1 \in 1..Len(q)
  OBVIOUS
<1>2. Head(q) \in Waiters
  BY <1>1, ElementOfSeq
<1> QED BY <1>1, <1>2 DEF QueueOK, Waiters

LEMMA QueueKept ==
  ASSUME TypeOK, NEW b \in Bundles, QueueOK(chain[b], pc[b]), QueueMove(b)
  PROVE  QueueOK(chain[b], pc[b])'
<1> DEFINE q == chain[b]
           p == pc[b]
           r == pc'[b]
<1>1. q \in Seq(Waiters) /\ QueueOK(q, p) /\ Nobody \in Waiters /\ Jobs \subseteq Waiters
  BY DEF TypeOK, Waiters
<1>2. ASSUME NEW j \in Jobs, p[j] \notin Saving PROVE \A i \in 1..Len(q) : q[i] /= j
  BY <1>1, <1>2 DEF QueueOK
<1> SUFFICES QueueOK(chain'[b], r)
  OBVIOUS
<1> HIDE DEF p, r
<1>3. CASE /\ chain'[b] = q
           /\ \A i \in Jobs : r[i] = p[i] \/ p[i] \notin Saving
  BY <1>1, <1>3, QuietQueue
<1>4. CASE /\ chain'[b] = Append(q, Nobody)
           /\ \A i \in Jobs : r[i] = p[i]
  <2>1. QueueOK(q, r)
    BY <1>1, <1>4, QuietQueue
  <2> QED BY <1>1, <1>4, <2>1, AppendNobody
<1>5. ASSUME NEW j \in Jobs, p[j] \notin Saving, r[j] \in Saving,
             \A i \in Jobs : i /= j => r[i] = p[i],
             chain'[b] \in {Append(q, j), Append(Append(q, Nobody), j)}
      PROVE  QueueOK(chain'[b], r)
  <2>1. \A i \in 1..Len(q) : q[i] /= j
    BY <1>2, <1>5
  <2>2. CASE chain'[b] = Append(q, j)
    BY <1>1, <1>5, <2>1, <2>2, AppendJob
  <2>3. CASE chain'[b] = Append(Append(q, Nobody), j)
    <3> DEFINE a == Append(q, Nobody)
    <3>1. a \in Seq(Waiters) /\ QueueOK(a, p)
      BY <1>1, AppendNobody, AppendProperties
    <3>2. ASSUME NEW i \in 1..Len(a) PROVE a[i] /= j
      BY <1>5, <3>1 DEF QueueOK
    <3> HIDE DEF a
    <3>3. QueueOK(Append(a, j), r)
      BY <1>5, <3>1, <3>2, AppendJob
    <3> QED BY <2>3, <3>3 DEF a
  <2> QED BY <1>5, <2>2, <2>3
<1>6. CASE /\ Len(q) > 0 /\ chain'[b] = Tail(q)
           /\ \A i \in Jobs : i /= Head(q) => r[i] = p[i]
  BY <1>1, <1>6, TailQueue
<1>7. ASSUME Len(q) > 0, \A i \in Jobs : i /= Head(q) => r[i] = p[i],
             NEW j \in Jobs, j = Head(q), r[j] \in Saving, chain'[b] = Append(Tail(q), j)
      PROVE  QueueOK(chain'[b], r)
  <2> DEFINE t == Tail(q)
  <2>1. /\ QueueOK(t, r) /\ \A i \in 1..Len(t) : t[i] /= j
    BY <1>1, <1>7, TailQueue
  <2>2. t \in Seq(Waiters)
    BY <1>1, <1>7
  <2> HIDE DEF t
  <2>3. QueueOK(Append(t, j), r)
    BY <1>7, <2>1, <2>2, AppendJob
  <2> QED BY <1>7, <2>3 DEF t
<1>8. CASE WriteStart(b)
  <2>1. chain'[b] = q /\ r = p
    BY <1>8 DEF WriteStart, p, r
  <2> QED BY <1>1, <2>1
<1> QED BY <1>3, <1>4, <1>5, <1>6, <1>7, <1>8 DEF QueueMove, Grows, Shrinks, p, r

LEMMA HeadKept ==
  ASSUME TypeOK, RestsInError, NEW b \in Bundles, QueueOK(chain[b], pc[b]), HeadOK(b),
         Unlisted(b), QueueMove(b)
  PROVE  HeadOK(b)'
<1> DEFINE q == chain[b]
           Ends(i) == i /= Nobody /\ pc'[b][i] \in {"saveDelete", "saveError"}
<1> SUFFICES ASSUME b \in busy'
             PROVE  /\ Len(chain'[b]) > 0
                    /\ Ends(Head(chain'[b])) => ~IsActive(image'[b][Head(chain'[b])])
  BY DEF HeadOK
<1>1. q \in Seq(Waiters) /\ QueueOK(q, pc[b]) /\ Nobody \in Waiters /\ Jobs \subseteq Waiters
  BY DEF TypeOK, Waiters
<1>2. ASSUME Len(q) > 0, Head(q) /= Nobody
      PROVE  Head(q) \in Jobs /\ pc[b][Head(q)] \in Saving
  BY <1>1, <1>2, HeadWaits
<1>3. CASE Grows(b) /\ b \in busy /\ image'[b] = image[b]
  <2>1. /\ Len(q) > 0
        /\ Head(q) /= Nobody /\ pc[b][Head(q)] \in {"saveDelete", "saveError"}
             => ~IsActive(image[b][Head(q)])
    BY <1>3 DEF HeadOK
  <2>2. Len(chain'[b]) > 0 /\ Head(chain'[b]) = Head(q)
    <3>1. \A w \in Waiters : /\ Append(q, w) \in Seq(Waiters) /\ Len(Append(q, w)) > 0
                             /\ Head(Append(q, w)) = Head(q)
      BY <1>1, <2>1, HeadStays
    <3>2. \A j \in Jobs : /\ Len(Append(Append(q, Nobody), j)) > 0
                          /\ Head(Append(Append(q, Nobody), j)) = Head(q)
      BY <1>1, <3>1, HeadStays
    <3> QED BY <1>1, <1>3, <2>1, <3>1, <3>2 DEF Grows
  <2>3. Head(q) /= Nobody => pc'[b][Head(q)] = pc[b][Head(q)]
    BY <1>2, <1>3, <2>1 DEF Grows
  <2> QED BY <1>3, <2>1, <2>2, <2>3
<1>4. CASE WriteStart(b)
  <2>1. chain' = chain /\ pc' = pc /\ Len(q) > 0 /\ image' = [image EXCEPT ![b] = Snapshot(b)]
    BY <1>4 DEF WriteStart
  <2>2. image'[b] = Snapshot(b)
    BY <2>1 DEF TypeOK
  <2>3. ASSUME NEW i \in Jobs, pc[b][i] \in {"saveDelete", "saveError"}
        PROVE  ~IsActive(image'[b][i])
    <3>1. image'[b][i] = IF i \in listed[b] THEN job[b][i] ELSE Absent
      BY <2>2 DEF Snapshot
    <3>2. pc[b][i] = "saveDelete" => i \notin listed[b]
      BY DEF Unlisted
    <3>3. pc[b][i] = "saveError" => ~IsActive(job[b][i])
      BY DEF RestsInError
    <3> QED BY <2>3, <3>1, <3>2, <3>3, AbsentUpid DEF IsActive
  <2> QED BY <1>2, <2>1, <2>3
<1> QED BY <1>3, <1>4 DEF QueueMove

\* The pieces of steps that touch the queue, seen from both copies.
LEMMA PersistCell ==
  ASSUME TypeOK, NEW b \in Bundles, NEW w, Persist(b, w)
  PROVE  /\ chain'[b] = Append(chain[b], w)
         /\ \A c \in Bundles : c /= b => chain'[c] = chain[c]
BY DEF TypeOK, Persist

LEMMA EndCell ==
  ASSUME TypeOK, NEW b \in Bundles, WriteSucceeds(b) \/ WriteFails(b)
  PROVE  /\ b \in busy /\ b \notin busy'
         /\ \A c \in Bundles : c /= b => image'[c] = image[c] /\ (c \in busy' => c \in busy)
BY DEF TypeOK, WriteSucceeds, WriteFails

LEMMA OtherQueue ==
  ASSUME NEW c \in Bundles, chain'[c] = chain[c], \A i \in Jobs : pc'[c][i] = pc[c][i],
         c \in busy' => c \in busy /\ image'[c] = image[c]
  PROVE  QueueMove(c)
BY DEF QueueMove, Grows

LEMMA Saves ==
  ASSUME TypeOK, NEW b \in Bundles, NEW j \in Jobs, NEW s \in Saving, pc[b][j] \notin Saving,
         Go(b, j, s), Persist(b, j), busy' = busy, image' = image
  PROVE  \A c \in Bundles : QueueMove(c)
<1>1. /\ pc'[b][j] = s
      /\ \A c \in Bundles, i \in Jobs : c /= b \/ i /= j => pc'[c][i] = pc[c][i]
  BY GoCell
<1>2. /\ chain'[b] = Append(chain[b], j)
      /\ \A c \in Bundles : c /= b => chain'[c] = chain[c]
  BY PersistCell
<1>3. QueueMove(b)
  BY <1>1, <1>2 DEF QueueMove, Grows
<1> QED BY <1>1, <1>2, <1>3, OtherQueue

LEMMA SaveEnds ==
  ASSUME TypeOK, NEW b \in Bundles, NEW j \in Jobs, NEW s, NEW t, Awaits(b, j, t),
         Go(b, j, s), DropHead(b) \/ (Requeue(b, j) /\ s \in Saving),
         WriteSucceeds(b) \/ WriteFails(b)
  PROVE  \A c \in Bundles : QueueMove(c)
<1>1. /\ pc'[b][j] = s
      /\ \A c \in Bundles, i \in Jobs : c /= b \/ i /= j => pc'[c][i] = pc[c][i]
  BY GoCell
<1>2. /\ b \notin busy'
      /\ \A c \in Bundles : c /= b => image'[c] = image[c] /\ (c \in busy' => c \in busy)
  BY EndCell
<1>3. /\ Len(chain[b]) > 0 /\ Head(chain[b]) = j
      /\ \/ chain'[b] = Tail(chain[b])
         \/ chain'[b] = Append(Tail(chain[b]), j) /\ s \in Saving
      /\ \A c \in Bundles : c /= b => chain'[c] = chain[c]
  BY DEF Awaits, DropHead, Requeue, TypeOK
<1>4. QueueMove(b)
  BY <1>1, <1>2, <1>3 DEF QueueMove, Shrinks
<1> QED BY <1>1, <1>2, <1>3, <1>4, OtherQueue

LEMMA QueueUntouched ==
  ASSUME TypeOK, chain' = chain, busy' = busy, image' = image,
         pc' = pc \/ \E b \in Bundles, j \in Jobs, s \in Steps : pc[b][j] \notin Saving /\ Go(b, j, s)
  PROVE  \A c \in Bundles : QueueMove(c)
<1>1. CASE pc' = pc
  BY <1>1, OtherQueue
<1>2. ASSUME NEW b \in Bundles, NEW j \in Jobs, NEW s, pc[b][j] \notin Saving, Go(b, j, s)
      PROVE  \A c \in Bundles : QueueMove(c)
  <2>1. \A c \in Bundles, i \in Jobs : c /= b \/ i /= j => pc'[c][i] = pc[c][i]
    BY <1>2, GoCell
  <2> QED BY <1>2, <2>1 DEF QueueMove, Grows
<1> QED BY <1>1, <1>2

LEMMA Backgrounds ==
  ASSUME TypeOK, NEW b \in Bundles, Persist(b, Nobody), pc' = pc, busy' = busy, image' = image
  PROVE  \A c \in Bundles : QueueMove(c)
<1>1. /\ chain'[b] = Append(chain[b], Nobody)
      /\ \A c \in Bundles : c /= b => chain'[c] = chain[c]
  BY PersistCell
<1>2. QueueMove(b)
  BY <1>1 DEF QueueMove, Grows
<1> QED BY <1>1, <1>2, OtherQueue

\* Every step but a crash moves the queues as QueueMove says.
LEMMA QueueStep ==
  ASSUME IInv, FreshIdle, Next, ~Crash
  PROVE  \A c \in Bundles : QueueMove(c)
<1>t. TypeOK
  BY DEF IInv
<1>s. /\ {"saveAttempt", "saveUpid", "saveRunning", "saveDelete", "saveError"} \subseteq Saving
      /\ \A s \in {"idle", "call", "posted", "wait"} : s \notin Saving /\ s \in Steps
  BY DEF Saving, Steps
<1>1. ASSUME NEW j \in Jobs, Enqueue(j) PROVE \A c \in Bundles : QueueMove(c)
  <2> DEFINE b == RouteBundle
  <2>1. /\ pc'[b][j] = "saveAttempt" /\ busy' = busy /\ image' = image
        /\ \A c \in Bundles, i \in Jobs : c /= b \/ i /= j => pc'[c][i] = pc[c][i]
    BY <1>t, <1>1, GoCell DEF Enqueue
  <2>2. pc[b][j] = "idle"
    BY <1>1 DEF Enqueue, FreshIdle
  <2>3. /\ chain'[b] = chain[b] \o <<Nobody, j>>
        /\ \A c \in Bundles : c /= b => chain'[c] = chain[c]
    BY <1>t, <1>1 DEF Enqueue, TypeOK
  <2>4. chain[b] \o <<Nobody, j>> = Append(Append(chain[b], Nobody), j)
    BY <1>t DEF TypeOK
  <2>5. QueueMove(b)
    BY <1>s, <2>1, <2>2, <2>3, <2>4 DEF QueueMove, Grows
  <2> QED BY <2>1, <2>3, <2>5, OtherQueue
<1>2. ASSUME NEW b \in Bundles, WriteStart(b) PROVE \A c \in Bundles : QueueMove(c)
  <2>1. \A c \in Bundles : c /= b => QueueMove(c)
    <3>1. chain' = chain /\ pc' = pc /\ busy' = busy \cup {b}
          /\ image' = [image EXCEPT ![b] = Snapshot(b)]
      BY <1>2 DEF WriteStart
    <3>2. \A c \in Bundles : c /= b => image'[c] = image[c]
      BY <1>t, <3>1 DEF TypeOK
    <3> QED BY <3>1, <3>2, OtherQueue
  <2> QED BY <1>2, <2>1 DEF QueueMove
<1>3. ASSUME NEW b \in Bundles, BackgroundWriteEnds(b) PROVE \A c \in Bundles : QueueMove(c)
  <2>1. /\ pc' = pc /\ Len(chain[b]) > 0 /\ DropHead(b)
    BY <1>3 DEF BackgroundWriteEnds
  <2>2. /\ b \notin busy'
        /\ \A c \in Bundles : c /= b => image'[c] = image[c] /\ (c \in busy' => c \in busy)
    BY <1>t, <1>3, EndCell DEF BackgroundWriteEnds
  <2>3. /\ chain'[b] = Tail(chain[b])
        /\ \A c \in Bundles : c /= b => chain'[c] = chain[c]
    BY <1>t, <2>1 DEF DropHead, TypeOK
  <2>4. QueueMove(b)
    BY <2>1, <2>2, <2>3 DEF QueueMove, Shrinks
  <2> QED BY <2>1, <2>2, <2>3, <2>4, OtherQueue
<1>4. ASSUME NEW b \in Bundles, NEW j \in Jobs,
             \/ AttemptSaved(b, j) \/ UpidSaved(b, j) \/ RunningSaved(b, j)
             \/ SaveThrows(b, j) \/ DeleteSaved(b, j) \/ DeleteNotSaved(b, j)
             \/ ErrorSaveEnds(b, j)
      PROVE  \A c \in Bundles : QueueMove(c)
  <2>1. /\ WriteSucceeds(b) \/ WriteFails(b)
        /\ \E t \in Steps : Awaits(b, j, t)
        /\ \E s \in Steps : Go(b, j, s) /\ (DropHead(b) \/ (Requeue(b, j) /\ s \in Saving))
    BY <1>4 DEF AttemptSaved, UpidSaved, RunningSaved, SaveThrows, DeleteSaved,
       DeleteNotSaved, ErrorSaveEnds, Fail, Steps, Saving
  <2>2. PICK t \in Steps, s \in Steps :
          Awaits(b, j, t) /\ Go(b, j, s) /\ (DropHead(b) \/ (Requeue(b, j) /\ s \in Saving))
    BY <2>1
  <2> QED BY <1>t, <2>1, <2>2, SaveEnds
<1>5. ASSUME NEW b \in Bundles, NEW j \in Jobs,
             \/ StillStopping(b, j) \/ UpidReceived(b, j) \/ CallFails(b, j)
             \/ TaskSeenOk(b, j) \/ WaitThrows(b, j)
      PROVE  \A c \in Bundles : QueueMove(c)
  <2>1. /\ Persist(b, j) /\ busy' = busy /\ image' = image /\ pc[b][j] \notin Saving
        /\ \E s \in Saving : Go(b, j, s)
    BY <1>s, <1>5 DEF StillStopping, UpidReceived, CallFails, TaskSeenOk, WaitThrows, Fail
  <2> QED BY <1>t, <2>1, Saves
<1>6. ASSUME NEW b \in Bundles, NEW j \in Jobs, Accepted(b, j) \/ Forget(b, j)
      PROVE  \A c \in Bundles : QueueMove(c)
  <2>1. CASE Accepted(b, j)
    <3>1. /\ chain' = chain /\ busy' = busy /\ image' = image
          /\ pc[b][j] \notin Saving /\ Go(b, j, "posted")
      BY <1>s, <2>1 DEF Accepted
    <3> QED BY <1>t, <1>s, <3>1, QueueUntouched
  <2>2. CASE Forget(b, j)
    <3>1. /\ pc' = pc /\ busy' = busy /\ image' = image
          /\ chain' = chain \/ Persist(b, Nobody)
      BY <2>2 DEF Forget
    <3> QED BY <1>t, <3>1, QueueUntouched, Backgrounds
  <2> QED BY <1>6, <2>1, <2>2
<1>7. ASSUME NEW j \in Jobs, ResumeUserFound(j) PROVE \A c \in Bundles : QueueMove(c)
  <2>1. /\ Persist(ServerBundle, j) /\ busy' = busy /\ image' = image
        /\ \E s \in Saving : Go(ServerBundle, j, s)
    BY <1>s, <1>7 DEF ResumeUserFound
  <2>2. pc[ServerBundle][j] = "idle"
    BY <1>7 DEF ResumeUserFound, IInv, ResumeOrder
  <2> QED BY <1>t, <1>s, <2>1, <2>2, Saves
<1>8. ASSUME ResumeEnd PROVE \A c \in Bundles : QueueMove(c)
  <2>1. Persist(ServerBundle, Nobody) /\ pc' = pc /\ busy' = busy /\ image' = image
    BY <1>8 DEF ResumeEnd
  <2> QED BY <1>t, <2>1, Backgrounds
<1>9. ASSUME \/ ResumeRead \/ ResumeThrows
             \/ \E j \in Jobs : ResumeSkip(j) \/ ResumeTake(j) \/ ResumeUserGone(j)
             \/ \E j \in Jobs : \E k \in 1..Len(tasks[j]) : TaskEnds(j, k)
      PROVE  \A c \in Bundles : QueueMove(c)
  <2>1. chain' = chain /\ busy' = busy /\ image' = image /\ pc' = pc
    BY <1>9 DEF ResumeRead, ResumeThrows, ResumeSkip, ResumeTake, ResumeUserGone, TaskEnds,
       bundleVars
  <2> QED BY <1>t, <2>1, QueueUntouched
<1> QED BY <1>1, <1>2, <1>3, <1>4, <1>5, <1>6, <1>7, <1>8, <1>9 DEF Next, Work, Resume

\* The entry of a restore that ended well stays out of the Map until the write
\* without it is through.
LEMMA UnlistedStep ==
  ASSUME IInv, FreshIdle, Next, NEW c \in Bundles, Unlisted(c)
  PROVE  Unlisted(c)'
<1> SUFFICES ASSUME NEW i \in Jobs, pc'[c][i] = "saveDelete" PROVE i \notin listed'[c]
  BY DEF Unlisted
<1>t. TypeOK /\ listed \in [Bundles -> SUBSET Jobs]
  BY DEF IInv, TypeOK
<1>1. ASSUME \A d \in Bundles : listed'[d] \subseteq listed[d],
             \/ pc' = pc
             \/ \E b \in Bundles, j \in Jobs, s \in Steps : s /= "saveDelete" /\ Go(b, j, s)
      PROVE  i \notin listed'[c]
  <2>1. pc[c][i] = "saveDelete"
    BY <1>t, <1>1, GoCell
  <2> QED BY <1>1, <2>1 DEF Unlisted
<1>2. ASSUME NEW b \in Bundles, NEW j \in Jobs, pc'[b][j] /= "saveDelete",
             listed' = [listed EXCEPT ![b] = @ \cup {j}],
             \A d \in Bundles, k \in Jobs : d /= b \/ k /= j => pc'[d][k] = pc[d][k]
      PROVE  i \notin listed'[c]
  <2>1. c /= b \/ i /= j
    BY <1>2
  <2>2. pc[c][i] = "saveDelete"
    BY <1>2, <2>1
  <2>3. i \in listed'[c] => i \in listed[c]
    BY <1>t, <1>2, <2>1
  <2> QED BY <2>2, <2>3 DEF Unlisted
<1>3. ASSUME NEW j \in Jobs, Enqueue(j) PROVE i \notin listed'[c]
  <2>1. /\ Go(RouteBundle, j, "saveAttempt")
        /\ listed' = [listed EXCEPT ![RouteBundle] = @ \cup {j}]
    BY <1>3 DEF Enqueue
  <2>2. /\ pc'[RouteBundle][j] = "saveAttempt"
        /\ \A d \in Bundles, k \in Jobs : d /= RouteBundle \/ k /= j => pc'[d][k] = pc[d][k]
    BY <1>t, <2>1, GoCell
  <2> QED BY <1>2, <2>1, <2>2
<1>4. ASSUME NEW b \in Bundles, NEW j \in Jobs, DeleteNotSaved(b, j) PROVE i \notin listed'[c]
  <2>1. /\ Go(b, j, "idle")
        /\ listed' = [listed EXCEPT ![b] = @ \cup {j}]
    BY <1>4 DEF DeleteNotSaved
  <2>2. /\ pc'[b][j] = "idle"
        /\ \A d \in Bundles, k \in Jobs : d /= b \/ k /= j => pc'[d][k] = pc[d][k]
    BY <1>t, <2>1, GoCell
  <2> QED BY <1>2, <2>1, <2>2
<1>5. ASSUME NEW j \in Jobs, ResumeTake(j) PROVE i \notin listed'[c]
  <2>1. /\ pc' = pc /\ pc[ServerBundle][j] = "idle"
        /\ listed' = [listed EXCEPT ![ServerBundle] = @ \cup {j}]
    BY <1>5 DEF ResumeTake, IInv, ResumeOrder
  <2> QED BY <1>2, <2>1
<1>6. ASSUME NEW b \in Bundles, NEW j \in Jobs, TaskSeenOk(b, j) PROVE i \notin listed'[c]
  <2>1. /\ Go(b, j, "saveDelete") /\ listed' = [listed EXCEPT ![b] = @ \ {j}]
    BY <1>6 DEF TaskSeenOk
  <2>2. (c = b /\ i = j) \/ pc[c][i] = "saveDelete"
    BY <1>t, <2>1, GoCell
  <2> QED BY <1>t, <2>1, <2>2 DEF Unlisted
<1>7. ASSUME NEW b \in Bundles, NEW j \in Jobs, Forget(b, j) PROVE i \notin listed'[c]
  <2>1. pc' = pc /\ (listed' = listed \/ listed' = [listed EXCEPT ![b] = @ \ {j}])
    BY <1>7 DEF Forget
  <2> QED BY <1>t, <1>1, <2>1
<1>8. ASSUME NEW b \in Bundles, NEW j \in Jobs,
             \/ AttemptSaved(b, j) \/ StillStopping(b, j) \/ Accepted(b, j)
             \/ UpidReceived(b, j) \/ CallFails(b, j) \/ UpidSaved(b, j)
             \/ RunningSaved(b, j) \/ SaveThrows(b, j) \/ WaitThrows(b, j)
             \/ DeleteSaved(b, j) \/ ErrorSaveEnds(b, j)
      PROVE  i \notin listed'[c]
  <2>1. /\ listed' = listed
        /\ \E s \in Steps : s /= "saveDelete" /\ Go(b, j, s)
    BY <1>8 DEF AttemptSaved, StillStopping, Accepted, UpidReceived, CallFails, UpidSaved,
       RunningSaved, SaveThrows, WaitThrows, DeleteSaved, ErrorSaveEnds, Fail, Steps
  <2> QED BY <1>1, <2>1
<1>9. ASSUME NEW j \in Jobs, ResumeUserFound(j) PROVE i \notin listed'[c]
  <2>1. /\ listed' = listed
        /\ \E s \in Steps : s /= "saveDelete" /\ Go(ServerBundle, j, s)
    BY <1>9 DEF ResumeUserFound, Steps
  <2> QED BY <1>1, <2>1
<1>10. ASSUME \/ ResumeRead \/ ResumeEnd \/ ResumeThrows
              \/ \E j \in Jobs : ResumeSkip(j) \/ ResumeUserGone(j)
              \/ \E b \in Bundles : WriteStart(b) \/ BackgroundWriteEnds(b)
              \/ \E j \in Jobs : \E k \in 1..Len(tasks[j]) : TaskEnds(j, k)
       PROVE  i \notin listed'[c]
  <2>1. listed' = listed /\ pc' = pc
    BY <1>10 DEF ResumeRead, ResumeEnd, ResumeThrows, ResumeSkip, ResumeUserGone, WriteStart,
       BackgroundWriteEnds, TaskEnds, bundleVars
  <2> QED BY <1>1, <2>1
<1>11. ASSUME Crash PROVE i \notin listed'[c]
  BY <1>11 DEF Crash
<1> QED BY <1>3, <1>4, <1>5, <1>6, <1>7, <1>8, <1>9, <1>10, <1>11 DEF Next, Work, Resume

LEMMA QueueInductive ==
  IInv /\ FreshIdle /\ RestsInError /\ QueueInv /\ [Next]_vars => QueueInv'
<1> SUFFICES ASSUME IInv, FreshIdle, RestsInError, QueueInv, [Next]_vars, NEW b \in Bundles
             PROVE  QueueOK(chain[b], pc[b])' /\ HeadOK(b)' /\ Unlisted(b)'
  BY DEF QueueInv
<1>1. TypeOK /\ QueueOK(chain[b], pc[b]) /\ HeadOK(b) /\ Unlisted(b)
  BY DEF IInv, QueueInv
<1>2. CASE Next /\ ~Crash
  BY <1>1, <1>2, QueueStep, QueueKept, HeadKept, UnlistedStep
<1>3. CASE Crash
  <2>1. chain'[b] = <<>> /\ b \notin busy' /\ listed'[b] = {}
    BY <1>3 DEF Crash
  <2> QED BY <2>1 DEF QueueOK, HeadOK, Unlisted
<1>4. CASE UNCHANGED vars
  <2>1. chain' = chain /\ pc' = pc /\ busy' = busy /\ image' = image /\ listed' = listed
    BY <1>4 DEF vars, bundleVars
  <2> QED BY <1>1, <2>1 DEF HeadOK, Unlisted
<1> QED BY <1>2, <1>3, <1>4

LEMMA QueueInit == Init => QueueInv
BY DEF Init, QueueInv, QueueOK, HeadOK, Unlisted

----------------------------------------------------------------------------
(* After the end that was told: SuccessIsFinal and FailedStaysFailed.      *)

\* The last word about j was said: a success, or an error that is in the row.
Over(j) == Outside!Succeeded(j) \/ (verdicts[j] /= <<>> /\ dbFailures = 0)

\* No copy of j anywhere is unfinished, and nobody works on it.
Settled(j) ==
  /\ ~IsActive(store[j]) /\ ~IsActive(resume.left[j])
  /\ \A b \in Bundles : /\ pc[b][j] = "idle"
                        /\ ~IsActive(job[b][j]) /\ ~IsActive(image[b][j])

SettledInv == \A j \in Jobs : Over(j) => j \in enqueued /\ Settled(j)

LEMMA AbsentIdle == ~IsActive(Absent)
BY DEF Absent, IsActive

LEMMA SettledStays ==
  ASSUME IInv, Seen, NEW j \in Jobs, j \in enqueued, Settled(j)
  PROVE  j \in enqueued' /\ Settled(j)'
<1>1. ~IsActive(store'[j]) /\ \A b \in Bundles : ~IsActive(image'[b][j])
  BY AbsentIdle DEF Settled, Seen, RowMove
<1>2. ~IsActive(resume'.left[j])
  BY AbsentIdle DEF Settled, Seen, ResumeMove
<1>3. ASSUME NEW b \in Bundles PROVE pc'[b][j] = "idle" /\ ~IsActive(job'[b][j])
  <2>1. CellMove(b, j) /\ pc[b][j] = "idle" /\ ~IsActive(job[b][j]) /\ ~IsActive(resume.left[j])
    BY DEF Seen, Settled
  <2>2. ~Restarted(b, j)
    BY <2>1 DEF Restarted, IInv, ResumeOrder
  <2> QED BY <2>1, <2>2, AbsentIdle DEF CellMove, Same, Began, Advanced, Retried, Named, Failed,
       Dropped, Taken
<1> QED BY <1>1, <1>2, <1>3 DEF Settled, Seen

LEMMA SettledDied ==
  ASSUME Died, NEW j \in Jobs, Settled(j)
  PROVE  Settled(j)'
BY AbsentIdle DEF Died, Settled, NotResuming, Nothing

\* Only the ends of runRestoreJob report, and only an accepted call adds a task.
LEMMA OnlyEndsReport ==
  ASSUME TypeOK, Next, NEW i \in Jobs, verdicts'[i] /= verdicts[i]
  PROVE  \E b \in Bundles : DeleteSaved(b, i) \/ ErrorSaveEnds(b, i)
<1>1. ASSUME NEW b \in Bundles, NEW j \in Jobs, DeleteSaved(b, j) \/ ErrorSaveEnds(b, j)
      PROVE  i = j
  <2>1. \E l, t : Tell(j, l, t)
    BY <1>1 DEF DeleteSaved, ErrorSaveEnds
  <2> QED BY <2>1 DEF Tell, TypeOK
<1>2. ASSUME NEW b \in Bundles, NEW j \in Jobs, Work(b, j) \/ Forget(b, j),
             ~DeleteSaved(b, j), ~ErrorSaveEnds(b, j)
      PROVE  FALSE
  BY <1>2 DEF Work, AttemptSaved, StillStopping, Accepted, UpidReceived, CallFails,
     UpidSaved, RunningSaved, SaveThrows, TaskSeenOk, WaitThrows, DeleteNotSaved,
     Forget, history
<1>3. ASSUME Resume \/ Crash PROVE FALSE
  BY <1>3 DEF Resume, ResumeRead, ResumeSkip, ResumeTake, ResumeUserFound,
     ResumeUserGone, ResumeEnd, ResumeThrows, Crash, history
<1>4. ASSUME NEW b \in Bundles, WriteStart(b) \/ BackgroundWriteEnds(b) PROVE FALSE
  BY <1>4 DEF WriteStart, BackgroundWriteEnds, history
<1>5. ASSUME NEW j \in Jobs, Enqueue(j) \/ \E k \in 1..Len(tasks[j]) : TaskEnds(j, k)
      PROVE  FALSE
  BY <1>5 DEF Enqueue, TaskEnds, history
<1> QED BY <1>1, <1>2, <1>3, <1>4, <1>5 DEF Next

LEMMA TasksUntouched ==
  ASSUME Next, ~(\E b \in Bundles, j \in Jobs : Accepted(b, j)),
         ~(\E j \in Jobs : \E k \in 1..Len(tasks[j]) : TaskEnds(j, k))
  PROVE  tasks' = tasks
<1>1. ASSUME NEW b \in Bundles, NEW j \in Jobs, Work(b, j), ~Accepted(b, j)
      PROVE  tasks' = tasks
  BY <1>1 DEF Work, AttemptSaved, StillStopping, UpidReceived, CallFails, UpidSaved,
     RunningSaved, SaveThrows, TaskSeenOk, WaitThrows, DeleteSaved, DeleteNotSaved, ErrorSaveEnds
<1>2. ASSUME Resume \/ Crash PROVE tasks' = tasks
  BY <1>2 DEF Resume, ResumeRead, ResumeSkip, ResumeTake, ResumeUserFound, ResumeUserGone,
     ResumeEnd, ResumeThrows, Crash
<1>3. ASSUME NEW b \in Bundles, NEW j \in Jobs, Enqueue(j) \/ Forget(b, j) PROVE tasks' = tasks
  BY <1>3 DEF Enqueue, Forget
<1>4. ASSUME NEW b \in Bundles, WriteStart(b) \/ BackgroundWriteEnds(b) PROVE tasks' = tasks
  BY <1>4 DEF WriteStart, BackgroundWriteEnds
<1> QED BY <1>1, <1>2, <1>3, <1>4 DEF Next

LEMMA OnlyCallsRequest ==
  ASSUME TypeOK, Next, NEW i \in Jobs, Len(tasks'[i]) /= Len(tasks[i])
  PROVE  \E b \in Bundles : Accepted(b, i)
<1>1. ASSUME NEW b \in Bundles, NEW j \in Jobs, Accepted(b, j) PROVE i = j
  BY <1>1 DEF Accepted, TypeOK
<1>2. ASSUME NEW j \in Jobs, NEW k \in 1..Len(tasks[j]), TaskEnds(j, k) PROVE FALSE
  <2>1. PICK r : tasks' = [tasks EXCEPT ![j][k] = r]
    BY <1>2 DEF TaskEnds
  <2>2. tasks[j] \in Seq({"running", "ok", "failed"})
    BY DEF TypeOK
  <2>3. Len([tasks[j] EXCEPT ![k] = r]) = Len(tasks[j])
    BY <2>2
  <2> QED BY <2>1, <2>3 DEF TypeOK
<1> QED BY <1>1, <1>2, TasksUntouched

\* When the end of runRestoreJob has stored what it reports, nothing unfinished
\* is left of the restore, in this copy or in the other one.
LEMMA EndsSettled ==
  ASSUME IInv, SideInv, RestsInError, QueueInv, NEW b \in Bundles, NEW j \in Jobs,
         DeleteSaved(b, j) \/ (ErrorSaveEnds(b, j) /\ WriteSucceeds(b))
  PROVE  j \in enqueued' /\ Settled(j)'
<1>t. TypeOK
  BY DEF IInv
<1>1. /\ Len(chain[b]) > 0 /\ Head(chain[b]) = j /\ pc[b][j] \in {"saveDelete", "saveError"}
      /\ b \in busy /\ store' = image[b] /\ image' = [image EXCEPT ![b] = Nothing]
      /\ Go(b, j, "idle") /\ resume' = resume /\ enqueued' = enqueued
  BY DEF DeleteSaved, ErrorSaveEnds, Awaits, WriteSucceeds
<1>2. ~IsActive(store'[j])
  <2>1. j /= Nobody
    OBVIOUS
  <2> QED BY <1>1, <2>1 DEF QueueInv, HeadOK
<1>3. /\ pc'[b][j] = "idle" /\ \A c \in Bundles : c /= b => pc'[c][j] = pc[c][j]
      /\ ~IsActive(image'[b][j]) /\ \A c \in Bundles : c /= b => image'[c][j] = image[c][j]
  <2>1. pc'[b][j] = "idle" /\ \A c \in Bundles : c /= b => pc'[c][j] = pc[c][j]
    BY <1>t, <1>1, GoCell
  <2>2. image'[b][j] = Absent /\ \A c \in Bundles : c /= b => image'[c][j] = image[c][j]
    BY <1>t, <1>1 DEF TypeOK, Nothing
  <2> QED BY <2>1, <2>2, AbsentIdle
<1>4. ~IsActive(job'[b][j]) /\ \A c \in Bundles : c /= b => job'[c][j] = job[c][j]
  <2>1. CASE DeleteSaved(b, j)
    BY <1>t, <2>1, SetCell, AbsentIdle DEF DeleteSaved
  <2>2. CASE ErrorSaveEnds(b, j)
    BY <2>2 DEF ErrorSaveEnds, Awaits, RestsInError
  <2> QED BY <2>1, <2>2
<1>5. /\ j \in enqueued /\ ~IsActive(resume.left[j])
      /\ \A c \in Bundles : c /= b => Empty(c, j)
  <2>1. ~Startable(j) /\ pc[b][j] /= "idle"
    BY <1>1, WorkerAlone DEF SideInv, Alone
  <2>2. \A c \in Bundles : c /= b => Empty(c, j)
    BY <2>1 DEF SideInv, Sides, Empty
  <2> QED BY <2>1, <2>2 DEF Startable, Unresumed, IsActive
<1> QED BY <1>1, <1>2, <1>3, <1>4, <1>5 DEF Settled, Empty, IsActive

\* The end of runRestoreJob adds one report at the end.
LEMMA EndTells ==
  ASSUME TypeOK, NEW b \in Bundles, NEW j \in Jobs, DeleteSaved(b, j) \/ ErrorSaveEnds(b, j)
  PROVE  /\ verdicts[j] \in Seq(Verdict) /\ pc[b][j] /= "idle" /\ pc'[b][j] = "idle"
         /\ \A c \in Bundles : c /= b => pc'[c][j] = pc[c][j]
         /\ Len(verdicts'[j]) = Len(verdicts[j]) + 1
         /\ \A i \in 1..Len(verdicts[j]) : verdicts'[j][i] = verdicts[j][i]
         /\ ErrorSaveEnds(b, j) => verdicts'[j][Len(verdicts[j]) + 1].level = "error"
<1> DEFINE l == IF DeleteSaved(b, j) THEN "success" ELSE "error"
           v == [level |-> l, task |-> job[b][j].upid]
<1>1. verdicts[j] \in Seq(Verdict) /\ Len(verdicts[j]) \in Nat
  BY DEF TypeOK
<1>2. /\ Tell(j, l, job[b][j].upid) /\ Go(b, j, "idle") /\ pc[b][j] /= "idle"
      /\ DeleteSaved(b, j) => pc[b][j] = "saveDelete"
      /\ ErrorSaveEnds(b, j) => pc[b][j] = "saveError"
  BY DEF DeleteSaved, ErrorSaveEnds, Awaits
<1>3. verdicts'[j] = Append(verdicts[j], v) /\ v \in Verdict /\ v.level = l
  BY <1>2, CellType DEF Tell, TypeOK, Verdict, JobRecord
<1>4. ErrorSaveEnds(b, j) => l = "error"
  BY <1>2
<1> HIDE DEF l, v
<1>5. /\ Len(verdicts'[j]) = Len(verdicts[j]) + 1
      /\ \A i \in 1..Len(verdicts[j]) : verdicts'[j][i] = verdicts[j][i]
      /\ verdicts'[j][Len(verdicts[j]) + 1] = v
  BY <1>1, <1>3, AppendProperties
<1> QED BY <1>1, <1>2, <1>3, <1>4, <1>5, GoCell

LEMMA SettledStep ==
  IInv /\ SideInv /\ RestsInError /\ QueueInv /\ SettledInv /\ [Next]_vars => SettledInv'
<1> SUFFICES ASSUME IInv, SideInv, RestsInError, QueueInv, SettledInv, [Next]_vars,
                    NEW j \in Jobs, Over(j)'
             PROVE  j \in enqueued' /\ Settled(j)'
  BY DEF SettledInv
<1>t. TypeOK
  BY DEF IInv
<1>1. CASE UNCHANGED vars
  <2>1. /\ verdicts' = verdicts /\ dbFailures' = dbFailures /\ enqueued' = enqueued
        /\ store' = store /\ resume' = resume /\ pc' = pc /\ job' = job /\ image' = image
    BY <1>1 DEF vars, bundleVars, history, bounds
  <2>2. Over(j)
    BY <2>1 DEF Over, Outside!Succeeded
  <2> QED BY <2>1, <2>2 DEF SettledInv, Settled
<1>2. CASE Next /\ Over(j)
  <2>1. j \in enqueued /\ Settled(j)
    BY <1>2 DEF SettledInv
  <2>2. CASE Seen
    BY <2>1, <2>2, SettledStays
  <2>3. CASE Crash
    <3>1. enqueued' = enqueued /\ Died
      BY <1>t, <2>3, CrashDied DEF Crash, history
    <3> QED BY <2>1, <3>1, SettledDied
  <2> QED BY <1>2, <2>2, <2>3, SeenStep
<1>3. CASE Next /\ ~Over(j)
  <2>1. dbFailures \in Nat /\ dbFailures' \in Nat /\ dbFailures <= dbFailures'
    BY <1>t, <1>3, DbFailuresGrow DEF TypeOK
  <2>2. verdicts'[j] /= verdicts[j]
    BY <1>3, <2>1 DEF Over, Outside!Succeeded
  <2>3. PICK b \in Bundles : DeleteSaved(b, j) \/ ErrorSaveEnds(b, j)
    BY <1>t, <1>3, <2>2, OnlyEndsReport
  <2>4. CASE DeleteSaved(b, j)
    BY <2>4, EndsSettled
  <2>5. CASE ErrorSaveEnds(b, j)
    <3>1. dbFailures' = 0
      <4>1. ASSUME Outside!Succeeded(j)' PROVE FALSE
        <5>1. PICK i \in 1..Len(verdicts'[j]) : verdicts'[j][i].level = "success"
          BY <4>1 DEF Outside!Succeeded
        <5>2. /\ Len(verdicts[j]) \in Nat /\ Len(verdicts'[j]) = Len(verdicts[j]) + 1
              /\ verdicts'[j][Len(verdicts[j]) + 1].level = "error"
              /\ \A k \in 1..Len(verdicts[j]) : verdicts'[j][k] = verdicts[j][k]
          <6>1. /\ verdicts[j] \in Seq(Verdict)
                /\ Len(verdicts'[j]) = Len(verdicts[j]) + 1
                /\ \A k \in 1..Len(verdicts[j]) : verdicts'[j][k] = verdicts[j][k]
                /\ ErrorSaveEnds(b, j) => verdicts'[j][Len(verdicts[j]) + 1].level = "error"
            BY <1>t, <2>5, EndTells
          <6>2. Len(verdicts[j]) \in Nat
            BY <6>1
          <6> QED BY <6>1, <6>2, <2>5
        <5>3. i \in 1..Len(verdicts[j])
          <6>1. i /= Len(verdicts[j]) + 1
            BY <5>1, <5>2
          <6> DEFINE n == Len(verdicts[j])
          <6>2. i \in 1..(n + 1) /\ n \in Nat /\ i /= n + 1
            BY <5>1, <5>2, <6>1
          <6> HIDE DEF n
          <6>3. i \in 1..n
            BY <6>2
          <6> QED BY <6>3 DEF n
        <5>4. Outside!Succeeded(j)
          BY <5>1, <5>2, <5>3 DEF Outside!Succeeded
        <5> QED BY <1>3, <5>4 DEF Over
      <4> QED BY <4>1 DEF Over
    <3>2. WriteSucceeds(b)
      <4>1. WriteFails(b) => dbFailures' = dbFailures + 1
        BY DEF WriteFails
      <4>2. ~WriteFails(b)
        BY <2>1, <3>1, <4>1
      <4> QED BY <2>5, <4>2 DEF ErrorSaveEnds
    <3> QED BY <2>5, <3>2, EndsSettled
  <2> QED BY <2>3, <2>4, <2>5
<1> QED BY <1>1, <1>2, <1>3

EndInv == SideInv /\ QueueInv /\ SettledInv

LEMMA EndsAgree == ASSUME ~EarlyEnqueue PROVE Spec => []EndInv
<1>1. Init => EndInv
  <2> SUFFICES ASSUME Init PROVE SettledInv
    BY SideInit, QueueInit DEF EndInv
  <2>1. \A j \in Jobs : verdicts[j] = <<>>
    BY DEF Init
  <2> QED BY <2>1 DEF SettledInv, Over, Outside!Succeeded
<1>2. IInv /\ RestsInError /\ EndInv /\ [Next]_vars => EndInv'
  <2>1. IInv /\ SideInv /\ [Next]_vars => SideInv'
    BY SideInductive
  <2> QED BY <2>1, QueueInductive, SettledStep DEF EndInv, SideInv
<1> QED BY <1>1, <1>2, CopiesAgree, ErrorsNoted, PTL DEF Spec

\* Once a restore is over, no worker is left that could request or report it.
LEMMA OverIsOver ==
  ASSUME TypeOK, SettledInv, Next, NEW j \in Jobs, Over(j)
  PROVE  verdicts'[j] = verdicts[j] /\ Len(tasks'[j]) = Len(tasks[j])
<1>1. \A b \in Bundles : pc[b][j] = "idle"
  BY DEF SettledInv, Settled
<1>2. \A b \in Bundles : ~Accepted(b, j) /\ ~DeleteSaved(b, j) /\ ~ErrorSaveEnds(b, j)
  BY <1>1 DEF Accepted, DeleteSaved, ErrorSaveEnds, Awaits
<1> QED BY <1>2, OnlyEndsReport, OnlyCallsRequest

\* A success notification is the end: no restart, failing write or other copy
\* of restore-jobs.ts requests or reports the restore again.
THEOREM SuccessesFinal == ASSUME ~EarlyEnqueue PROVE Spec => SuccessIsFinal
<1>1. IInv /\ EndInv /\ [Next]_vars =>
        [\A j \in Jobs :
           (\E i \in 1..Len(verdicts[j]) : verdicts[j][i].level = "success")
             => verdicts'[j] = verdicts[j] /\ Len(tasks'[j]) = Len(tasks[j])]_vars
  BY OverIsOver DEF IInv, EndInv, Over, Outside!Succeeded
<1> QED BY <1>1, CopiesAgree, EndsAgree, PTL DEF Spec, SuccessIsFinal

\* As long as no database call failed, a restore that was reported as failed is
\* never requested again: the error reached the row before the user.
THEOREM FailuresFinal == ASSUME ~EarlyEnqueue PROVE Spec => FailedStaysFailed
<1>1. IInv /\ EndInv /\ [Next]_vars =>
        [\A j \in Jobs :
           verdicts[j] /= <<>> /\ dbFailures = 0 => Len(tasks'[j]) = Len(tasks[j])]_vars
  BY OverIsOver DEF IInv, EndInv, Over
<1> QED BY <1>1, CopiesAgree, EndsAgree, PTL DEF Spec, FailedStaysFailed

----------------------------------------------------------------------------
(* Implements: at most one request and one report in a life of the process.*)

Calling(j) == \E b \in Bundles : pc[b][j] \in {"saveAttempt", "call"}
Working(j) == \E b \in Bundles : pc[b][j] /= "idle"

\* A restore that may still be requested, or reported, has not been so in this
\* life of the process.
Lives(j) ==
  /\ Len(tasks[j]) <= crashes + 1 /\ Len(verdicts[j]) <= crashes + 1
  /\ Startable(j) \/ Calling(j) => Len(tasks[j]) <= crashes
  /\ Startable(j) \/ Working(j) => Len(verdicts[j]) <= crashes

LifeInv == \A j \in Jobs : Lives(j)

\* Nobody starts a worker on a restore that was not waiting for one.
LEMMA StartsShrink ==
  ASSUME Seen, NEW j \in Jobs
  PROVE  /\ Startable(j)' => Startable(j)
         /\ Calling(j)' => Calling(j) \/ Startable(j)
         /\ Working(j)' => Working(j) \/ Startable(j)
<1>1. ASSUME Startable(j)' PROVE Startable(j)
  <2>1. Unresumed(j)' => Unresumed(j)
    BY ResumedStays
  <2>2. resume'.step = "user" /\ resume'.current = j => Startable(j)
    BY DEF Seen, ResumeMove, Startable, Unresumed
  <2> QED BY <1>1, <2>1, <2>2 DEF Startable, Seen
<1>2. ASSUME NEW b \in Bundles
      PROVE  /\ pc'[b][j] \in {"saveAttempt", "call"} =>
                  pc[b][j] \in {"saveAttempt", "call"} \/ Startable(j)
             /\ pc'[b][j] /= "idle" => pc[b][j] /= "idle" \/ Startable(j)
  <2>1. CellMove(b, j)
    BY DEF Seen
  <2> QED BY <2>1 DEF CellMove, Same, Began, Advanced, Retried, Named, Failed, Dropped, Taken,
       Restarted, Startable
<1> QED BY <1>1, <1>2 DEF Calling, Working

LEMMA CrashesCount ==
  ASSUME TypeOK, Next
  PROVE  crashes \in Nat /\ crashes' = IF Crash THEN crashes + 1 ELSE crashes
<1>1. ASSUME NEW b \in Bundles, NEW j \in Jobs, Work(b, j) \/ Forget(b, j)
      PROVE  crashes' = crashes
  BY <1>1 DEF Work, AttemptSaved, StillStopping, Accepted, UpidReceived, CallFails,
     UpidSaved, RunningSaved, SaveThrows, TaskSeenOk, WaitThrows, DeleteSaved,
     DeleteNotSaved, ErrorSaveEnds, Forget, bounds
<1>2. ASSUME Resume PROVE crashes' = crashes
  BY <1>2 DEF Resume, ResumeRead, ResumeSkip, ResumeTake, ResumeUserFound,
     ResumeUserGone, ResumeEnd, ResumeThrows, bounds
<1>3. ASSUME NEW b \in Bundles, WriteStart(b) \/ BackgroundWriteEnds(b)
      PROVE  crashes' = crashes
  BY <1>3 DEF WriteStart, BackgroundWriteEnds, bounds
<1>4. ASSUME NEW j \in Jobs, Enqueue(j) \/ \E k \in 1..Len(tasks[j]) : TaskEnds(j, k)
      PROVE  crashes' = crashes
  BY <1>4 DEF Enqueue, TaskEnds, bounds
<1>5. Crash => crashes' = crashes + 1
  BY DEF Crash
<1>6. crashes \in Nat
  BY DEF TypeOK
<1> QED BY <1>1, <1>2, <1>3, <1>4, <1>5, <1>6 DEF Next

LEMMA AcceptedTask ==
  ASSUME TypeOK, NEW b \in Bundles, NEW j \in Jobs, Accepted(b, j)
  PROVE  /\ Len(tasks[j]) \in Nat /\ Len(tasks'[j]) = Len(tasks[j]) + 1
         /\ pc[b][j] = "call" /\ pc'[b][j] = "posted" /\ verdicts' = verdicts
<1>1. tasks[j] \in Seq({"running", "ok", "failed"}) /\ tasks'[j] = Append(tasks[j], "running")
  BY DEF TypeOK, Accepted
<1>2. Len(tasks'[j]) = Len(tasks[j]) + 1 /\ Len(tasks[j]) \in Nat
  BY <1>1
<1>3. pc'[b][j] = "posted"
  BY GoCell DEF Accepted
<1> QED BY <1>2, <1>3 DEF Accepted, history

LEMMA LifeStep ==
  ASSUME IInv, Alone, Alone', LifeInv, Next, ~Crash, NEW j \in Jobs
  PROVE  Lives(j)'
<1>t. /\ TypeOK /\ Seen /\ crashes' = crashes /\ crashes \in Nat
      /\ Len(tasks[j]) \in Nat /\ Len(verdicts[j]) \in Nat
  <2>1. TypeOK /\ Seen
    BY SeenStep DEF IInv
  <2>2. tasks[j] \in Seq({"running", "ok", "failed"}) /\ verdicts[j] \in Seq(Verdict)
    BY <2>1 DEF TypeOK
  <2> QED BY <2>1, <2>2, CrashesCount
<1>0. Lives(j)
  BY DEF LifeInv
<1>1. ASSUME NEW b \in Bundles, Accepted(b, j) PROVE Lives(j)'
  <2>1. /\ Len(tasks'[j]) = Len(tasks[j]) + 1 /\ pc[b][j] = "call" /\ pc'[b][j] = "posted"
        /\ verdicts' = verdicts
    BY <1>t, <1>1, AcceptedTask
  <2>2. Calling(j) /\ Working(j)
    BY <2>1 DEF Calling, Working
  <2>3. ~Startable(j)' /\ \A c \in Bundles : c /= b => pc'[c][j] = "idle"
    <3>1. pc'[b][j] /= "idle"
      BY <2>1
    <3> QED BY <3>1 DEF Alone
  <2>4. ~Calling(j)'
    BY <2>1, <2>3 DEF Calling
  <2> QED BY <1>t, <1>0, <2>1, <2>2, <2>3, <2>4 DEF Lives
<1>2. ASSUME NEW b \in Bundles, DeleteSaved(b, j) \/ ErrorSaveEnds(b, j) PROVE Lives(j)'
  <2>1. /\ pc[b][j] /= "idle" /\ pc'[b][j] = "idle"
        /\ \A c \in Bundles : c /= b => pc'[c][j] = pc[c][j]
        /\ Len(verdicts'[j]) = Len(verdicts[j]) + 1
    BY <1>t, <1>2, EndTells
  <2>2. ~Startable(j) /\ \A c \in Bundles : c /= b => pc[c][j] = "idle"
    BY <2>1 DEF Alone
  <2>3. ~Working(j)' /\ ~Calling(j)' /\ ~Startable(j)' /\ Working(j)
    BY <1>t, <2>1, <2>2, StartsShrink DEF Working, Calling
  <2>4. tasks' = tasks
    BY <1>2 DEF DeleteSaved, ErrorSaveEnds
  <2> QED BY <1>t, <1>0, <2>1, <2>3, <2>4 DEF Lives
<1>3. CASE /\ \A b \in Bundles : ~Accepted(b, j) /\ ~DeleteSaved(b, j) /\ ~ErrorSaveEnds(b, j)
  <2>1. Len(tasks'[j]) = Len(tasks[j]) /\ verdicts'[j] = verdicts[j]
    BY <1>t, <1>3, OnlyEndsReport, OnlyCallsRequest
  <2> QED BY <1>t, <1>0, <2>1, StartsShrink DEF Lives
<1> QED BY <1>1, <1>2, <1>3

LEMMA LifeAgrees == ASSUME ~EarlyEnqueue PROVE Spec => []LifeInv
<1>1. Init => LifeInv
  <2> SUFFICES ASSUME Init, NEW j \in Jobs PROVE Lives(j)
    BY DEF LifeInv
  <2>1. tasks[j] = <<>> /\ verdicts[j] = <<>> /\ crashes = 0
    BY DEF Init
  <2> QED BY <2>1 DEF Lives
<1>2. IInv /\ Alone /\ Alone' /\ LifeInv /\ [Next]_vars => LifeInv'
  <2> SUFFICES ASSUME IInv, Alone, Alone', LifeInv, [Next]_vars, NEW j \in Jobs PROVE Lives(j)'
    BY DEF LifeInv
  <2>1. CASE Next /\ ~Crash
    BY <2>1, LifeStep
  <2>2. CASE Crash
    <3>1. tasks' = tasks /\ verdicts' = verdicts /\ crashes' = crashes + 1
      BY <2>2 DEF Crash, history
    <3>2. /\ Len(tasks[j]) <= crashes + 1 /\ Len(verdicts[j]) <= crashes + 1
          /\ Len(tasks[j]) \in Nat /\ Len(verdicts[j]) \in Nat /\ crashes \in Nat
      <4>1. tasks[j] \in Seq({"running", "ok", "failed"}) /\ verdicts[j] \in Seq(Verdict)
            /\ crashes \in Nat
        BY DEF IInv, TypeOK
      <4> QED BY <4>1 DEF LifeInv, Lives
    <3> QED BY <3>1, <3>2 DEF Lives
  <2>3. CASE UNCHANGED vars
    BY <2>3 DEF vars, bundleVars, history, bounds, LifeInv, Lives, Startable, Unresumed,
       Calling, Working
  <2> QED BY <2>1, <2>2, <2>3
<1> QED BY <1>1, <1>2, CopiesAgree, AlwaysAlone, PTL DEF Spec

\* Somebody works on j: nothing final has been said about it.
LEMMA WorkingIsOpen ==
  ASSUME TypeOK, SettledInv, NEW b \in Bundles, NEW j \in Jobs, pc[b][j] /= "idle"
  PROVE  Outside!Open(j)
<1>1. ~Over(j)
  BY DEF SettledInv, Settled
<1>2. dbFailures \in Nat
  BY DEF TypeOK
<1> QED BY <1>1, <1>2 DEF Over, Outside!Open

\* A step that leaves tasks, reports and restarts alone may only fail a
\* database call.
LEMMA Unseen ==
  ASSUME TypeOK, Next, tasks' = tasks, verdicts' = verdicts, crashes' = crashes
  PROVE  [Outside!Next]_(Outside!vars)
<1>1. dbFailures \in Nat /\ dbFailures' \in Nat /\ dbFailures <= dbFailures'
  BY DbFailuresGrow DEF TypeOK
<1>2. CASE dbFailures > 0 <=> dbFailures' > 0
  BY <1>2 DEF Outside!vars
<1>3. CASE ~(dbFailures > 0 <=> dbFailures' > 0)
  <2>1. (dbFailures' > 0) = TRUE
    BY <1>1, <1>3
  <2>2. Outside!DatabaseFails
    BY <2>1 DEF Outside!DatabaseFails
  <2> QED BY <2>2 DEF Outside!Next
<1> QED BY <1>2, <1>3

LEMMA AcceptedRequests ==
  ASSUME IInv, SettledInv, LifeInv, Next, NEW b \in Bundles, NEW j \in Jobs, Accepted(b, j)
  PROVE  Outside!Request(j)
<1>1. TypeOK /\ pc[b][j] = "call"
  BY DEF IInv, Accepted
<1>2. Outside!Open(j)
  BY <1>1, WorkingIsOpen
<1>3. Len(tasks[j]) < crashes + 1
  <2>1. Calling(j) /\ Len(tasks[j]) \in Nat /\ crashes \in Nat
    BY <1>1, AcceptedTask, CrashesCount DEF Calling
  <2> QED BY <2>1 DEF LifeInv, Lives
<1>4. /\ tasks' = [tasks EXCEPT ![j] = Append(@, "running")]
      /\ verdicts' = verdicts /\ crashes' = crashes /\ dbFailures' = dbFailures
  BY DEF Accepted, history, bounds
<1> QED BY <1>2, <1>3, <1>4 DEF Outside!Request

\* The end of runRestoreJob tells what Restores lets it tell.
LEMMA EndsTell ==
  ASSUME IInv, SettledInv, LifeInv, Next, NEW b \in Bundles, NEW j \in Jobs, NEW l,
         DeleteSaved(b, j) \/ ErrorSaveEnds(b, j), Tell(j, l, job[b][j].upid)
  PROVE  Outside!Tell(j, l, job[b][j].upid)
<1>1. TypeOK /\ pc[b][j] /= "idle" /\ tasks' = tasks
  BY DEF IInv, DeleteSaved, ErrorSaveEnds, Awaits
<1>2. Outside!Open(j)
  BY <1>1, WorkingIsOpen
<1>3. Len(verdicts[j]) < crashes + 1
  <2>1. verdicts[j] \in Seq(Verdict) /\ Working(j) /\ crashes \in Nat
    BY <1>1, CrashesCount DEF TypeOK, Working
  <2> QED BY <2>1 DEF LifeInv, Lives
<1>4. crashes' = crashes
  BY DEF DeleteSaved, ErrorSaveEnds
<1> QED BY <1>1, <1>2, <1>3, <1>4 DEF Outside!Tell, Tell

LEMMA OutsideStep ==
  IInv /\ ReportInv /\ EndInv /\ LifeInv /\ [Next]_vars => [Outside!Next]_(Outside!vars)
<1> SUFFICES ASSUME IInv, ReportInv, EndInv, LifeInv, [Next]_vars
             PROVE  [Outside!Next]_(Outside!vars)
  OBVIOUS
<1>t. TypeOK /\ SettledInv
  BY DEF IInv, EndInv
<1>1. CASE UNCHANGED vars
  BY <1>1 DEF vars, history, bounds, Outside!vars
<1>2. ASSUME Next, NEW b \in Bundles, NEW j \in Jobs, Accepted(b, j) PROVE Outside!Next
  BY <1>t, <1>2, AcceptedRequests DEF Outside!Next
<1>3. ASSUME NEW j \in Jobs, NEW k \in 1..Len(tasks[j]), TaskEnds(j, k) PROVE Outside!Next
  <2>1. Outside!TaskEnds(j, k)
    BY <1>3 DEF TaskEnds, Outside!TaskEnds, history, bounds
  <2> QED BY <2>1 DEF Outside!Next
<1>4. ASSUME Crash PROVE Outside!Next
  <2>1. Outside!Restart
    BY <1>4 DEF Crash, Outside!Restart, history
  <2> QED BY <2>1 DEF Outside!Next
<1>5. ASSUME NEW b \in Bundles, NEW j \in Jobs
      PROVE  /\ job[b][j].upid \in 0..Len(tasks[j])
             /\ job[b][j].upid /= 0 => job[b][j].upid \in 1..Len(tasks[j])
  BY <1>t, UpidNames DEF ReportInv
<1>6. ASSUME Next, NEW b \in Bundles, NEW j \in Jobs, DeleteSaved(b, j) PROVE Outside!Next
  <2> DEFINE k == job[b][j].upid
  <2>1. tasks[j][k] = "ok" /\ k /= 0
    BY <1>6 DEF DeleteSaved, Awaits, ReportInv, WorkerWatches, Late
  <2>2. Outside!Tell(j, "success", k)
    BY <1>t, <1>6, EndsTell DEF DeleteSaved
  <2>3. dbFailures' = dbFailures
    BY <1>6 DEF DeleteSaved, WriteSucceeds
  <2>4. Outside!Succeed(j, k)
    BY <2>1, <2>2, <2>3 DEF Outside!Succeed
  <2>5. k \in 1..Len(tasks[j])
    BY <1>5, <2>1
  <2> HIDE DEF k
  <2> QED BY <2>4, <2>5 DEF Outside!Next
<1>7. ASSUME Next, NEW b \in Bundles, NEW j \in Jobs, ErrorSaveEnds(b, j) PROVE Outside!Next
  <2> DEFINE k == job[b][j].upid
  <2>1. Outside!Tell(j, "error", k)
    BY <1>t, <1>7, EndsTell DEF ErrorSaveEnds
  <2>2. (dbFailures' > 0) \in {dbFailures > 0, TRUE}
    <3>1. dbFailures \in Nat /\ dbFailures' \in Nat /\ dbFailures <= dbFailures'
      BY <1>t, <1>7, DbFailuresGrow DEF TypeOK
    <3>2. CASE dbFailures' > 0
      BY <3>2, Zenon
    <3>3. CASE ~(dbFailures' > 0)
      <4>1. ~(dbFailures > 0)
        BY <3>1, <3>3
      <4>2. (dbFailures' > 0) = (dbFailures > 0)
        BY <3>3, <4>1, SMT
      <4> QED BY <4>2, Zenon
    <3> QED BY <3>2, <3>3
  <2>3. Outside!Fail(j, k)
    BY <2>1, <2>2 DEF Outside!Fail
  <2>4. k \in 0..Len(tasks[j])
    BY <1>5
  <2> HIDE DEF k
  <2> QED BY <2>3, <2>4 DEF Outside!Next
<1>8. CASE /\ Next /\ ~Crash
           /\ \A b \in Bundles, j \in Jobs : /\ ~Accepted(b, j) /\ ~DeleteSaved(b, j)
                                             /\ ~ErrorSaveEnds(b, j)
           /\ \A j \in Jobs : \A k \in 1..Len(tasks[j]) : ~TaskEnds(j, k)
  <2>1. tasks' = tasks /\ crashes' = crashes
    BY <1>t, <1>8, TasksUntouched, CrashesCount
  <2>2. verdicts' = verdicts
    <3>1. \A i \in Jobs : verdicts'[i] = verdicts[i]
      BY <1>t, <1>8, OnlyEndsReport
    <3>2. verdicts \in [Jobs -> Seq(Verdict)] /\ verdicts' \in [Jobs -> Seq(Verdict)]
      BY <1>t, TypeStep DEF TypeOK
    <3> QED BY <3>1, <3>2
  <2> QED BY <1>t, <1>8, <2>1, <2>2, Unseen
<1> QED BY <1>1, <1>2, <1>3, <1>4, <1>6, <1>7, <1>8

\* restore-jobs.ts, with its two Maps, its row, its resumption and all its
\* failures, implements Restores: for any number of jobs, restarts and failing
\* calls a guest is overwritten at most once in a life of the process, and never
\* after an end that was told.
THEOREM PromiseKept == ASSUME ~EarlyEnqueue PROVE Spec => Implements
<1>1. Init => Outside!Init
  BY DEF Init, Outside!Init
<1>2. IInv /\ ReportInv /\ EndInv /\ LifeInv /\ [Next]_vars => [Outside!Next]_(Outside!vars)
  BY OutsideStep
<1> QED
  BY <1>1, <1>2, CopiesAgree, ReportsAgree, EndsAgree, LifeAgrees, PTL
  DEF Spec, Implements, Outside!Spec

=============================================================================
