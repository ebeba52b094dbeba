-------------------------- MODULE InventoryCache --------------------------
(***************************************************************************)
(* The per-host inventory cache of server/services/inventory-cache.ts: one *)
(* key (one host and base URL) of the copy that the API routes use.        *)
(*                                                                         *)
(* A load is answered from the cache, joins the request that is in flight, *)
(* or begins one.  Guest actions invalidate the key, which forgets the     *)
(* cached list and the request in flight without stopping that request:    *)
(* it stores its answer when it comes, and its finally clears whatever     *)
(* request is registered by then.                                          *)
(*                                                                         *)
(* Of the inventory only one VMID is kept: which kind of guest has it.     *)
(***************************************************************************)
EXTENDS Naturals, FiniteSets

CONSTANTS
  Fetches,   \* bound: requests in flight at once
  Readers,   \* callers of loadHostInventory that use what they get,
  Pages,     \* and pages that only show it
  NoFetch,   \* no request
  Kinds      \* kinds of guests: "vm", "lxc"

ASSUME CacheAssumption == NoFetch \notin Fetches /\ Kinds \subseteq {"vm", "lxc"}

Answers == Kinds \cup {"gone"}

VARIABLES
  kind,     \* external: what has the VMID on the node now
  cache,    \* the cached answer, or "none" (expired, cleared, never set)
  inflight, \* the registered request, or NoFetch
  fetch,    \* fetch[f]: "idle", "sent", or the answer that is on its way
  waits,    \* waits[r]: the request that reader r awaits
  got,      \* got[r]: the answer r received; "none" while it has none
  past      \* history: what had the VMID since the last quiet invalidation

cacheVars == <<kind, cache, inflight, fetch, waits, got, past>>

CacheTypeOK ==
  /\ kind \in Answers
  /\ cache \in Answers \cup {"none"}
  /\ inflight \in Fetches \cup {NoFetch}
  /\ fetch \in [Fetches -> Answers \cup {"idle", "sent"}]
  /\ waits \in [Readers \cup Pages -> Fetches \cup {NoFetch}]
  /\ got \in [Readers -> Answers \cup {"none", "failed"}]
  /\ past \subseteq Answers

CacheInit ==
  /\ kind \in Kinds
  /\ cache = "none" /\ inflight = NoFetch
  /\ fetch = [f \in Fetches |-> "idle"]
  /\ waits = [r \in Readers \cup Pages |-> NoFetch]
  /\ got = [r \in Readers |-> "none"]
  /\ past = {kind}

\* loadHostInventory while an entry is fresh.
Hit(r) ==
  /\ waits[r] = NoFetch /\ cache # "none"
  /\ got' = [got EXCEPT ![r] = cache]
  /\ UNCHANGED <<kind, cache, inflight, fetch, waits, past>>

\* ... while another load has registered its request.
Join(r) ==
  /\ waits[r] = NoFetch /\ cache = "none" /\ inflight # NoFetch
  /\ waits' = [waits EXCEPT ![r] = inflight]
  /\ UNCHANGED <<kind, cache, inflight, fetch, got, past>>

\* ... and otherwise: a request of its own (any free one: they are alike).
Begin(r) ==
  /\ waits[r] = NoFetch /\ cache = "none" /\ inflight = NoFetch
  /\ \E f \in Fetches : fetch[f] = "idle"
  /\ LET f == CHOOSE g \in Fetches : fetch[g] = "idle"
     IN /\ fetch' = [fetch EXCEPT ![f] = "sent"]
        /\ inflight' = f
        /\ waits' = [waits EXCEPT ![r] = f]
  /\ UNCHANGED <<kind, cache, got, past>>

\* A page that is served from the cache changes nothing.
Load(r) == (r \in Readers /\ Hit(r)) \/ Join(r) \/ Begin(r)

\* The node answers client.listInventory with what it has at that moment.
Answer(f) ==
  /\ fetch[f] = "sent"
  /\ fetch' = [fetch EXCEPT ![f] = kind]
  /\ UNCHANGED <<kind, cache, inflight, waits, got, past>>

Deliver(f, result) ==
  /\ got' = [r \in Readers |-> IF waits[r] = f THEN result ELSE got[r]]
  /\ waits' = [r \in Readers \cup Pages |-> IF waits[r] = f THEN NoFetch ELSE waits[r]]
  /\ fetch' = [fetch EXCEPT ![f] = "idle"]
  /\ inflight' = NoFetch

\* The answer is stored and handed out; the finally deletes the key.
Store(f) ==
  /\ fetch[f] \in Answers
  /\ cache' = fetch[f]
  /\ Deliver(f, fetch[f])
  /\ UNCHANGED <<kind, past>>

\* Mutant of FetchFails: the failure is cached as well.
FetchFailsCached(f) ==
  /\ fetch[f] = "sent"
  /\ cache' = "failed"
  /\ Deliver(f, "failed")
  /\ UNCHANGED <<kind, past>>

\* The request throws for everyone who awaits it.
FetchFails(f) ==
  /\ fetch[f] = "sent"
  /\ Deliver(f, "failed")
  /\ UNCHANGED <<kind, cache, past>>

\* The entry passes its maximum age.
Expire ==
  /\ cache # "none"
  /\ cache' = "none"
  /\ UNCHANGED <<kind, inflight, fetch, waits, got, past>>

Quiet == \A f \in Fetches : fetch[f] = "idle"

\* Mutant of Invalidate: only the request in flight is forgotten.
InvalidateRequest ==
  /\ inflight' = NoFetch
  /\ past' = IF Quiet THEN {kind} ELSE past
  /\ UNCHANGED cache

\* invalidateInventoryCache(hostId).  After a quiet invalidation, one that no
\* request overlaps, only what the node has from now on can be served.
Invalidate ==
  /\ cache' = "none"
  /\ inflight' = NoFetch
  /\ past' = IF Quiet THEN {kind} ELSE past

\* The guest with the VMID changes.
Becomes(k) == kind' = k /\ past' = past \cup {k}

CacheStep ==
  \/ \E f \in Fetches : Answer(f) \/ Store(f) \/ FetchFails(f)
  \/ Expire

\* What the cache may serve: only what the node had since the last quiet
\* invalidation (the inductive core of the properties about stale lists).
ServesThePast ==
  /\ kind \in past
  /\ cache # "none" => cache \in past
  /\ \A f \in Fetches : fetch[f] \in Answers => fetch[f] \in past

=============================================================================
