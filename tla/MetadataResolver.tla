-------------------------- MODULE MetadataResolver --------------------------
(***************************************************************************)
(* The Client ID Metadata Document resolver of the MCP OAuth facade        *)
(* (src/internal/mcpoauth/metadata_resolver.go).  Every caller is one HTTP *)
(* request of the facade that runs Resolve; all of them share one mutex, a *)
(* cache with expiry, a table of calls in flight, a table of host fetch    *)
(* times and a semaphore of fetch slots.                                   *)
(*                                                                         *)
(* A section of code under the mutex is one step.  The clock is read       *)
(* before the mutex is taken (line 76 and line 79), so the two are         *)
(* different steps here too.                                               *)
(***************************************************************************)
EXTENDS Integers, FiniteSets

CONSTANTS
  Callers,            \* requests of the facade, each running one Resolve at a time
  ClientIDs,          \* URL-form client ids that validateClientIDURL accepts
  Hosts,              \* the host names those URLs have
  HostOf,             \* the host of each client id
  None,               \* absence of an entry, a call, a time or a document
  HostRetryDelay,     \* metadataHostRetryDelay, in clock ticks
  MaximumCacheTTL,    \* metadataMaximumCacheTTL, in clock ticks
  CacheTTLs,          \* the lifetimes metadataCacheTTL may return
  CacheEntries,       \* metadataCacheEntries
  FetchConcurrency,   \* metadataFetchConcurrency
  FetchTimeout,       \* Timeout of the metadata HTTP client, in clock ticks
  MaxTime             \* bound of the model: the clock stops here

HostEntries == 2 * CacheEntries

Time == 0..MaxTime

\* A document is told apart by the client it names and by the moment its
\* request was sent: what the origin published then or later.
Documents == [client : ClientIDs, asOf : Time]

CacheRecords == [metadata : Documents, expiresAt : Nat]

Errors == {"none", "failed", "cancelled"}

Results == [err : Errors, metadata : Documents \cup {None}]

ASSUME ResolverAssumption ==
  /\ IsFiniteSet(Callers) /\ IsFiniteSet(ClientIDs) /\ IsFiniteSet(Hosts)
  /\ HostOf \in [ClientIDs -> Hosts]
  /\ HostRetryDelay \in Nat \ {0}
  /\ MaximumCacheTTL \in Nat \ {0}
  /\ CacheTTLs \subseteq Int
  /\ \A ttl \in CacheTTLs : ttl <= MaximumCacheTTL
  /\ CacheEntries \in Nat \ {0}
  /\ FetchConcurrency \in Nat \ {0}
  /\ FetchTimeout \in Nat \ {0}
  /\ MaxTime \in Nat
  /\ None \notin Callers
  /\ None \notin Int
  /\ None \notin Documents
  /\ None \notin CacheRecords

VARIABLES
  clock,           \* r.now()
  cache,           \* client id -> entry
  inflight,        \* client id -> the caller that leads its call
  hostLastFetch,   \* host -> time of the last admitted fetch
  fetchSlots,      \* number of tokens in the semaphore channel
  pc,              \* where each caller is in Resolve
  want,            \* argument clientID of each caller
  start,           \* local variable now of each caller
  cancelled,       \* ctx.Done() of each caller
  leader,          \* whose call a follower waits for
  sentAt,          \* when a leader's HTTP request was sent
  cacheTTL,        \* call.cacheTTL of a leader
  result           \* call.metadata and call.err of a leader, answer of a caller

shared == <<cache, inflight, hostLastFetch, fetchSlots>>
locals == <<pc, want, start, cancelled, leader, sentAt, cacheTTL, result>>
vars == <<clock, shared, locals>>

NoResult == [err |-> "none", metadata |-> None]
Failure(kind) == [err |-> kind, metadata |-> None]

\* Leaders own a call: they have left the first critical section and have not
\* yet run the second.
Leading == {"slot", "fetch", "publish"}
Places == Leading \cup {"idle", "lookup", "wait", "woken", "done"}

TypeOK ==
  /\ clock \in Time
  /\ cache \in [ClientIDs -> CacheRecords \cup {None}]
  /\ inflight \in [ClientIDs -> Callers \cup {None}]
  /\ hostLastFetch \in [Hosts -> Time \cup {None}]
  /\ fetchSlots \in 0..FetchConcurrency
  /\ pc \in [Callers -> Places]
  /\ want \in [Callers -> ClientIDs \cup {None}]
  /\ start \in [Callers -> Time]
  /\ cancelled \in [Callers -> BOOLEAN]
  /\ leader \in [Callers -> Callers \cup {None}]
  /\ sentAt \in [Callers -> Time \cup {None}]
  /\ cacheTTL \in [Callers -> CacheTTLs \cup {0}]
  /\ result \in [Callers -> Results]

Init ==
  /\ clock = 0
  /\ cache = [c \in ClientIDs |-> None]
  /\ inflight = [c \in ClientIDs |-> None]
  /\ hostLastFetch = [h \in Hosts |-> None]
  /\ fetchSlots = 0
  /\ pc = [p \in Callers |-> "idle"]
  /\ want = [p \in Callers |-> None]
  /\ start = [p \in Callers |-> 0]
  /\ cancelled = [p \in Callers |-> FALSE]
  /\ leader = [p \in Callers |-> None]
  /\ sentAt = [p \in Callers |-> None]
  /\ cacheTTL = [p \in Callers |-> 0]
  /\ result = [p \in Callers |-> NoResult]

-----------------------------------------------------------------------------
\* The two bounded tables.  Map iteration has no order, so a tie between the
\* oldest entries is broken either way: each eviction is the set of tables it
\* may leave.

Held(table) == {k \in DOMAIN table : table[k] # None}

EarliestExpiring ==
  {c \in Held(cache) :
     \A d \in Held(cache) : cache[c].expiresAt <= cache[d].expiresAt}

\* Mutant: the limit is compared with <= and one entry too many fits.
EvictCacheEntryLate ==
  IF Cardinality(Held(cache)) <= CacheEntries
    THEN {cache}
    ELSE {[cache EXCEPT ![c] = None] : c \in EarliestExpiring}

evictCacheEntryLocked ==
  IF Cardinality(Held(cache)) < CacheEntries
    THEN {cache}
    ELSE {[cache EXCEPT ![c] = None] : c \in EarliestExpiring}

\* The hosts whose last fetch is too recent, at time now, to forget.
RecentHosts(now) ==
  {h \in Held(hostLastFetch) : now - hostLastFetch[h] < HostRetryDelay}

OldestHosts(now) ==
  {h \in RecentHosts(now) :
     \A g \in RecentHosts(now) : hostLastFetch[h] <= hostLastFetch[g]}

Keep(hosts) == [h \in Hosts |-> IF h \in hosts THEN hostLastFetch[h] ELSE None]

\* Mutant: an oldest host goes although forgetting the others made room.
EvictHostAlways(now) ==
  IF Cardinality(Held(hostLastFetch)) < HostEntries
    THEN {hostLastFetch}
    ELSE IF RecentHosts(now) = {}
           THEN {Keep({})}
           ELSE {Keep(RecentHosts(now) \ {h}) : h \in OldestHosts(now)}

evictHostRateEntryLocked(now) ==
  IF Cardinality(Held(hostLastFetch)) < HostEntries
    THEN {hostLastFetch}
    ELSE IF Cardinality(RecentHosts(now)) < HostEntries
           THEN {Keep(RecentHosts(now))}
           ELSE {Keep(RecentHosts(now) \ {h}) : h \in OldestHosts(now)}

-----------------------------------------------------------------------------
\* Outside the mutex: a request starts, is abandoned by its client, or ends.

\* Line 76 reads the clock.  A client id that validateClientIDURL refuses
\* returns an error before anything shared is read and is left out.
BeginResolve(p, c) ==
  /\ pc[p] = "idle"
  /\ pc' = [pc EXCEPT ![p] = "lookup"]
  /\ want' = [want EXCEPT ![p] = c]
  /\ start' = [start EXCEPT ![p] = clock]
  /\ UNCHANGED <<clock, shared, cancelled, leader, sentAt, cacheTTL, result>>

\* The context of the request is done: its client hung up or timed out.
Cancel(p) ==
  /\ pc[p] \in {"lookup", "wait", "woken", "slot", "fetch"}
  /\ ~cancelled[p]
  /\ cancelled' = [cancelled EXCEPT ![p] = TRUE]
  /\ UNCHANGED <<clock, shared, pc, want, start, leader, sentAt, cacheTTL,
                 result>>

\* Resolve has returned; the locals of the goroutine are gone.
Return(p) ==
  /\ pc[p] = "done"
  /\ pc' = [pc EXCEPT ![p] = "idle"]
  /\ want' = [want EXCEPT ![p] = None]
  /\ start' = [start EXCEPT ![p] = 0]
  /\ cancelled' = [cancelled EXCEPT ![p] = FALSE]
  /\ leader' = [leader EXCEPT ![p] = None]
  /\ sentAt' = [sentAt EXCEPT ![p] = None]
  /\ cacheTTL' = [cacheTTL EXCEPT ![p] = 0]
  /\ result' = [result EXCEPT ![p] = NoResult]
  /\ UNCHANGED <<clock, shared>>

-----------------------------------------------------------------------------
\* The first critical section, lines 79 to 101: one of four outcomes.

\* Mutant: expiry is not looked at.
CachedForever(c, now) == cache[c] # None

Cached(c, now) == cache[c] # None /\ now < cache[c].expiresAt

\* Mutant: the table of calls in flight is not consulted.
NeverInFlight(c) == FALSE

InFlight(c) == inflight[c] # None

HostLimited(h, now) ==
  hostLastFetch[h] # None /\ now - hostLastFetch[h] < HostRetryDelay

Answer(p, r) ==
  /\ pc' = [pc EXCEPT ![p] = "done"]
  /\ result' = [result EXCEPT ![p] = r]

Hit(p) ==
  /\ pc[p] = "lookup"
  /\ Cached(want[p], start[p])
  /\ Answer(p, [err |-> "none", metadata |-> cache[want[p]].metadata])
  /\ UNCHANGED <<clock, shared, want, start, cancelled, leader, sentAt,
                 cacheTTL>>

Join(p) ==
  /\ pc[p] = "lookup"
  /\ ~Cached(want[p], start[p])
  /\ InFlight(want[p])
  /\ pc' = [pc EXCEPT ![p] = "wait"]
  /\ leader' = [leader EXCEPT ![p] = inflight[want[p]]]
  /\ UNCHANGED <<clock, shared, want, start, cancelled, sentAt, cacheTTL,
                 result>>

RateLimited(p) ==
  /\ pc[p] = "lookup"
  /\ ~Cached(want[p], start[p])
  /\ ~InFlight(want[p])
  /\ HostLimited(HostOf[want[p]], start[p])
  /\ Answer(p, Failure("failed"))
  /\ UNCHANGED <<clock, shared, want, start, cancelled, leader, sentAt,
                 cacheTTL>>

Lead(p) ==
  /\ pc[p] = "lookup"
  /\ ~Cached(want[p], start[p])
  /\ ~InFlight(want[p])
  /\ ~HostLimited(HostOf[want[p]], start[p])
  /\ pc' = [pc EXCEPT ![p] = "slot"]
  /\ inflight' = [inflight EXCEPT ![want[p]] = p]
  /\ \E kept \in evictHostRateEntryLocked(start[p]) :
       hostLastFetch' = [kept EXCEPT ![HostOf[want[p]]] = start[p]]
  /\ UNCHANGED <<clock, cache, fetchSlots, want, start, cancelled, leader,
                 sentAt, cacheTTL, result>>

Lookup(p) == Hit(p) \/ Join(p) \/ RateLimited(p) \/ Lead(p)

-----------------------------------------------------------------------------
\* The leader, lines 103 to 109, outside the mutex.  With both a free slot and
\* a cancelled context the select takes either branch.

AcquireSlot(p) ==
  /\ pc[p] = "slot"
  /\ fetchSlots < FetchConcurrency
  /\ fetchSlots' = fetchSlots + 1
  /\ pc' = [pc EXCEPT ![p] = "fetch"]
  /\ sentAt' = [sentAt EXCEPT ![p] = clock]
  /\ UNCHANGED <<clock, cache, inflight, hostLastFetch, want, start, cancelled,
                 leader, cacheTTL, result>>

AbandonSlot(p) ==
  /\ pc[p] = "slot"
  /\ cancelled[p]
  /\ pc' = [pc EXCEPT ![p] = "publish"]
  /\ result' = [result EXCEPT ![p] = Failure("cancelled")]
  /\ UNCHANGED <<clock, shared, want, start, cancelled, leader, sentAt,
                 cacheTTL>>

\* Mutant: an early return between taking and releasing the slot.
LeakSlotWhenCancelled(p) ==
  /\ pc[p] = "fetch"
  /\ fetchSlots' = IF cancelled[p] THEN fetchSlots ELSE fetchSlots - 1
  /\ pc' = [pc EXCEPT ![p] = "publish"]
  /\ UNCHANGED <<clock, cache, inflight, hostLastFetch, want, start, cancelled,
                 leader, sentAt>>

ReleaseSlot(p) ==
  /\ pc[p] = "fetch"
  /\ fetchSlots' = fetchSlots - 1
  /\ pc' = [pc EXCEPT ![p] = "publish"]
  /\ UNCHANGED <<clock, cache, inflight, hostLastFetch, want, start, cancelled,
                 leader, sentAt>>

\* What fetch makes of a well-formed response whose document names a client:
\* the document, or the error of line 177.
Fetched(p, named) ==
  IF named = want[p]
    THEN [err |-> "none", metadata |-> [client |-> named, asOf |-> sentAt[p]]]
    ELSE Failure("failed")

\* fetch returns after reading a whole response.  A context that was done
\* before that makes the HTTP client fail instead.
FetchAnswered(p) ==
  /\ ReleaseSlot(p)
  /\ ~cancelled[p]
  /\ \E named \in ClientIDs, ttl \in CacheTTLs :
       /\ result' = [result EXCEPT ![p] = Fetched(p, named)]
       /\ cacheTTL' = [cacheTTL EXCEPT ![p] = IF named = want[p] THEN ttl ELSE 0]

\* Any other end of fetch: dial refused, timeout, status, media type, size,
\* JSON, an unsafe field or metadata outside the profile, or the context.
FetchFailed(p) ==
  /\ ReleaseSlot(p)
  /\ result' = [result EXCEPT ![p] =
                  Failure(IF cancelled[p] THEN "cancelled" ELSE "failed")]
  /\ UNCHANGED cacheTTL

-----------------------------------------------------------------------------
\* The second critical section, lines 111 to 120.

Cacheable(p) == result[p].err = "none" /\ cacheTTL[p] > 0

StoreResult(p) ==
  IF Cacheable(p)
    THEN \E kept \in evictCacheEntryLocked :
           cache' = [kept EXCEPT ![want[p]] =
                       [metadata |-> result[p].metadata,
                        expiresAt |-> clock + cacheTTL[p]]]
    ELSE UNCHANGED cache

\* Mutant: the call is removed from the table but not closed.
NoFollowers(p) == {}

Followers(p) == {f \in Callers : pc[f] = "wait" /\ leader[f] = p}

\* close(call.done) wakes the followers; the call they point to no longer
\* changes, so each takes its outcome along.
Publish(p) ==
  /\ pc[p] = "publish"
  /\ inflight' = [inflight EXCEPT ![want[p]] = None]
  /\ StoreResult(p)
  /\ pc' = [q \in Callers |->
              IF q = p THEN "done"
              ELSE IF q \in Followers(p) THEN "woken" ELSE pc[q]]
  /\ result' = [q \in Callers |->
                  IF q \in Followers(p) THEN result[p] ELSE result[q]]
  /\ sentAt' = [sentAt EXCEPT ![p] = None]
  /\ UNCHANGED <<clock, hostLastFetch, fetchSlots, want, start, cancelled,
                 leader, cacheTTL>>

\* The select of lines 86 to 91: the call is done, or the follower's own
\* context is.
FollowerAnswered(p) ==
  /\ pc[p] = "woken"
  /\ pc' = [pc EXCEPT ![p] = "done"]
  /\ UNCHANGED <<clock, shared, want, start, cancelled, leader, sentAt,
                 cacheTTL, result>>

FollowerCancelled(p) ==
  /\ pc[p] \in {"wait", "woken"}
  /\ cancelled[p]
  /\ Answer(p, Failure("cancelled"))
  /\ UNCHANGED <<clock, shared, want, start, cancelled, leader, sentAt,
                 cacheTTL>>

-----------------------------------------------------------------------------
\* The clock does not pass the timeout of a request that is being fetched or
\* whose answer is about to be published.
Tick ==
  /\ clock < MaxTime
  /\ \A p \in Callers : sentAt[p] # None => clock - sentAt[p] < FetchTimeout
  /\ clock' = clock + 1
  /\ UNCHANGED <<shared, locals>>

Fetch(p) == FetchAnswered(p) \/ FetchFailed(p)

Step(p) ==
  \/ \E c \in ClientIDs : BeginResolve(p, c)
  \/ Cancel(p)
  \/ Lookup(p)
  \/ AcquireSlot(p)
  \/ AbandonSlot(p)
  \/ Fetch(p)
  \/ Publish(p)
  \/ FollowerAnswered(p)
  \/ FollowerCancelled(p)
  \/ Return(p)

Next == Tick \/ \E p \in Callers : Step(p)

\* A goroutine that can run does run; the HTTP client's timeout ends every
\* fetch; a goroutine blocked on the slot channel queues in arrival order, so
\* a slot that keeps coming free reaches it.  Nobody has to start or cancel a
\* request, and time need not pass.
Fairness ==
  \A p \in Callers :
    /\ WF_vars(Lookup(p))
    /\ SF_vars(AcquireSlot(p))
    /\ WF_vars(Fetch(p))
    /\ WF_vars(Publish(p))
    /\ WF_vars(FollowerAnswered(p))
    /\ WF_vars(Return(p))

Spec == Init /\ [][Next]_vars

FairSpec == Spec /\ Fairness

-----------------------------------------------------------------------------
\* Safety.

\* At most one caller leads a call for a client id, and the table names it:
\* lookups of one client never fetch twice at once (lines 84 to 98, 112).
SingleFlight ==
  /\ \A c \in ClientIDs : inflight[c] # None =>
       pc[inflight[c]] \in Leading /\ want[inflight[c]] = c
  /\ \A p \in Callers : pc[p] \in Leading => inflight[want[p]] = p

\* A follower blocked on call.done waits for a call that is still in flight, so
\* somebody is going to close it, whatever becomes of the fetch.
NobodyWaitsInVain ==
  \A p \in Callers : pc[p] = "wait" =>
    leader[p] \in Callers /\ inflight[want[p]] = leader[p]

\* The tokens in the channel are exactly the fetches under way: no end of a
\* fetch leaks a slot or gives one back twice (lines 103 to 109).
SlotsAreHeld == fetchSlots = Cardinality({p \in Callers : pc[p] = "fetch"})

\* Neither table outgrows its limit, although an eviction precedes the
\* insertion and the inserted key may be present already.
TablesBounded ==
  /\ Cardinality(Held(cache)) <= CacheEntries
  /\ Cardinality(Held(hostLastFetch)) <= HostEntries

\* Nobody is given, and the cache never holds, the document of another client,
\* whatever the origin served (line 177).
OwnDocument ==
  /\ \A p \in Callers : result[p].metadata # None =>
       result[p].metadata.client = want[p]
  /\ \A c \in ClientIDs : cache[c] # None => cache[c].metadata.client = c

\* An entry lives longer than the request that fetched it took to send, and
\* never beyond the maximum lifetime after the fetch's deadline: no failed,
\* no-store or expired answer is kept (lines 113 to 118).
StoredWithinBounds ==
  \A c \in ClientIDs : cache[c] # None =>
    /\ cache[c].expiresAt > cache[c].metadata.asOf
    /\ cache[c].expiresAt - cache[c].metadata.asOf <= FetchTimeout + MaximumCacheTTL

\* When it is called, Resolve promises a document no older than the maximum
\* lifetime and one fetch, also when it joins a call or reads a stale clock.
FreshDocument ==
  \A p \in Callers : pc[p] = "done" /\ result[p].err = "none" =>
    start[p] - result[p].metadata.asOf < FetchTimeout + MaximumCacheTTL

-----------------------------------------------------------------------------
\* Liveness.

\* Every call of Resolve returns: no lost wake-up, no leaked slot, no circular
\* wait between leaders, followers and the semaphore.
EveryCallReturns == \A p \in Callers : pc[p] = "lookup" ~> pc[p] = "done"

=============================================================================
