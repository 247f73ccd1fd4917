----------------------- MODULE MetadataResolverProofs -----------------------
(***************************************************************************)
(* Proofs about the metadata resolver, for every number of callers,        *)
(* clients and hosts and every value of the limits: first what each state  *)
(* of MetadataResolver satisfies, then what the callers of Resolve are     *)
(* told over several calls.  The resolver implements DocumentReads, no     *)
(* call is given an older document than a call before it, and the fetches  *)
(* of a host keep their distance.                                          *)
(***************************************************************************)
EXTENDS ResolverReads, ResolverHistory, FiniteSetTheorems, TLAPS

Fetching == {p \in Callers : pc[p] = "fetch"}

\* What the types leave open: a caller inside Resolve has a client id, a request
\* under way has a send time, and a successful call has a document.
Wanted ==
  \A p \in Callers :
    /\ pc[p] # "idle" => want[p] \in ClientIDs
    /\ pc[p] = "fetch" => sentAt[p] \in Time
    /\ result[p].err = "none" /\ pc[p] \in {"publish", "woken", "done"} =>
         result[p].metadata \in Documents
    /\ pc[p] \in {"idle", "lookup", "wait", "slot", "fetch"} => result[p] = NoResult

TypeInv == TypeOK /\ Wanted /\ SlotsAreHeld

Flight == SingleFlight /\ NobodyWaitsInVain

FlightInv == TypeInv /\ Flight

\* A request under way, or answered and about to be published, was sent no
\* longer ago than the HTTP client's timeout; a result is no older than that
\* when its call starts, or it came from the cache before it expired.
SentRecently ==
  \A p \in Callers :
    /\ start[p] <= clock
    /\ sentAt[p] # None =>
         sentAt[p] \in 0..clock /\ clock - sentAt[p] <= FetchTimeout
    /\ pc[p] = "publish" /\ result[p].err = "none" =>
         sentAt[p] # None /\ result[p].metadata.asOf = sentAt[p]

FreshResult ==
  \A p \in Callers : pc[p] \in {"woken", "done"} /\ result[p].err = "none" =>
    start[p] - result[p].metadata.asOf < FetchTimeout + MaximumCacheTTL

DocumentInv ==
  FlightInv /\ OwnDocument /\ SentRecently /\ StoredWithinBounds /\ FreshResult

-----------------------------------------------------------------------------
\* The evictions.

LEMMA EvictCacheKeeps ==
  ASSUME TypeOK, NEW kept \in evictCacheEntryLocked
  PROVE  /\ kept \in [ClientIDs -> CacheRecords \cup {None}]
         /\ \A c \in ClientIDs : kept[c] = None \/ kept[c] = cache[c]
BY DEF TypeOK, evictCacheEntryLocked

LEMMA EvictHostKeeps ==
  ASSUME TypeOK, NEW now, NEW kept \in evictHostRateEntryLocked(now)
  PROVE  /\ kept \in [Hosts -> Time \cup {None}]
         /\ \A h \in Hosts : kept[h] = None \/ kept[h] = hostLastFetch[h]
BY DEF TypeOK, evictHostRateEntryLocked, Keep

-----------------------------------------------------------------------------
\* Types.

LEMMA InitTypeInv == Init => TypeInv
<1> SUFFICES ASSUME Init PROVE TypeInv
  OBVIOUS
<1> USE ResolverAssumption
<1>1. TypeOK
  BY DEF Init, TypeOK, Time, Places, Leading, Results, NoResult, Errors
<1>2. Wanted
  BY DEF Init, Wanted
<1>3. SlotsAreHeld
  <2>1. {p \in Callers : pc[p] = "fetch"} = {}
    BY DEF Init
  <2>2. QED
    BY <2>1, FS_EmptySet DEF Init, SlotsAreHeld
<1>4. QED
  BY <1>1, <1>2, <1>3 DEF TypeInv

\* Steps that neither enter nor leave the fetch keep the slot count.
LEMMA SlotsUnchanged ==
  ASSUME SlotsAreHeld, UNCHANGED fetchSlots,
         \A p \in Callers : pc'[p] = "fetch" <=> pc[p] = "fetch"
  PROVE  SlotsAreHeld'
<1>1. {p \in Callers : pc'[p] = "fetch"} = {p \in Callers : pc[p] = "fetch"}
  OBVIOUS
<1>2. QED
  BY <1>1 DEF SlotsAreHeld

LEMMA StartTypeInv ==
  ASSUME TypeInv, NEW p \in Callers, NEW c \in ClientIDs, BeginResolve(p, c)
  PROVE  TypeInv'
<1> USE DEF BeginResolve, shared
<1>1. TypeOK'
  BY DEF TypeInv, TypeOK, Places
<1>2. Wanted'
  BY DEF TypeInv, TypeOK, Wanted
<1>3. SlotsAreHeld'
  BY SlotsUnchanged DEF TypeInv, TypeOK
<1>4. QED
  BY <1>1, <1>2, <1>3 DEF TypeInv

LEMMA LookupTypeInv ==
  ASSUME TypeInv, NEW p \in Callers, Lookup(p)
  PROVE  TypeInv'
<1> USE DEF TypeInv
<1>1. CASE Hit(p)
  <2> USE <1>1 DEF Hit, Answer, shared
  <2>1. want[p] \in ClientIDs /\ cache[want[p]] \in CacheRecords
    BY DEF TypeOK, Wanted, Cached
  <2>2. TypeOK'
    BY <2>1 DEF TypeOK, Places, Results, Errors, CacheRecords
  <2>3. Wanted'
    BY <2>1 DEF TypeOK, Wanted, CacheRecords
  <2>4. SlotsAreHeld'
    BY SlotsUnchanged DEF TypeOK
  <2>5. QED
    BY <2>2, <2>3, <2>4
<1>2. CASE Join(p)
  <2> USE <1>2 DEF Join, shared
  <2>1. TypeOK'
    BY DEF TypeOK, Wanted, Places, InFlight
  <2>2. Wanted'
    BY DEF TypeOK, Wanted
  <2>3. SlotsAreHeld'
    BY SlotsUnchanged DEF TypeOK
  <2>4. QED
    BY <2>1, <2>2, <2>3
<1>3. CASE RateLimited(p)
  <2> USE <1>3 DEF RateLimited, Answer, Failure, shared
  <2>1. TypeOK'
    BY DEF TypeOK, Places, Results, Errors
  <2>2. Wanted'
    BY DEF TypeOK, Wanted
  <2>3. SlotsAreHeld'
    BY SlotsUnchanged DEF TypeOK
  <2>4. QED
    BY <2>1, <2>2, <2>3
<1>4. CASE Lead(p)
  <2> USE <1>4 DEF Lead
  <2>1. hostLastFetch' \in [Hosts -> Time \cup {None}]
    <3>1. PICK kept \in evictHostRateEntryLocked(start[p]) :
            hostLastFetch' = [kept EXCEPT ![HostOf[want[p]]] = start[p]]
      OBVIOUS
    <3>2. kept \in [Hosts -> Time \cup {None}]
      BY EvictHostKeeps
    <3>3. QED
      BY <3>1, <3>2 DEF TypeOK
  <2>2. pc' \in [Callers -> Places] /\ inflight' \in [ClientIDs -> Callers \cup {None}]
    BY DEF TypeOK, Places, Leading
  <2>3. TypeOK'
    BY <2>1, <2>2 DEF TypeOK
  <2>4. Wanted'
    BY DEF TypeOK, Wanted
  <2>5. SlotsAreHeld'
    BY SlotsUnchanged DEF TypeOK
  <2>6. QED
    BY <2>3, <2>4, <2>5
<1>5. QED
  BY <1>1, <1>2, <1>3, <1>4 DEF Lookup

LEMMA AcquireTypeInv ==
  ASSUME TypeInv, NEW p \in Callers, AcquireSlot(p)
  PROVE  TypeInv'
<1> USE ResolverAssumption DEF TypeInv, AcquireSlot
<1>1. TypeOK'
  BY DEF TypeOK, Places, Leading
<1>2. Wanted'
  BY DEF TypeOK, Wanted
<1>3. SlotsAreHeld'
  <2> DEFINE F == {q \in Callers : pc[q] = "fetch"}
  <2>1. {q \in Callers : pc'[q] = "fetch"} = F \cup {p}
    BY DEF TypeOK
  <2>2. IsFiniteSet(F) /\ p \notin F
    BY FS_Subset
  <2>3. Cardinality(F \cup {p}) = Cardinality(F) + 1
    BY <2>2, FS_AddElement
  <2>4. QED
    BY <2>1, <2>3 DEF SlotsAreHeld
<1>4. QED
  BY <1>1, <1>2, <1>3

LEMMA ReleaseTypeInv ==
  ASSUME TypeInv, NEW p \in Callers, ReleaseSlot(p),
         result' \in [Callers -> Results], cacheTTL' \in [Callers -> CacheTTLs \cup {0}],
         \A q \in Callers \ {p} : result'[q] = result[q],
         result'[p].err = "none" => result'[p].metadata \in Documents
  PROVE  TypeInv'
<1> USE ResolverAssumption DEF TypeInv, ReleaseSlot
<1> DEFINE F == {q \in Callers : pc[q] = "fetch"}
<1>1. IsFiniteSet(F) /\ p \in F
  BY FS_Subset
<1>2. Cardinality(F \ {p}) = Cardinality(F) - 1
  BY <1>1, FS_RemoveElement
<1>3. Cardinality(F) \in Nat /\ Cardinality(F) # 0
  BY <1>1, FS_CardinalityType, FS_EmptySet
<1>4. fetchSlots = Cardinality(F)
  BY DEF SlotsAreHeld
<1>5. TypeOK'
  <2>1. fetchSlots \in 0..FetchConcurrency /\ fetchSlots # 0
    BY <1>3, <1>4 DEF TypeOK
  <2>2. fetchSlots' \in 0..FetchConcurrency
    BY <2>1
  <2>3. pc' \in [Callers -> Places]
    BY DEF TypeOK, Places, Leading
  <2>4. QED
    BY <2>2, <2>3 DEF TypeOK
<1>6. Wanted'
  BY DEF TypeOK, Wanted
<1>7. SlotsAreHeld'
  <2>1. {q \in Callers : pc'[q] = "fetch"} = F \ {p}
    BY DEF TypeOK
  <2>2. QED
    BY <2>1, <1>2, <1>4 DEF SlotsAreHeld
<1>8. QED
  BY <1>5, <1>6, <1>7

LEMMA FetchTypeInv ==
  ASSUME TypeInv, NEW p \in Callers, Fetch(p)
  PROVE  TypeInv'
<1> USE ResolverAssumption DEF Failure
<1>1. want[p] \in ClientIDs /\ sentAt[p] \in Time /\ ReleaseSlot(p)
  BY DEF TypeInv, Wanted, Fetch, FetchAnswered, FetchFailed, ReleaseSlot
<1>2. CASE FetchAnswered(p)
  <2>1. PICK named \in ClientIDs, ttl \in CacheTTLs :
          /\ result' = [result EXCEPT ![p] = Fetched(p, named)]
          /\ cacheTTL' = [cacheTTL EXCEPT ![p] = IF named = want[p] THEN ttl ELSE 0]
    BY <1>2 DEF FetchAnswered
  <2>2. /\ Fetched(p, named) \in Results
        /\ Fetched(p, named).err = "none" => Fetched(p, named).metadata \in Documents
    BY <1>1 DEF Fetched, Results, Errors, Documents
  <2>3. result' \in [Callers -> Results] /\ cacheTTL' \in [Callers -> CacheTTLs \cup {0}]
    BY <2>1, <2>2 DEF TypeInv, TypeOK
  <2>4. /\ \A q \in Callers \ {p} : result'[q] = result[q]
        /\ result'[p] = Fetched(p, named)
    BY <2>1 DEF TypeInv, TypeOK
  <2>5. QED
    BY <1>1, <2>2, <2>3, <2>4, ReleaseTypeInv
<1>3. CASE FetchFailed(p)
  <2>1. result' \in [Callers -> Results] /\ cacheTTL' \in [Callers -> CacheTTLs \cup {0}]
    BY <1>3 DEF FetchFailed, TypeInv, TypeOK, Results, Errors
  <2>2. /\ \A q \in Callers \ {p} : result'[q] = result[q]
        /\ result'[p].err # "none"
    BY <1>3 DEF FetchFailed, TypeInv, TypeOK
  <2>3. QED
    BY <1>1, <2>1, <2>2, ReleaseTypeInv
<1>4. QED
  BY <1>2, <1>3 DEF Fetch

\* What Publish leaves in the cache.
LEMMA StoreKeeps ==
  ASSUME TypeInv, NEW p \in Callers, pc[p] = "publish", StoreResult(p)
  PROVE  /\ cache' \in [ClientIDs -> CacheRecords \cup {None}]
         /\ \A c \in ClientIDs :
              \/ cache'[c] = None
              \/ cache'[c] = cache[c]
              \/ /\ c = want[p] /\ Cacheable(p)
                 /\ cache'[c] = [metadata |-> result[p].metadata,
                                 expiresAt |-> clock + cacheTTL[p]]
<1> USE ResolverAssumption DEF TypeInv
<1>1. CASE Cacheable(p)
  <2> DEFINE entry == [metadata |-> result[p].metadata,
                       expiresAt |-> clock + cacheTTL[p]]
  <2>1. PICK kept \in evictCacheEntryLocked : cache' = [kept EXCEPT ![want[p]] = entry]
    BY <1>1 DEF StoreResult
  <2>2. /\ kept \in [ClientIDs -> CacheRecords \cup {None}]
        /\ \A c \in ClientIDs : kept[c] = None \/ kept[c] = cache[c]
    BY EvictCacheKeeps
  <2>3. clock + cacheTTL[p] \in Nat
    <3>1. cacheTTL[p] \in Int /\ cacheTTL[p] > 0
      <4>1. cacheTTL[p] \in CacheTTLs \cup {0}
        BY DEF TypeOK
      <4>2. cacheTTL[p] > 0
        BY <1>1 DEF Cacheable
      <4>3. CacheTTLs \subseteq Int /\ 0 \in Int
        OBVIOUS
      <4>4. cacheTTL[p] \in Int
        BY <4>1, <4>3, Zenon
      <4>5. QED
        BY <4>2, <4>4
    <3>2. clock \in Nat
      BY DEF TypeOK, Time
    <3>3. QED
      BY <3>1, <3>2
  <2>4. entry \in CacheRecords
    BY <1>1, <2>3 DEF Wanted, Cacheable, CacheRecords
  <2>5. QED
    BY <1>1, <2>1, <2>2, <2>4
<1>2. CASE ~Cacheable(p)
  BY <1>2 DEF StoreResult, TypeOK
<1>3. QED
  BY <1>1, <1>2

LEMMA PublishTypeInv ==
  ASSUME TypeInv, NEW p \in Callers, Publish(p)
  PROVE  TypeInv'
<1> USE ResolverAssumption DEF Publish, Followers
<1>1. cache' \in [ClientIDs -> CacheRecords \cup {None}]
  BY StoreKeeps
<1>2. TypeOK'
  BY <1>1 DEF TypeInv, TypeOK, Places
<1>3. Wanted'
  BY DEF TypeInv, TypeOK, Wanted
<1>4. SlotsAreHeld'
  BY SlotsUnchanged DEF TypeInv, TypeOK
<1>5. QED
  BY <1>2, <1>3, <1>4 DEF TypeInv

LEMMA OtherTypeInv ==
  ASSUME TypeInv, NEW p \in Callers,
         AbandonSlot(p) \/ FollowerAnswered(p) \/ FollowerCancelled(p)
           \/ Cancel(p) \/ Return(p)
  PROVE  TypeInv'
<1> USE DEF AbandonSlot, FollowerAnswered, FollowerCancelled, Cancel, Return,
            Answer, Failure, NoResult, shared
<1>1. ASSUME AbandonSlot(p) \/ FollowerAnswered(p) \/ FollowerCancelled(p)
      PROVE  TypeOK'
  <2>1. pc' \in [Callers -> Places]
    BY <1>1 DEF TypeInv, TypeOK, Places, Leading
  <2>2. [err |-> "cancelled", metadata |-> None] \in Results
    BY DEF Results, Errors
  <2>3. result' \in [Callers -> Results]
    BY <1>1, <2>2 DEF TypeInv, TypeOK
  <2>4. UNCHANGED <<clock, cache, inflight, hostLastFetch, fetchSlots, want,
                    start, cancelled, leader, sentAt, cacheTTL>>
    BY <1>1
  <2>5. QED
    BY <2>1, <2>3, <2>4 DEF TypeInv, TypeOK
<1>2. ASSUME Cancel(p) PROVE TypeOK'
  BY <1>2 DEF TypeInv, TypeOK
<1>3. ASSUME Return(p) PROVE TypeOK'
  <2>1. /\ pc' \in [Callers -> Places] /\ result' \in [Callers -> Results]
        /\ start' \in [Callers -> Time]
    BY <1>3, ResolverAssumption
    DEF TypeInv, TypeOK, Places, Leading, Results, Errors, Time
  <2>2. QED
    BY <1>3, <2>1 DEF TypeInv, TypeOK
<1>4. TypeOK'
  BY <1>1, <1>2, <1>3
<1>5. Wanted'
  BY DEF TypeInv, TypeOK, Wanted
<1>6. SlotsAreHeld'
  BY SlotsUnchanged DEF TypeInv, TypeOK
<1>7. QED
  BY <1>4, <1>5, <1>6 DEF TypeInv

LEMMA TickTypeInv ==
  ASSUME TypeInv, Tick
  PROVE  TypeInv'
<1> USE ResolverAssumption DEF Tick, shared, locals
<1>1. TypeOK'
  BY DEF TypeInv, TypeOK, Time
<1>2. Wanted'
  BY DEF TypeInv, Wanted
<1>3. SlotsAreHeld'
  BY DEF TypeInv, SlotsAreHeld
<1>4. QED
  BY <1>1, <1>2, <1>3 DEF TypeInv

LEMMA StutterTypeInv ==
  ASSUME TypeInv, UNCHANGED vars
  PROVE  TypeInv'
BY DEF TypeInv, TypeOK, Wanted, SlotsAreHeld, vars, shared, locals

LEMMA NextTypeInv == TypeInv /\ [Next]_vars => TypeInv'
<1> SUFFICES ASSUME TypeInv, [Next]_vars PROVE TypeInv'
  OBVIOUS
<1>1. CASE Tick
  BY <1>1, TickTypeInv
<1>2. ASSUME NEW p \in Callers, Step(p) PROVE TypeInv'
  BY <1>2, StartTypeInv, LookupTypeInv, AcquireTypeInv, FetchTypeInv,
     PublishTypeInv, OtherTypeInv DEF Step
<1>3. CASE UNCHANGED vars
  BY <1>3, StutterTypeInv
<1>4. QED
  BY <1>1, <1>2, <1>3 DEF Next

\* Every variable keeps its type, and the tokens in the channel are exactly the
\* fetches under way, for any number of callers and any limit: the bound of the
\* channel is never exceeded and its count never falls below zero because each
\* token belongs to one caller between AcquireSlot and ReleaseSlot.
THEOREM TypeCorrect == Spec => [](TypeOK /\ SlotsAreHeld)
<1>1. Spec => []TypeInv
  BY InitTypeInv, NextTypeInv, PTL DEF Spec
<1>2. TypeInv => TypeOK /\ SlotsAreHeld
  BY DEF TypeInv
<1>3. QED
  BY <1>1, <1>2, PTL

-----------------------------------------------------------------------------
\* One call in flight for each client.

\* Steps of a caller that stays on its side of the call leave the table alone.
LEMMA FlightUnchanged ==
  ASSUME FlightInv, NEW p \in Callers, UNCHANGED <<inflight, want, leader>>,
         \A q \in Callers \ {p} : pc'[q] = pc[q],
         pc'[p] \in Leading <=> pc[p] \in Leading,
         pc'[p] # "wait"
  PROVE  Flight'
BY ResolverAssumption DEF FlightInv, TypeInv, TypeOK, Flight, SingleFlight, NobodyWaitsInVain

\* Closing a call wakes everyone who waits for it: nobody else waits for that
\* client, since the table names one leader for it.
LEMMA PublishFlight ==
  ASSUME FlightInv, NEW p \in Callers, Publish(p)
  PROVE  Flight'
<1> USE ResolverAssumption DEF FlightInv
<1>1. /\ pc[p] = "publish" /\ inflight' = [inflight EXCEPT ![want[p]] = None]
      /\ UNCHANGED <<want, leader>>
      /\ \A q \in Callers : pc'[q] = IF q = p THEN "done"
                                     ELSE IF q \in Followers(p) THEN "woken" ELSE pc[q]
  BY DEF Publish
<1>2. want[p] \in ClientIDs /\ inflight[want[p]] = p
  BY <1>1 DEF TypeInv, Wanted, Leading, Flight, SingleFlight
<1>3. ASSUME NEW q \in Callers, q # p, pc[q] \in Leading
      PROVE  want[q] \in ClientIDs /\ inflight[want[q]] = q /\ want[q] # want[p]
  BY <1>2, <1>3 DEF TypeInv, Wanted, Leading, Flight, SingleFlight
<1>4. \A q \in Callers : pc'[q] \in Leading =>
        q # p /\ pc[q] \in Leading
  BY <1>1 DEF Leading
<1>5. SingleFlight'
  <2>1. ASSUME NEW q \in Callers, pc'[q] \in Leading PROVE inflight'[want'[q]] = q
    BY <1>1, <1>3, <1>4, <2>1 DEF TypeInv, TypeOK
  <2>2. ASSUME NEW c \in ClientIDs, inflight'[c] # None
        PROVE  pc'[inflight'[c]] \in Leading /\ want'[inflight'[c]] = c
    <3>1. c # want[p] /\ inflight'[c] = inflight[c]
      BY <1>1, <1>2, <2>2 DEF TypeInv, TypeOK
    <3>2. /\ inflight[c] \in Callers
          /\ pc[inflight[c]] \in Leading /\ want[inflight[c]] = c
      BY <2>2, <3>1 DEF TypeInv, TypeOK, Flight, SingleFlight
    <3>3. inflight[c] # p /\ inflight[c] \notin Followers(p)
      BY <3>1, <3>2 DEF Followers, Leading
    <3>4. QED
      BY <1>1, <3>1, <3>2, <3>3
  <2>3. QED
    BY <2>1, <2>2 DEF SingleFlight
<1>6. ASSUME NEW q \in Callers, pc'[q] = "wait"
      PROVE  leader'[q] \in Callers /\ inflight'[want'[q]] = leader'[q]
  <2>1. pc[q] = "wait" /\ leader[q] # p
    BY <1>1, <1>6 DEF Followers
  <2>2. want[q] \in ClientIDs /\ leader[q] \in Callers /\ inflight[want[q]] = leader[q]
    BY <2>1 DEF TypeInv, Wanted, Flight, NobodyWaitsInVain
  <2>3. QED
    BY <1>1, <1>2, <2>1, <2>2 DEF TypeInv, TypeOK
<1>7. QED
  BY <1>5, <1>6 DEF Flight, NobodyWaitsInVain

LEMMA NextFlight == FlightInv /\ [Next]_vars => FlightInv'
<1> SUFFICES ASSUME FlightInv, [Next]_vars PROVE Flight'
  BY NextTypeInv DEF FlightInv
<1> USE ResolverAssumption DEF FlightInv
<1>1. CASE Tick
  BY <1>1 DEF Tick, shared, locals, Flight, SingleFlight, NobodyWaitsInVain
<1>2. ASSUME NEW p \in Callers, NEW c \in ClientIDs, BeginResolve(p, c) PROVE Flight'
  BY <1>2 DEF BeginResolve, shared, TypeInv, TypeOK, Leading,
              Flight, SingleFlight, NobodyWaitsInVain
<1>3. ASSUME NEW p \in Callers, Hit(p) \/ RateLimited(p) PROVE Flight'
  <2>1. /\ UNCHANGED <<inflight, want, leader>>
        /\ pc[p] = "lookup" /\ pc' = [pc EXCEPT ![p] = "done"]
    BY <1>3 DEF Hit, RateLimited, Answer, shared
  <2>2. QED
    BY <2>1, FlightUnchanged DEF Leading, TypeInv, TypeOK
<1>4. ASSUME NEW p \in Callers, Join(p) PROVE Flight'
  <2>1. want[p] \in ClientIDs /\ inflight[want[p]] \in Callers
    BY <1>4 DEF Join, InFlight, TypeInv, TypeOK, Wanted
  <2>2. /\ pc' = [pc EXCEPT ![p] = "wait"]
        /\ leader' = [leader EXCEPT ![p] = inflight[want[p]]]
        /\ pc[p] = "lookup" /\ UNCHANGED <<inflight, want>>
    BY <1>4 DEF Join, shared
  <2>3. SingleFlight'
    BY <2>2 DEF TypeInv, TypeOK, Leading, Flight, SingleFlight
  <2>4. NobodyWaitsInVain'
    BY <2>1, <2>2 DEF TypeInv, TypeOK, Flight, NobodyWaitsInVain
  <2>5. QED
    BY <2>3, <2>4 DEF Flight
<1>5. ASSUME NEW p \in Callers, Lead(p) PROVE Flight'
  <2>1. want[p] \in ClientIDs /\ inflight[want[p]] = None
    BY <1>5 DEF Lead, InFlight, TypeInv, TypeOK, Wanted
  <2>2. /\ pc' = [pc EXCEPT ![p] = "slot"]
        /\ inflight' = [inflight EXCEPT ![want[p]] = p]
        /\ pc[p] = "lookup" /\ UNCHANGED <<want, leader>>
    BY <1>5 DEF Lead
  <2>3. \A q \in Callers : pc[q] \in Leading \cup {"wait"} => want[q] \in ClientIDs
    BY DEF TypeInv, Wanted, Leading
  <2>4. \A q \in Callers : pc[q] \in Leading => want[q] # want[p]
    BY <2>1 DEF Flight, SingleFlight
  <2>5. SingleFlight'
    BY <2>1, <2>2, <2>3, <2>4 DEF TypeInv, TypeOK, Leading, Flight, SingleFlight
  <2>6. ASSUME NEW q \in Callers, pc'[q] = "wait"
        PROVE  leader'[q] \in Callers /\ inflight'[want'[q]] = leader'[q]
    <3>1. pc[q] = "wait" /\ want[q] \in ClientIDs
      BY <2>2, <2>3, <2>6 DEF TypeInv, TypeOK
    <3>2. leader[q] \in Callers /\ inflight[want[q]] = leader[q]
      BY <3>1 DEF Flight, NobodyWaitsInVain
    <3>3. QED
      BY <2>1, <2>2, <3>1, <3>2 DEF TypeInv, TypeOK
  <2>7. QED
    BY <2>5, <2>6 DEF Flight, NobodyWaitsInVain
<1>6. ASSUME NEW p \in Callers, AcquireSlot(p) \/ AbandonSlot(p) \/ Fetch(p) PROVE Flight'
  <2>1. /\ UNCHANGED <<inflight, want, leader>>
        /\ pc[p] \in {"slot", "fetch"}
        /\ pc' = [pc EXCEPT ![p] = "fetch"] \/ pc' = [pc EXCEPT ![p] = "publish"]
    BY <1>6 DEF AcquireSlot, AbandonSlot, Fetch, FetchAnswered, FetchFailed,
                ReleaseSlot, shared
  <2>2. QED
    BY <2>1, FlightUnchanged DEF Leading, TypeInv, TypeOK
<1>7. ASSUME NEW p \in Callers, Publish(p) PROVE Flight'
  BY <1>7, PublishFlight
<1>8. ASSUME NEW p \in Callers, FollowerAnswered(p) \/ FollowerCancelled(p) PROVE Flight'
  <2>1. /\ UNCHANGED <<inflight, want, leader>>
        /\ pc[p] \in {"wait", "woken"} /\ pc' = [pc EXCEPT ![p] = "done"]
    BY <1>8 DEF FollowerAnswered, FollowerCancelled, Answer, shared
  <2>2. QED
    BY <2>1, FlightUnchanged DEF Leading, TypeInv, TypeOK
<1>9. ASSUME NEW p \in Callers, Cancel(p) PROVE Flight'
  BY <1>9 DEF Cancel, shared, Flight, SingleFlight, NobodyWaitsInVain
<1>10. ASSUME NEW p \in Callers, Return(p) PROVE Flight'
  BY <1>10 DEF Return, shared, TypeInv, TypeOK, Leading,
              Flight, SingleFlight, NobodyWaitsInVain
<1>11. CASE UNCHANGED vars
  BY <1>11 DEF vars, shared, locals, Flight, SingleFlight, NobodyWaitsInVain
<1>12. QED
  BY <1>1, <1>2, <1>3, <1>4, <1>5, <1>6, <1>7, <1>8, <1>9, <1>10, <1>11
  DEF Next, Step, Lookup

LEMMA InitFlight == Init => FlightInv
<1> SUFFICES ASSUME Init PROVE Flight
  BY InitTypeInv DEF FlightInv
<1>1. QED
  BY ResolverAssumption
  DEF Init, Leading, Flight, SingleFlight, NobodyWaitsInVain

\* No two requests ever fetch the document of one client at the same time, and a
\* request that waits for another's fetch always has a leader that is still to
\* publish: for any number of requests, clients and slots.
THEOREM OneFlight == Spec => [](SingleFlight /\ NobodyWaitsInVain)
<1>1. Spec => []FlightInv
  BY InitFlight, NextFlight, PTL DEF Spec
<1>2. FlightInv => SingleFlight /\ NobodyWaitsInVain
  BY DEF FlightInv, Flight
<1>3. QED
  BY <1>1, <1>2, PTL

-----------------------------------------------------------------------------
\* The limits of the two tables.

LEMMA InsertBounded ==
  ASSUME NEW K, IsFiniteSet(K), NEW V, NEW table \in [K -> V], NEW k \in K, NEW v,
         NEW n \in Nat, Cardinality(Held(table)) < n
  PROVE  Cardinality(Held([table EXCEPT ![k] = v])) <= n
<1> DEFINE after == [table EXCEPT ![k] = v]
<1>1. Held(table) \subseteq K /\ Held(after) \subseteq Held(table) \cup {k}
  BY DEF Held
<1>2. IsFiniteSet(Held(table))
  BY <1>1, FS_Subset
<1>3. /\ IsFiniteSet(Held(table) \cup {k})
      /\ Cardinality(Held(table) \cup {k}) <= Cardinality(Held(table)) + 1
      /\ Cardinality(Held(table)) \in Nat
      /\ Cardinality(Held(table) \cup {k}) \in Nat
  <2>1. Cardinality(Held(table)) \in Nat
    BY <1>2, FS_CardinalityType
  <2>2. /\ IsFiniteSet(Held(table) \cup {k})
        /\ \/ Cardinality(Held(table) \cup {k}) = Cardinality(Held(table))
           \/ Cardinality(Held(table) \cup {k}) = Cardinality(Held(table)) + 1
    BY <1>2, FS_AddElement, Zenon
  <2>3. QED
    BY <2>1, <2>2
<1>4. IsFiniteSet(Held(after)) /\ Cardinality(Held(after)) <= Cardinality(Held(table) \cup {k})
  BY <1>1, <1>3, FS_Subset
<1>5. Cardinality(Held(after)) \in Nat
  BY <1>4, FS_CardinalityType
<1>6. QED
  BY <1>3, <1>4, <1>5

\* Each eviction makes room for one entry.
LEMMA EvictCacheMakesRoom ==
  ASSUME TypeOK, Cardinality(Held(cache)) <= CacheEntries,
         NEW kept \in evictCacheEntryLocked
  PROVE  Cardinality(Held(kept)) < CacheEntries
<1> USE ResolverAssumption DEF evictCacheEntryLocked
<1>1. Held(cache) \subseteq ClientIDs
  BY DEF TypeOK, Held
<1>2. IsFiniteSet(Held(cache)) /\ Cardinality(Held(cache)) \in Nat
  BY <1>1, FS_Subset, FS_CardinalityType
<1>3. CASE Cardinality(Held(cache)) < CacheEntries
  BY <1>3
<1>4. CASE ~(Cardinality(Held(cache)) < CacheEntries)
  <2>1. PICK c \in Held(cache) : kept = [cache EXCEPT ![c] = None]
    BY <1>4 DEF EarliestExpiring
  <2>2. Held(kept) = Held(cache) \ {c}
    BY <2>1 DEF TypeOK, Held
  <2>3. Cardinality(Held(cache) \ {c}) = Cardinality(Held(cache)) - 1
    BY <1>2, <2>1, FS_RemoveElement
  <2>4. QED
    BY <1>2, <2>2, <2>3
<1>5. QED
  BY <1>3, <1>4

LEMMA EvictHostMakesRoom ==
  ASSUME TypeOK, Cardinality(Held(hostLastFetch)) <= HostEntries,
         NEW now, NEW kept \in evictHostRateEntryLocked(now)
  PROVE  Cardinality(Held(kept)) < HostEntries
<1> USE ResolverAssumption DEF evictHostRateEntryLocked
<1> DEFINE Recent == RecentHosts(now)
<1>1. Held(hostLastFetch) \subseteq Hosts /\ Recent \subseteq Held(hostLastFetch)
  BY DEF TypeOK, Held, RecentHosts
<1>2. /\ IsFiniteSet(Held(hostLastFetch)) /\ IsFiniteSet(Recent)
      /\ Cardinality(Recent) <= Cardinality(Held(hostLastFetch))
      /\ Cardinality(Recent) \in Nat /\ Cardinality(Held(hostLastFetch)) \in Nat
      /\ HostEntries \in Nat
  BY <1>1, FS_Subset, FS_CardinalityType DEF HostEntries
<1>3. ASSUME NEW S, S \subseteq Held(hostLastFetch) PROVE Held(Keep(S)) = S
  BY <1>1, <1>3 DEF Keep, Held, TypeOK
<1>4. CASE Cardinality(Held(hostLastFetch)) < HostEntries
  BY <1>4
<1>5. CASE ~(Cardinality(Held(hostLastFetch)) < HostEntries)
           /\ Cardinality(Recent) < HostEntries
  <2>1. kept = Keep(Recent)
    BY <1>5
  <2>2. Held(Keep(Recent)) = Recent
    BY <1>1, <1>3
  <2>3. QED
    BY <1>5, <2>1, <2>2
<1>6. CASE ~(Cardinality(Held(hostLastFetch)) < HostEntries)
           /\ ~(Cardinality(Recent) < HostEntries)
  <2>1. PICK h \in Recent : kept = Keep(Recent \ {h})
    BY <1>6 DEF OldestHosts
  <2>2. Recent \ {h} \subseteq Held(hostLastFetch)
    BY <1>1
  <2>3. Held(Keep(Recent \ {h})) = Recent \ {h}
    BY <1>3, <2>2
  <2>4. Cardinality(Recent \ {h}) = Cardinality(Recent) - 1
    BY <1>2, FS_RemoveElement
  <2>5. Cardinality(Held(kept)) = Cardinality(Recent) - 1
    BY <2>1, <2>3, <2>4
  <2>6. QED
    BY <1>2, <2>5
<1>7. QED
  BY <1>4, <1>5, <1>6

LEMMA NextTables == TypeInv /\ TablesBounded /\ [Next]_vars => TablesBounded'
<1> SUFFICES ASSUME TypeInv, TablesBounded, [Next]_vars PROVE TablesBounded'
  OBVIOUS
<1> USE ResolverAssumption
<1>1. CASE UNCHANGED <<cache, hostLastFetch>>
  BY <1>1 DEF TablesBounded, Held
<1>2. ASSUME NEW p \in Callers, Lead(p) PROVE TablesBounded'
  <2>1. PICK kept \in evictHostRateEntryLocked(start[p]) :
          hostLastFetch' = [kept EXCEPT ![HostOf[want[p]]] = start[p]]
    BY <1>2 DEF Lead
  <2>2. kept \in [Hosts -> Time \cup {None}] /\ Cardinality(Held(kept)) < HostEntries
    BY EvictHostKeeps, EvictHostMakesRoom DEF TypeInv, TablesBounded
  <2>3. HostOf[want[p]] \in Hosts /\ HostEntries \in Nat
    BY <1>2 DEF Lead, TypeInv, Wanted, HostEntries
  <2>4. Cardinality(Held(hostLastFetch')) <= HostEntries
    BY <2>1, <2>2, <2>3, InsertBounded
  <2>5. Cardinality(Held(cache')) <= CacheEntries
    BY <1>2 DEF Lead, TablesBounded
  <2>6. QED
    BY <2>4, <2>5 DEF TablesBounded, Held
<1>3. ASSUME NEW p \in Callers, Publish(p), Cacheable(p) PROVE TablesBounded'
  <2> DEFINE entry == [metadata |-> result[p].metadata,
                       expiresAt |-> clock + cacheTTL[p]]
  <2>1. PICK kept \in evictCacheEntryLocked : cache' = [kept EXCEPT ![want[p]] = entry]
    BY <1>3 DEF Publish, StoreResult
  <2>2. /\ kept \in [ClientIDs -> CacheRecords \cup {None}]
        /\ Cardinality(Held(kept)) < CacheEntries
    BY EvictCacheKeeps, EvictCacheMakesRoom DEF TypeInv, TablesBounded
  <2>3. want[p] \in ClientIDs
    BY <1>3 DEF Publish, TypeInv, Wanted
  <2>4. Cardinality(Held([kept EXCEPT ![want[p]] = entry])) <= CacheEntries
    <3> HIDE DEF entry
    <3>1. QED
      BY <2>2, <2>3, InsertBounded
  <2>5. Cardinality(Held(hostLastFetch')) <= HostEntries
    BY <1>3 DEF Publish, TablesBounded
  <2>6. QED
    BY <2>1, <2>4, <2>5 DEF TablesBounded, Held
<1>4. ASSUME NEW p \in Callers, Publish(p), ~Cacheable(p) PROVE TablesBounded'
  BY <1>1, <1>4 DEF Publish, StoreResult
<1>5. ASSUME NEW p \in Callers, Step(p), ~Lead(p), ~Publish(p) PROVE TablesBounded'
  <2>1. UNCHANGED <<cache, hostLastFetch>>
    BY <1>5 DEF Step, BeginResolve, Cancel, Lookup, Hit, Join, RateLimited,
                AcquireSlot, AbandonSlot, Fetch, FetchAnswered, FetchFailed,
                ReleaseSlot, FollowerAnswered, FollowerCancelled, Return, shared
  <2>2. QED
    BY <1>1, <2>1
<1>6. CASE Tick \/ UNCHANGED vars
  BY <1>1, <1>6 DEF Tick, vars, shared
<1>7. QED
  BY <1>2, <1>3, <1>4, <1>5, <1>6 DEF Next

\* The two tables never outgrow their limits, however many clients and hosts
\* the requests name: each insertion follows an eviction that has made room, also
\* when the key was present and when no old host may be forgotten.
THEOREM TablesStayBounded == Spec => []TablesBounded
<1>1. Init => TablesBounded
  <2> SUFFICES ASSUME Init PROVE TablesBounded
    OBVIOUS
  <2>1. Held(cache) = {} /\ Held(hostLastFetch) = {}
    BY DEF Init, Held
  <2>2. QED
    BY <2>1, FS_EmptySet, ResolverAssumption DEF TablesBounded, HostEntries
<1>2. Init => TypeInv
  BY InitTypeInv
<1>3. TypeInv /\ [Next]_vars => TypeInv'
  BY NextTypeInv
<1>4. QED
  BY <1>1, <1>2, <1>3, NextTables, PTL DEF Spec

-----------------------------------------------------------------------------
\* The documents callers are given.

Document == OwnDocument /\ SentRecently /\ StoredWithinBounds /\ FreshResult

LEMMA DocumentTypes ==
  ASSUME TypeInv
  PROVE  /\ clock \in Nat /\ \A p \in Callers : start[p] \in Nat
         /\ \A p \in Callers : result[p].metadata # None =>
              result[p].metadata \in Documents /\ result[p].metadata.asOf \in Nat
         /\ \A c \in ClientIDs : cache[c] # None =>
              /\ cache[c] \in CacheRecords /\ cache[c].expiresAt \in Nat
              /\ cache[c].metadata \in Documents /\ cache[c].metadata.asOf \in Nat
         /\ \A p \in Callers : sentAt[p] # None => sentAt[p] \in Nat
BY DEF TypeInv, TypeOK, Time, Results, Documents, CacheRecords

\* Steps that create no document and send no request.
LEMMA DocumentUnchanged ==
  ASSUME DocumentInv, NEW p \in Callers, UNCHANGED <<clock, cache, want, start, sentAt>>,
         pc[p] # "publish", pc'[p] \in {"wait", "slot", "publish", "done"},
         \A q \in Callers \ {p} : pc'[q] = pc[q] /\ result'[q] = result[q],
         result'[p].err = "none" => pc'[p] # "publish",
         \/ result'[p] = result[p] /\ (pc'[p] = "done" => pc[p] = "woken")
         \/ result'[p].metadata = None /\ result'[p].err # "none"
  PROVE  Document'
<1> USE DEF DocumentInv, Document
<1>1. OwnDocument'
  BY DEF OwnDocument
<1>2. SentRecently'
  BY DEF SentRecently
<1>3. StoredWithinBounds'
  BY DEF StoredWithinBounds
<1>4. FreshResult'
  BY DEF FreshResult
<1>5. QED
  BY <1>1, <1>2, <1>3, <1>4

LEMMA HitDocument ==
  ASSUME DocumentInv, NEW p \in Callers, Hit(p)
  PROVE  Document'
<1> USE ResolverAssumption DEF DocumentInv, Document, FlightInv, Hit, Answer, shared
<1>1. /\ want[p] \in ClientIDs /\ cache[want[p]] # None
      /\ start[p] < cache[want[p]].expiresAt
  BY DEF TypeInv, Wanted, Cached
<1>2. /\ \A q \in Callers \ {p} : pc'[q] = pc[q] /\ result'[q] = result[q]
      /\ pc'[p] = "done"
      /\ result'[p] = [err |-> "none", metadata |-> cache[want[p]].metadata]
  BY DEF TypeInv, TypeOK
<1>3. OwnDocument'
  BY <1>1, <1>2 DEF OwnDocument
<1>4. SentRecently'
  BY <1>2 DEF SentRecently
<1>5. StoredWithinBounds'
  BY DEF StoredWithinBounds
<1>6. FreshResult'
  <2>1. start[p] - cache[want[p]].metadata.asOf < FetchTimeout + MaximumCacheTTL
    <3>1. /\ cache[want[p]].expiresAt \in Nat /\ cache[want[p]].metadata.asOf \in Nat
          /\ start[p] \in Nat
      BY <1>1, DocumentTypes
    <3>2. cache[want[p]].expiresAt - cache[want[p]].metadata.asOf
            <= FetchTimeout + MaximumCacheTTL
      BY <1>1 DEF StoredWithinBounds
    <3>3. QED
      BY <1>1, <3>1, <3>2
  <2>2. QED
    BY <1>2, <2>1 DEF FreshResult
<1>7. QED
  BY <1>3, <1>4, <1>5, <1>6

LEMMA AcquireDocument ==
  ASSUME DocumentInv, NEW p \in Callers, AcquireSlot(p)
  PROVE  Document'
<1> USE ResolverAssumption DEF DocumentInv, Document, FlightInv, AcquireSlot
<1>1. /\ \A q \in Callers \ {p} : pc'[q] = pc[q] /\ sentAt'[q] = sentAt[q]
      /\ pc'[p] = "fetch" /\ sentAt'[p] = clock
  BY DEF TypeInv, TypeOK
<1>2. OwnDocument'
  BY DEF OwnDocument
<1>3. SentRecently'
  BY <1>1, DocumentTypes DEF SentRecently
<1>4. StoredWithinBounds' /\ FreshResult'
  BY <1>1 DEF StoredWithinBounds, FreshResult
<1>5. QED
  BY <1>2, <1>3, <1>4

LEMMA AnsweredDocument ==
  ASSUME DocumentInv, NEW p \in Callers, FetchAnswered(p)
  PROVE  Document'
<1> USE ResolverAssumption DEF DocumentInv, Document, FlightInv, ReleaseSlot
<1>1. PICK named \in ClientIDs : result' = [result EXCEPT ![p] = Fetched(p, named)]
  BY DEF FetchAnswered
<1>2. /\ \A q \in Callers \ {p} : pc'[q] = pc[q] /\ result'[q] = result[q]
      /\ pc'[p] = "publish" /\ result'[p] = Fetched(p, named)
      /\ UNCHANGED <<clock, cache, want, start, sentAt>>
      /\ pc[p] = "fetch"
  BY <1>1 DEF FetchAnswered, TypeInv, TypeOK
<1>3. sentAt[p] # None
  BY <1>2 DEF TypeInv, Wanted, Time
<1>4. /\ Fetched(p, named).metadata # None => Fetched(p, named).metadata.client = want[p]
      /\ Fetched(p, named).err = "none" => Fetched(p, named).metadata.asOf = sentAt[p]
  BY DEF Fetched, Failure
<1>5. OwnDocument'
  BY <1>2, <1>4 DEF OwnDocument
<1>6. SentRecently'
  BY <1>2, <1>3, <1>4 DEF SentRecently
<1>7. StoredWithinBounds' /\ FreshResult'
  BY <1>2 DEF StoredWithinBounds, FreshResult
<1>8. QED
  BY <1>5, <1>6, <1>7

\* Every follower asked for the client whose call it joined, and a result that
\* is published was sent for within the timeout: it is fresh for the leader and
\* for every follower, and so is the entry it leaves.
LEMMA PublishDocument ==
  ASSUME DocumentInv, NEW p \in Callers, Publish(p)
  PROVE  Document'
<1> USE ResolverAssumption DEF DocumentInv, Document, FlightInv
<1>1. /\ pc[p] = "publish" /\ StoreResult(p)
      /\ \A q \in Callers : /\ pc'[q] = IF q = p THEN "done"
                                      ELSE IF q \in Followers(p) THEN "woken" ELSE pc[q]
                            /\ result'[q] = IF q \in Followers(p) THEN result[p]
                                                                  ELSE result[q]
                            /\ sentAt'[q] = IF q = p THEN None ELSE sentAt[q]
      /\ UNCHANGED <<clock, want, start>>
  BY DEF Publish, TypeInv, TypeOK
<1>2. want[p] \in ClientIDs /\ inflight[want[p]] = p
  BY <1>1 DEF TypeInv, Wanted, Leading, Flight, SingleFlight
<1>3. \A f \in Followers(p) : want[f] = want[p]
  BY <1>1 DEF Followers, TypeInv, Wanted, Flight, SingleFlight, NobodyWaitsInVain
<1>4. result[p].err = "none" =>
        /\ result[p].metadata \in Documents /\ result[p].metadata.client = want[p]
        /\ result[p].metadata # None
        /\ result[p].metadata.asOf \in 0..clock
        /\ clock - result[p].metadata.asOf <= FetchTimeout
  BY <1>1 DEF TypeInv, Wanted, OwnDocument, SentRecently
<1>5. \A c \in ClientIDs :
        \/ cache'[c] = None
        \/ cache'[c] = cache[c]
        \/ /\ c = want[p] /\ Cacheable(p)
           /\ cache'[c] = [metadata |-> result[p].metadata,
                           expiresAt |-> clock + cacheTTL[p]]
  BY <1>1, StoreKeeps
<1>6. OwnDocument'
  <2>1. ASSUME NEW q \in Callers, result'[q].metadata # None
        PROVE  result'[q].metadata.client = want'[q]
    BY <1>1, <1>3, <2>1 DEF OwnDocument
  <2>2. ASSUME NEW c \in ClientIDs, cache'[c] # None
        PROVE  cache'[c].metadata.client = c
    BY <1>4, <1>5, <2>2 DEF OwnDocument, Cacheable
  <2>3. QED
    BY <2>1, <2>2 DEF OwnDocument
<1>7. SentRecently'
  BY <1>1 DEF SentRecently, Followers
<1>8. StoredWithinBounds'
  <2>1. ASSUME NEW c \in ClientIDs, cache'[c] # None
        PROVE  /\ cache'[c].expiresAt > cache'[c].metadata.asOf
               /\ cache'[c].expiresAt - cache'[c].metadata.asOf
                    <= FetchTimeout + MaximumCacheTTL
    <3>1. CASE cache'[c] = cache[c]
      BY <2>1, <3>1 DEF StoredWithinBounds
    <3>2. CASE /\ c = want[p] /\ Cacheable(p)
               /\ cache'[c] = [metadata |-> result[p].metadata,
                               expiresAt |-> clock + cacheTTL[p]]
      <4>1. cacheTTL[p] \in Int /\ cacheTTL[p] > 0 /\ cacheTTL[p] <= MaximumCacheTTL
        <5>1. cacheTTL[p] \in CacheTTLs \cup {0} /\ cacheTTL[p] > 0
          BY <3>2 DEF Cacheable, TypeInv, TypeOK
        <5>2. 0 \in Int /\ CacheTTLs \subseteq Int /\ ~(0 > 0)
          OBVIOUS
        <5>3. cacheTTL[p] \in Int
          BY <5>1, <5>2, Zenon
        <5>4. cacheTTL[p] \in CacheTTLs
          BY <5>1, <5>2
        <5>5. QED
          BY <5>1, <5>3, <5>4
      <4>2. result[p].err = "none"
        BY <3>2 DEF Cacheable
      <4>3. clock \in Nat /\ result[p].metadata.asOf \in 0..clock
        BY <1>4, <4>2, DocumentTypes
      <4>4. QED
        BY <1>4, <3>2, <4>1, <4>2, <4>3
    <3>3. QED
      BY <1>5, <2>1, <3>1, <3>2
  <2>2. QED
    BY <2>1 DEF StoredWithinBounds
<1>9. FreshResult'
  <2>1. ASSUME NEW q \in Callers, pc'[q] \in {"woken", "done"}, result'[q].err = "none"
        PROVE  start'[q] - result'[q].metadata.asOf < FetchTimeout + MaximumCacheTTL
    <3>1. CASE q = p \/ q \in Followers(p)
      <4>1. result'[q] = result[p] /\ result[p].err = "none" /\ start'[q] = start[q]
        BY <1>1, <2>1, <3>1
      <4>2. /\ start[q] \in Nat /\ clock \in Nat /\ start[q] <= clock
            /\ result[p].metadata.asOf \in 0..clock
            /\ clock - result[p].metadata.asOf <= FetchTimeout
        BY <1>4, <4>1, DocumentTypes DEF SentRecently
      <4>3. QED
        BY <4>1, <4>2
    <3>2. CASE q # p /\ q \notin Followers(p)
      BY <1>1, <2>1, <3>2 DEF FreshResult
    <3>3. QED
      BY <3>1, <3>2
  <2>2. QED
    BY <2>1 DEF FreshResult
<1>10. QED
  BY <1>6, <1>7, <1>8, <1>9

LEMMA NextDocument == DocumentInv /\ [Next]_vars => DocumentInv'
<1> SUFFICES ASSUME DocumentInv, [Next]_vars PROVE Document'
  BY NextFlight DEF DocumentInv, Document
<1> USE ResolverAssumption
<1>1. CASE Tick
  <2> USE <1>1 DEF Tick, shared, locals, DocumentInv, Document, FlightInv
  <2>1. OwnDocument' /\ StoredWithinBounds' /\ FreshResult'
    BY DEF OwnDocument, StoredWithinBounds, FreshResult
  <2>2. SentRecently'
    BY DocumentTypes DEF SentRecently
  <2>3. QED
    BY <2>1, <2>2
<1>2. ASSUME NEW p \in Callers, NEW c \in ClientIDs, BeginResolve(p, c) PROVE Document'
  <2> USE <1>2 DEF BeginResolve, shared, DocumentInv, Document, FlightInv
  <2>1. result[p] = NoResult
    BY DEF TypeInv, Wanted
  <2>2. OwnDocument'
    BY <2>1 DEF OwnDocument, NoResult, TypeInv, TypeOK
  <2>3. SentRecently'
    BY DocumentTypes DEF SentRecently, TypeInv, TypeOK
  <2>4. StoredWithinBounds' /\ FreshResult'
    BY DEF StoredWithinBounds, FreshResult, TypeInv, TypeOK
  <2>5. QED
    BY <2>2, <2>3, <2>4
<1>3. ASSUME NEW p \in Callers, Hit(p) PROVE Document'
  BY <1>3, HitDocument
<1>4. ASSUME NEW p \in Callers,
             \/ Join(p) \/ RateLimited(p) \/ Lead(p) \/ AbandonSlot(p) \/ FetchFailed(p)
             \/ FollowerAnswered(p) \/ FollowerCancelled(p)
      PROVE  Document'
  <2>1. /\ UNCHANGED <<clock, cache, want, start, sentAt>>
        /\ pc[p] # "publish" /\ pc'[p] \in {"wait", "slot", "publish", "done"}
        /\ \A q \in Callers \ {p} : pc'[q] = pc[q] /\ result'[q] = result[q]
    BY <1>4 DEF Join, RateLimited, Lead, AbandonSlot, FetchFailed, ReleaseSlot, Failure,
                FollowerAnswered, FollowerCancelled, Answer, shared,
                DocumentInv, FlightInv, TypeInv, TypeOK
  <2>2. /\ result'[p].err = "none" => pc'[p] # "publish"
        /\ \/ result'[p] = result[p] /\ (pc'[p] = "done" => pc[p] = "woken")
           \/ result'[p].metadata = None /\ result'[p].err # "none"
    BY <1>4 DEF Join, RateLimited, Lead, AbandonSlot, FetchFailed, ReleaseSlot, Failure,
                FollowerAnswered, FollowerCancelled, Answer, shared,
                DocumentInv, FlightInv, TypeInv, TypeOK
  <2>3. QED
    BY <2>1, <2>2, DocumentUnchanged
<1>5. ASSUME NEW p \in Callers, AcquireSlot(p) PROVE Document'
  BY <1>5, AcquireDocument
<1>6. ASSUME NEW p \in Callers, FetchAnswered(p) PROVE Document'
  BY <1>6, AnsweredDocument
<1>7. ASSUME NEW p \in Callers, Publish(p) PROVE Document'
  BY <1>7, PublishDocument
<1>8. ASSUME NEW p \in Callers, Cancel(p) PROVE Document'
  BY <1>8 DEF Cancel, shared, DocumentInv, Document,
              OwnDocument, SentRecently, StoredWithinBounds, FreshResult
<1>9. ASSUME NEW p \in Callers, Return(p) PROVE Document'
  <2> USE <1>9 DEF Return, shared, DocumentInv, Document, FlightInv
  <2>1. OwnDocument'
    BY DEF OwnDocument, NoResult, TypeInv, TypeOK
  <2>2. SentRecently'
    BY DocumentTypes DEF SentRecently, TypeInv, TypeOK
  <2>3. StoredWithinBounds' /\ FreshResult'
    BY DEF StoredWithinBounds, FreshResult, TypeInv, TypeOK
  <2>4. QED
    BY <2>1, <2>2, <2>3
<1>10. CASE UNCHANGED vars
  BY <1>10 DEF vars, shared, locals, DocumentInv, Document,
               OwnDocument, SentRecently, StoredWithinBounds, FreshResult
<1>11. QED
  BY <1>1, <1>2, <1>3, <1>4, <1>5, <1>6, <1>7, <1>8, <1>9, <1>10
  DEF Next, Step, Lookup, Fetch

LEMMA InitDocument == Init => DocumentInv
<1> SUFFICES ASSUME Init PROVE Document
  BY InitFlight DEF DocumentInv, Document
<1>1. QED
  BY ResolverAssumption DEF Init, NoResult, Document,
     OwnDocument, SentRecently, StoredWithinBounds, FreshResult

\* Whatever the origins serve and in whatever order fetches end, callers are
\* only given, and the cache only holds, the documents of the clients asked for,
\* and a caller's document is younger than the maximum lifetime and one fetch.
THEOREM RightDocument == Spec => [](OwnDocument /\ StoredWithinBounds /\ FreshDocument)
<1>1. Spec => []DocumentInv
  BY InitDocument, NextDocument, PTL DEF Spec
<1>2. DocumentInv => OwnDocument /\ StoredWithinBounds /\ FreshDocument
  BY DEF DocumentInv, FreshResult, FreshDocument
<1>3. QED
  BY <1>1, <1>2, PTL

-----------------------------------------------------------------------------
\* Documents are of the past, and failures carry none.
Past ==
  /\ \A p \in Callers : result[p].err # "none" => result[p].metadata = None
  /\ \A p \in Callers : result[p].metadata # None => result[p].metadata.asOf <= clock
  /\ \A c \in ClientIDs : cache[c] # None => cache[c].metadata.asOf <= clock

ReadsInv == DocumentInv /\ Past

LEMMA NextPast == ReadsInv /\ [Next]_vars => ReadsInv'
<1> SUFFICES ASSUME ReadsInv, [Next]_vars PROVE Past'
  BY NextDocument DEF ReadsInv
<1> USE ResolverAssumption DEF ReadsInv, DocumentInv, FlightInv
<1>1. CASE Tick
  BY <1>1, DocumentTypes DEF Tick, shared, locals, Past
<1>2. ASSUME UNCHANGED <<clock, cache>>,
             \A p \in Callers : result'[p] = result[p] \/ result'[p].metadata = None
      PROVE  Past'
  BY <1>2 DEF Past
<1>3. ASSUME NEW p \in Callers, Hit(p) PROVE Past'
  <2>1. /\ UNCHANGED <<clock, cache>> /\ want[p] \in ClientIDs /\ cache[want[p]] # None
        /\ \A q \in Callers \ {p} : result'[q] = result[q]
        /\ result'[p] = [err |-> "none", metadata |-> cache[want[p]].metadata]
    BY <1>3 DEF Hit, Answer, Cached, shared, TypeInv, TypeOK, Wanted
  <2>2. QED
    BY <2>1 DEF Past
<1>4. ASSUME NEW p \in Callers, FetchAnswered(p) PROVE Past'
  <2>1. PICK named \in ClientIDs : result' = [result EXCEPT ![p] = Fetched(p, named)]
    BY <1>4 DEF FetchAnswered
  <2>2. /\ UNCHANGED <<clock, cache>>
        /\ \A q \in Callers \ {p} : result'[q] = result[q]
        /\ result'[p] = Fetched(p, named) /\ pc[p] = "fetch"
    BY <1>4, <2>1 DEF FetchAnswered, ReleaseSlot, TypeInv, TypeOK
  <2>3. sentAt[p] <= clock
    BY <2>2 DEF SentRecently, TypeInv, Wanted, Time
  <2>4. /\ Fetched(p, named).metadata # None => Fetched(p, named).metadata.asOf = sentAt[p]
        /\ Fetched(p, named).err # "none" => Fetched(p, named).metadata = None
    BY DEF Fetched, Failure
  <2>5. QED
    BY <2>2, <2>3, <2>4 DEF Past
<1>5. ASSUME NEW p \in Callers, Publish(p) PROVE Past'
  <2>1. /\ pc[p] = "publish" /\ StoreResult(p) /\ UNCHANGED clock
        /\ \A q \in Callers : result'[q] = result[p] \/ result'[q] = result[q]
    BY <1>5 DEF Publish, TypeInv, TypeOK
  <2>2. ASSUME NEW c \in ClientIDs, cache'[c] # None
        PROVE  cache'[c].metadata.asOf <= clock
    <3>1. \/ cache'[c] = cache[c]
          \/ Cacheable(p) /\ cache'[c].metadata = result[p].metadata
      <4>1. \/ cache'[c] = None
            \/ cache'[c] = cache[c]
            \/ /\ c = want[p] /\ Cacheable(p)
               /\ cache'[c] = [metadata |-> result[p].metadata,
                               expiresAt |-> clock + cacheTTL[p]]
        BY <2>1, StoreKeeps
      <4>2. QED
        BY <2>2, <4>1
    <3>2. Cacheable(p) => result[p].metadata # None
      BY <2>1 DEF Cacheable, TypeInv, Wanted, Documents
    <3>3. QED
      BY <2>2, <3>1, <3>2 DEF Past
  <2>3. QED
    BY <2>1, <2>2 DEF Past
<1>6. ASSUME NEW p \in Callers, Step(p), ~Hit(p), ~FetchAnswered(p), ~Publish(p)
      PROVE  Past'
  <2>1. UNCHANGED <<clock, cache>>
    BY <1>6 DEF Step, BeginResolve, Cancel, Lookup, Join, RateLimited, Lead, AcquireSlot,
                AbandonSlot, Fetch, FetchFailed, ReleaseSlot, FollowerAnswered,
                FollowerCancelled, Return, shared
  <2>2. \A q \in Callers : result'[q] = result[q] \/ result'[q].metadata = None
    BY <1>6 DEF Step, BeginResolve, Cancel, Lookup, Join, RateLimited, Lead, AcquireSlot,
                AbandonSlot, Fetch, FetchFailed, ReleaseSlot, FollowerAnswered,
                FollowerCancelled, Return, Answer, Failure, NoResult, TypeInv, TypeOK
  <2>3. QED
    BY <1>2, <2>1, <2>2
<1>7. CASE UNCHANGED vars
  BY <1>7 DEF vars, shared, locals, Past
<1>8. QED
  BY <1>1, <1>3, <1>4, <1>5, <1>6, <1>7 DEF Next

LEMMA InitReads == Init => ReadsInv
<1> SUFFICES ASSUME Init PROVE Past
  BY InitDocument DEF ReadsInv
<1>1. QED
  BY DEF Init, NoResult, Past

-----------------------------------------------------------------------------
\* What a caller is told when Resolve returns is an answer DocumentReads allows.
AnswersAllowed ==
  ReadsInv => \A p \in Callers : pc[p] = "done" =>
    result[p] \in Reads!Failures \cup Reads!Successes(Asked[p])

LEMMA AnswerAllowed == AnswersAllowed
<1> SUFFICES ASSUME ReadsInv, NEW p \in Callers, pc[p] = "done"
             PROVE  result[p] \in Reads!Failures \cup Reads!Successes(Asked[p])
  BY DEF AnswersAllowed
<1> USE ResolverAssumption
    DEF ReadsInv, DocumentInv, FlightInv, Reads!Failures, Reads!Successes,
        Reads!Acceptable, Reads!Served, Reads!Moments
<1>1. result[p] \in Results /\ want[p] \in ClientIDs /\ start[p] \in Time
  BY DEF TypeInv, TypeOK, Wanted
<1>2. CASE result[p].err = "none"
  <2>1. /\ result[p].metadata \in Documents /\ result[p].metadata # None
        /\ result[p].metadata.client = want[p]
        /\ result[p].metadata.asOf <= clock
        /\ start[p] - result[p].metadata.asOf < FetchTimeout + MaximumCacheTTL
    BY <1>2 DEF TypeInv, Wanted, OwnDocument, Past, FreshResult
  <2>2. Asked[p] = [client |-> want[p], since |-> start[p]]
    BY DEF Asked
  <2>3. result[p].metadata \in Reads!Acceptable(Asked[p])
    BY <2>1, <2>2 DEF Documents, Time
  <2>4. result[p] = [err |-> "none", metadata |-> result[p].metadata]
    BY <1>1, <1>2 DEF Results
  <2>5. QED
    BY <2>3, <2>4
<1>3. CASE result[p].err # "none"
  <2>1. result[p].metadata = None
    BY <1>3 DEF Past
  <2>2. QED
    BY <1>1, <1>3, <2>1 DEF Results, Errors
<1>4. QED
  BY <1>2, <1>3

\* Steps inside Resolve that answer nobody are invisible.
LEMMA InsideInvisible ==
  ASSUME NEW p \in Callers, UNCHANGED <<clock, want, start>>,
         pc[p] \notin {"idle", "done"}, pc'[p] \notin {"idle", "done"},
         \A q \in Callers \ {p} : pc'[q] = pc[q] /\ result'[q] = result[q]
  PROVE  UNCHANGED Reads!readVars
<1>1. Asked' = Asked
  BY DEF Asked
<1>2. Given' = Given
  BY DEF Given
<1>3. QED
  BY <1>1, <1>2 DEF Reads!readVars

\* Steps that end a call are replies.
LEMMA EndReplies ==
  ASSUME ReadsInv, ReadsInv', NEW p \in Callers, UNCHANGED <<clock, want, start>>,
         pc[p] \notin {"idle", "done"}, pc'[p] = "done",
         \A q \in Callers \ {p} :
           /\ pc'[q] = "idle" <=> pc[q] = "idle"
           /\ pc'[q] = "done" <=> pc[q] = "done"
           /\ pc[q] = "done" => result'[q] = result[q]
  PROVE  Reads!Reply(p)
<1> USE ResolverAssumption, ReadsAssumption DEF ReadsInv, DocumentInv, FlightInv
<1>1. Asked' = Asked
  BY DEF Asked
<1>2. Asked[p] # None /\ Given[p] = None
  BY DEF Asked, Given, TypeInv, TypeOK
<1>3. Given' = [Given EXCEPT ![p] = result'[p]]
  BY DEF Given
<1>4. result'[p] \in Reads!Failures \cup Reads!Successes(Asked[p])
  <2>1. AnswersAllowed'
    BY AnswerAllowed, PTL
  <2>2. QED
    BY <1>1, <2>1 DEF AnswersAllowed, Reads!Failures, Reads!Successes, Reads!Acceptable,
                      Reads!Served, Reads!Moments
<1>5. QED
  BY <1>1, <1>2, <1>3, <1>4 DEF Reads!Reply

LEMMA StepSimulates ==
  ASSUME ReadsInv, ReadsInv', [Next]_vars
  PROVE  [Reads!Next]_Reads!readVars
<1> USE ResolverAssumption, ReadsAssumption DEF ReadsInv, DocumentInv, FlightInv
<1>1. CASE UNCHANGED vars
  BY <1>1 DEF vars, shared, locals, Asked, Given, Reads!readVars
<1>2. CASE Tick
  <2>1. Asked' = Asked /\ Given' = Given
    BY <1>2 DEF Tick, shared, locals, Asked, Given
  <2>2. Reads!Tick
    BY <1>2, <2>1 DEF Tick, Reads!Tick
  <2>3. QED
    BY <2>2 DEF Reads!Next
<1>3. ASSUME NEW p \in Callers, NEW c \in ClientIDs, BeginResolve(p, c)
      PROVE  [Reads!Next]_Reads!readVars
  <2>1. Asked[p] = None /\ Asked' = [Asked EXCEPT ![p] = [client |-> c, since |-> clock]]
    BY <1>3 DEF BeginResolve, Asked, TypeInv, TypeOK
  <2>2. Given' = Given /\ clock' = clock
    BY <1>3 DEF BeginResolve, Given, TypeInv, TypeOK
  <2>3. Reads!Ask(p, c)
    BY <2>1, <2>2 DEF Reads!Ask
  <2>4. QED
    BY <2>3 DEF Reads!Next
<1>4. ASSUME NEW p \in Callers,
             Join(p) \/ Lead(p) \/ AcquireSlot(p) \/ AbandonSlot(p) \/ Fetch(p)
      PROVE  [Reads!Next]_Reads!readVars
  <2>1. /\ UNCHANGED <<clock, want, start>>
        /\ pc[p] \notin {"idle", "done"} /\ pc'[p] \notin {"idle", "done"}
        /\ \A q \in Callers \ {p} : pc'[q] = pc[q] /\ result'[q] = result[q]
    BY <1>4 DEF Join, Lead, AcquireSlot, AbandonSlot, Fetch, FetchAnswered, FetchFailed,
                ReleaseSlot, shared, TypeInv, TypeOK
  <2>2. QED
    BY <2>1, InsideInvisible
<1>5. ASSUME NEW p \in Callers,
             Hit(p) \/ RateLimited(p) \/ FollowerAnswered(p) \/ FollowerCancelled(p)
      PROVE  [Reads!Next]_Reads!readVars
  <2>1. /\ UNCHANGED <<clock, want, start>>
        /\ pc[p] \notin {"idle", "done"} /\ pc'[p] = "done"
        /\ \A q \in Callers \ {p} : pc'[q] = pc[q] /\ result'[q] = result[q]
    BY <1>5 DEF Hit, RateLimited, FollowerAnswered, FollowerCancelled, Answer, shared,
                TypeInv, TypeOK
  <2>2. Reads!Reply(p)
    BY <2>1, EndReplies
  <2>3. QED
    BY <2>2 DEF Reads!Next
<1>6. ASSUME NEW p \in Callers, Publish(p)
      PROVE  [Reads!Next]_Reads!readVars
  <2>1. /\ UNCHANGED <<clock, want, start>>
        /\ pc[p] \notin {"idle", "done"} /\ pc'[p] = "done"
        /\ \A q \in Callers \ {p} :
             /\ pc'[q] = "idle" <=> pc[q] = "idle"
             /\ pc'[q] = "done" <=> pc[q] = "done"
             /\ pc[q] = "done" => result'[q] = result[q]
    BY <1>6 DEF Publish, Followers, TypeInv, TypeOK
  <2>2. Reads!Reply(p)
    BY <2>1, EndReplies
  <2>3. QED
    BY <2>2 DEF Reads!Next
<1>7. ASSUME NEW p \in Callers, Cancel(p)
      PROVE  [Reads!Next]_Reads!readVars
  BY <1>7 DEF Cancel, shared, Asked, Given, Reads!readVars
<1>8. ASSUME NEW p \in Callers, Return(p)
      PROVE  [Reads!Next]_Reads!readVars
  <2>1. Given[p] # None
    BY <1>8 DEF Return, Given, TypeInv, TypeOK
  <2>2. Asked' = [Asked EXCEPT ![p] = None]
    BY <1>8 DEF Return, Asked, TypeInv, TypeOK
  <2>3. Given' = [Given EXCEPT ![p] = None]
    BY <1>8 DEF Return, Given, TypeInv, TypeOK
  <2>4. clock' = clock
    BY <1>8 DEF Return
  <2>5. Reads!Leave(p)
    BY <2>1, <2>2, <2>3, <2>4 DEF Reads!Leave
  <2>6. QED
    BY <2>5 DEF Reads!Next
<1>9. QED
  BY <1>1, <1>2, <1>3, <1>4, <1>5, <1>6, <1>7, <1>8 DEF Next, Step, Lookup

\* The resolver keeps the promise of DocumentReads, for any number of callers,
\* clients and hosts: sharing a fetch, serving from the cache and waiting for a
\* slot never show in what a caller is told.
THEOREM ResolverImplements == Spec => ImplementsReads
<1>1. Init => Reads!Init
  BY DEF Init, Asked, Given, Reads!Init
<1>2. Spec => []ReadsInv
  BY InitReads, NextPast, PTL DEF Spec
<1>3. ReadsInv /\ ReadsInv' /\ [Next]_vars => [Reads!Next]_Reads!readVars
  BY StepSimulates
<1>4. QED
  BY <1>1, <1>2, <1>3, PTL DEF Spec, ImplementsReads, Reads!Spec

-----------------------------------------------------------------------------
\* No call is given an older document than a call before it.

HistoryTypes ==
  /\ seen \in [ClientIDs -> Int]
  /\ floor \in [Callers -> Int]
  /\ admitted \in [Hosts -> Int]

\* An entry older than a document somebody was given has expired, and so has one
\* older than what a caller must not fall behind, for the clock it has read.
SeenSupersedes ==
  \A c \in ClientIDs : cache[c] # None /\ seen[c] > cache[c].metadata.asOf =>
    cache[c].expiresAt <= clock

Entry(p) == cache[want[p]]

FloorSupersedes ==
  \A p \in Callers :
    pc[p] # "idle" /\ Entry(p) # None /\ floor[p] > Entry(p).metadata.asOf =>
      Entry(p).expiresAt <= start[p]

\* A newer document is fetched only for a caller that found the entry expired.
FetchSupersedes ==
  \A p \in Callers : pc[p] # "idle" /\ Entry(p) # None =>
    /\ pc[p] \in Leading => Entry(p).expiresAt <= start[p]
    /\ result[p].metadata # None /\ result[p].metadata.asOf > Entry(p).metadata.asOf =>
         Entry(p).expiresAt <= clock

Underway(p) == pc[p] = "fetch" \/ (pc[p] = "publish" /\ result[p].err = "none")

\* What a leader is about to publish was sent for after everything else that is
\* known of its client.
NewestUnderway ==
  \A p \in Callers : Underway(p) =>
    /\ seen[want[p]] <= sentAt[p]
    /\ Entry(p) # None => Entry(p).metadata.asOf <= sentAt[p]
    /\ \A q \in Callers : pc[q] # "idle" /\ want[q] = want[p] =>
         /\ floor[q] <= sentAt[p]
         /\ result[q].metadata # None => result[q].metadata.asOf <= sentAt[p]

SeenInPast ==
  /\ \A c \in ClientIDs : seen[c] <= clock
  /\ \A p \in Callers : floor[p] <= clock

NotOutdated ==
  \A p \in Callers : pc[p] \in {"woken", "done"} /\ result[p].err = "none" =>
    result[p].metadata.asOf >= floor[p]

Order ==
  /\ HistoryTypes
  /\ SeenSupersedes
  /\ FloorSupersedes
  /\ FetchSupersedes
  /\ NewestUnderway
  /\ SeenInPast
  /\ NotOutdated

OrderInv == ReadsInv /\ Order

LEMMA OrderTypes ==
  ASSUME OrderInv
  PROVE  /\ clock \in Nat
         /\ \A c \in ClientIDs :
              /\ seen[c] \in Int
              /\ cache[c] # None => cache[c].metadata.asOf \in Nat /\ cache[c].expiresAt \in Nat
         /\ \A p \in Callers :
              /\ start[p] \in Nat /\ start[p] <= clock /\ floor[p] \in Int
              /\ pc[p] # "idle" => want[p] \in ClientIDs
              /\ result[p].metadata # None =>
                   result[p].metadata.asOf \in Nat /\ result[p].metadata.asOf <= clock
BY DocumentTypes
DEF OrderInv, Order, ReadsInv, DocumentInv, FlightInv, TypeInv, Wanted, SentRecently,
    Past, HistoryTypes

LEMMA UnderwayLeads ==
  ASSUME OrderInv, NEW p \in Callers, Underway(p)
  PROVE  /\ pc[p] \in Leading /\ pc[p] # "idle" /\ want[p] \in ClientIDs
         /\ inflight[want[p]] = p
         /\ sentAt[p] \in Nat
         /\ pc[p] = "publish" => result[p].metadata # None /\ result[p].metadata.asOf = sentAt[p]
<1>1. pc[p] \in Leading /\ pc[p] # "idle"
  BY DEF Underway, Leading
<1>2. want[p] \in ClientIDs /\ inflight[want[p]] = p
  BY <1>1 DEF OrderInv, ReadsInv, DocumentInv, FlightInv, TypeInv, Wanted, Flight, SingleFlight
<1>3. pc[p] = "fetch" => sentAt[p] \in Nat
  BY DEF OrderInv, ReadsInv, DocumentInv, FlightInv, TypeInv, Wanted, Time
<1>4. pc[p] = "publish" =>
        /\ sentAt[p] \in Nat
        /\ result[p].metadata \in Documents /\ result[p].metadata.asOf = sentAt[p]
  BY DocumentTypes
  DEF Underway, OrderInv, ReadsInv, DocumentInv, FlightInv, TypeInv, Wanted, SentRecently
<1>5. QED
  BY <1>1, <1>2, <1>3, <1>4, ResolverAssumption DEF Underway

\* Steps that give nobody a document and ask for none.
LEMMA OrderUnchanged ==
  ASSUME OrderInv, NEW p \in Callers, UNCHANGED <<clock, cache, want, start, sentAt, history>>,
         \A q \in Callers \ {p} : pc'[q] = pc[q] /\ result'[q] = result[q],
         pc[p] # "idle",
         pc'[p] \in Leading => pc[p] \in Leading,
         Underway(p)' => Underway(p),
         pc'[p] \in {"woken", "done"} /\ result'[p].err = "none" => pc[p] \in {"woken", "done"},
         result'[p] = result[p] \/ (result'[p].metadata = None /\ result'[p].err # "none")
  PROVE  Order'
<1>1. HistoryTypes' /\ SeenSupersedes' /\ SeenInPast'
  BY DEF OrderInv, Order, HistoryTypes, SeenSupersedes, SeenInPast, history
<1>2. FloorSupersedes'
  BY DEF OrderInv, Order, FloorSupersedes, Entry, history
<1>3. FetchSupersedes'
  BY DEF OrderInv, Order, FetchSupersedes, Entry
<1>4. NewestUnderway'
  <2>1. \A q \in Callers : Underway(q)' => Underway(q)
    BY DEF Underway
  <2>2. QED
    BY <2>1 DEF OrderInv, Order, NewestUnderway, Entry, history
<1>5. NotOutdated'
  BY DEF OrderInv, Order, NotOutdated, history
<1>6. QED
  BY <1>1, <1>2, <1>3, <1>4, <1>5 DEF Order

LEMMA QuietOrder ==
  ASSUME OrderInv, NEW p \in Callers, UNCHANGED history,
         \/ Join(p) \/ RateLimited(p) \/ Cancel(p) \/ AbandonSlot(p) \/ FetchFailed(p)
         \/ FollowerAnswered(p) \/ FollowerCancelled(p)
  PROVE  Order'
<1> USE DEF OrderInv, ReadsInv, DocumentInv, FlightInv, TypeInv, TypeOK
<1>1. CASE Join(p) \/ Cancel(p) \/ FollowerAnswered(p)
  <2>1. /\ UNCHANGED <<clock, cache, want, start, sentAt, result>>
        /\ \A q \in Callers \ {p} : pc'[q] = pc[q]
        /\ pc[p] # "idle"
        /\ pc'[p] \in Leading => pc[p] \in Leading
        /\ Underway(p)' => Underway(p)
        /\ pc'[p] \in {"woken", "done"} => pc[p] \in {"woken", "done"}
    BY <1>1 DEF Join, Cancel, FollowerAnswered, shared, Leading, Underway
  <2>2. QED
    BY <2>1, OrderUnchanged
<1>2. CASE RateLimited(p) \/ AbandonSlot(p) \/ FetchFailed(p) \/ FollowerCancelled(p)
  <2>1. /\ UNCHANGED <<clock, cache, want, start, sentAt>>
        /\ \A q \in Callers \ {p} : pc'[q] = pc[q] /\ result'[q] = result[q]
        /\ pc[p] # "idle"
        /\ pc'[p] \in Leading => pc[p] \in Leading
        /\ result'[p].metadata = None /\ result'[p].err # "none"
        /\ pc'[p] # "fetch"
    BY <1>2
    DEF RateLimited, AbandonSlot, FetchFailed, ReleaseSlot, FollowerCancelled, Answer, Failure,
        shared, Leading
  <2>2. ~Underway(p)'
    BY <2>1 DEF Underway
  <2>3. QED
    BY <2>1, <2>2, OrderUnchanged
<1>3. QED
  BY <1>1, <1>2

LEMMA BeginOrder ==
  ASSUME OrderInv, NEW p \in Callers, BeginSeen(p)
  PROVE  Order'
<1> USE DEF OrderInv
<1>1. PICK c \in ClientIDs : BeginResolve(p, c) /\ floor' = [floor EXCEPT ![p] = seen[c]]
  BY DEF BeginSeen
<1>2. /\ UNCHANGED <<clock, cache, sentAt, result, seen, admitted>>
      /\ pc[p] = "idle" /\ pc'[p] = "lookup" /\ want'[p] = c /\ start'[p] = clock
      /\ floor'[p] = seen[c]
      /\ \A q \in Callers \ {p} : /\ pc'[q] = pc[q] /\ want'[q] = want[q]
                                  /\ start'[q] = start[q] /\ floor'[q] = floor[q]
      /\ result[p].metadata = None
  BY <1>1 DEF BeginSeen, BeginResolve, shared, ReadsInv, DocumentInv, FlightInv, TypeInv,
              TypeOK, Wanted, NoResult, Order, HistoryTypes
<1>3. HistoryTypes'
  BY <1>1, <1>2 DEF Order, HistoryTypes
<1>4. SeenSupersedes' /\ SeenInPast'
  BY <1>2 DEF Order, SeenSupersedes, SeenInPast
<1>5. FloorSupersedes'
  BY <1>2 DEF Order, SeenSupersedes, FloorSupersedes, Entry
<1>6. FetchSupersedes'
  BY <1>2 DEF Order, FetchSupersedes, Entry, Leading
<1>7. NewestUnderway'
  <2>1. \A q \in Callers : Underway(q)' => q # p /\ Underway(q)
    BY <1>2 DEF Underway
  <2>2. QED
    BY <1>2, <2>1 DEF Order, NewestUnderway, Entry
<1>8. NotOutdated'
  BY <1>2 DEF Order, NotOutdated
<1>9. QED
  BY <1>3, <1>4, <1>5, <1>6, <1>7, <1>8 DEF Order

LEMMA ReturnOrder ==
  ASSUME OrderInv, NEW p \in Callers, ReturnSeen(p)
  PROVE  Order'
<1> USE DEF OrderInv
<1>1. /\ UNCHANGED <<clock, cache, admitted>>
      /\ pc[p] = "done" /\ pc'[p] = "idle" /\ floor'[p] = -1
      /\ result'[p].metadata = None /\ result'[p].err = "none"
      /\ \A q \in Callers \ {p} : /\ pc'[q] = pc[q] /\ want'[q] = want[q]
                                  /\ start'[q] = start[q] /\ floor'[q] = floor[q]
                                  /\ sentAt'[q] = sentAt[q] /\ result'[q] = result[q]
      /\ \A c \in ClientIDs \ {want[p]} : seen'[c] = seen[c]
      /\ want[p] \in ClientIDs /\ seen'[want[p]] = Newest(p, seen[want[p]])
  BY DEF ReturnSeen, Return, shared, ReadsInv, DocumentInv, FlightInv, TypeInv, TypeOK,
         Wanted, NoResult, Order, HistoryTypes
<1>2. result[p].err = "none" => result[p].metadata # None
  BY <1>1, ResolverAssumption DEF ReadsInv, DocumentInv, FlightInv, TypeInv, Wanted
<1>3. \/ seen'[want[p]] = seen[want[p]]
      \/ result[p].metadata # None /\ seen'[want[p]] = result[p].metadata.asOf
  BY <1>1, <1>2 DEF Newest
<1>4. HistoryTypes'
  BY <1>1, <1>3, OrderTypes DEF ReturnSeen, Order, HistoryTypes
<1>5. SeenSupersedes'
  BY <1>1, <1>3 DEF Order, SeenSupersedes, FetchSupersedes, Entry
<1>6. SeenInPast'
  BY <1>1, <1>3, OrderTypes DEF Order, SeenInPast
<1>7. FloorSupersedes' /\ FetchSupersedes'
  BY <1>1 DEF Order, FloorSupersedes, FetchSupersedes, Entry, Leading
<1>8. NewestUnderway'
  <2>1. \A q \in Callers : Underway(q)' => q # p /\ Underway(q)
    BY <1>1 DEF Underway
  <2>2. \A q \in Callers : Underway(q) => seen'[want[q]] <= sentAt[q]
    <3>1. ASSUME NEW q \in Callers, Underway(q) PROVE seen'[want[q]] <= sentAt[q]
      <4>1. want[q] \in ClientIDs /\ seen[want[q]] <= sentAt[q]
        BY <3>1, UnderwayLeads DEF Order, NewestUnderway
      <4>2. want[q] = want[p] /\ result[p].metadata # None => result[p].metadata.asOf <= sentAt[q]
        BY <1>1, <3>1 DEF Order, NewestUnderway
      <4>3. QED
        BY <1>1, <1>3, <4>1, <4>2
    <3>2. QED
      BY <3>1
  <2>3. QED
    BY <1>1, <2>1, <2>2 DEF Order, NewestUnderway, Entry
<1>9. NotOutdated'
  BY <1>1 DEF Order, NotOutdated
<1>10. QED
  BY <1>4, <1>5, <1>6, <1>7, <1>8, <1>9 DEF Order

LEMMA HitOrder ==
  ASSUME OrderInv, NEW p \in Callers, Hit(p), UNCHANGED history
  PROVE  Order'
<1> USE DEF OrderInv, history
<1>1. /\ UNCHANGED <<clock, cache, want, start, sentAt, history>>
      /\ pc[p] = "lookup" /\ pc'[p] = "done"
      /\ Entry(p) # None /\ start[p] < Entry(p).expiresAt
      /\ result'[p] = [err |-> "none", metadata |-> Entry(p).metadata]
      /\ \A q \in Callers \ {p} : pc'[q] = pc[q] /\ result'[q] = result[q]
  BY DEF Hit, Answer, Cached, Entry, shared, ReadsInv, DocumentInv, FlightInv, TypeInv, TypeOK
<1>2. want[p] \in ClientIDs /\ Entry(p).metadata.asOf \in Nat /\ Entry(p).expiresAt \in Nat
      /\ start[p] \in Nat /\ floor[p] \in Int
  BY <1>1, OrderTypes DEF Entry
<1>3. floor[p] <= Entry(p).metadata.asOf
  BY <1>1, <1>2 DEF Order, FloorSupersedes
<1>4. HistoryTypes' /\ SeenSupersedes' /\ SeenInPast'
  BY <1>1 DEF Order, HistoryTypes, SeenSupersedes, SeenInPast
<1>5. FloorSupersedes'
  BY <1>1 DEF Order, FloorSupersedes, Entry
<1>6. FetchSupersedes'
  BY <1>1, <1>2 DEF Order, FetchSupersedes, Entry, Leading
<1>7. NewestUnderway'
  <2>1. \A q \in Callers : Underway(q)' => q # p /\ Underway(q)
    BY <1>1 DEF Underway
  <2>2. QED
    BY <1>1, <2>1 DEF Order, NewestUnderway, Entry
<1>8. NotOutdated'
  BY <1>1, <1>2, <1>3 DEF Order, NotOutdated
<1>9. QED
  BY <1>4, <1>5, <1>6, <1>7, <1>8 DEF Order

LEMMA LeadOrder ==
  ASSUME OrderInv, NEW p \in Callers, LeadSeen(p)
  PROVE  Order'
<1> USE DEF OrderInv
<1>1. /\ UNCHANGED <<clock, cache, want, start, sentAt, result, seen, floor>>
      /\ pc[p] = "lookup" /\ pc'[p] = "slot" /\ want[p] \in ClientIDs
      /\ ~Cached(want[p], start[p])
      /\ \A q \in Callers \ {p} : pc'[q] = pc[q]
      /\ admitted' = [admitted EXCEPT ![HostOf[want[p]]] = start[p]]
  BY DEF LeadSeen, Lead, ReadsInv, DocumentInv, FlightInv, TypeInv, TypeOK, Wanted
<1>2. HistoryTypes'
  BY <1>1, OrderTypes, ResolverAssumption DEF Order, HistoryTypes
<1>3. SeenSupersedes' /\ SeenInPast'
  BY <1>1 DEF Order, SeenSupersedes, SeenInPast
<1>4. FloorSupersedes' /\ NotOutdated'
  BY <1>1 DEF Order, FloorSupersedes, Entry, NotOutdated
<1>5. FetchSupersedes'
  BY <1>1, OrderTypes DEF Order, FetchSupersedes, Entry, Cached
<1>6. NewestUnderway'
  <2>1. \A q \in Callers : Underway(q)' => q # p /\ Underway(q)
    BY <1>1 DEF Underway
  <2>2. QED
    BY <1>1, <2>1 DEF Order, NewestUnderway, Entry
<1>7. QED
  BY <1>2, <1>3, <1>4, <1>5, <1>6 DEF Order

\* Whatever is known when a request is sent is of the past.
LEMMA AcquireOrder ==
  ASSUME OrderInv, NEW p \in Callers, AcquireSlot(p), UNCHANGED history
  PROVE  Order'
<1> USE DEF OrderInv, history
<1>1. /\ UNCHANGED <<clock, cache, want, start, result, history>>
      /\ pc[p] = "slot" /\ pc'[p] = "fetch" /\ sentAt'[p] = clock /\ want[p] \in ClientIDs
      /\ \A q \in Callers \ {p} : pc'[q] = pc[q] /\ sentAt'[q] = sentAt[q]
  BY DEF AcquireSlot, ReadsInv, DocumentInv, FlightInv, TypeInv, TypeOK, Wanted
<1>2. HistoryTypes' /\ SeenSupersedes' /\ SeenInPast'
  BY <1>1 DEF Order, HistoryTypes, SeenSupersedes, SeenInPast
<1>3. FloorSupersedes' /\ FetchSupersedes' /\ NotOutdated'
  BY <1>1 DEF Order, FloorSupersedes, FetchSupersedes, Entry, NotOutdated, Leading
<1>4. NewestUnderway'
  <2>1. /\ seen[want[p]] <= clock
        /\ Entry(p) # None => Entry(p).metadata.asOf <= clock
        /\ \A q \in Callers : /\ floor[q] <= clock
                              /\ result[q].metadata # None => result[q].metadata.asOf <= clock
    BY <1>1 DEF Order, SeenInPast, ReadsInv, Past, Entry
  <2>2. \A q \in Callers \ {p} : Underway(q)' => Underway(q)
    BY <1>1 DEF Underway
  <2>3. QED
    BY <1>1, <2>1, <2>2 DEF Order, NewestUnderway, Entry
<1>5. QED
  BY <1>2, <1>3, <1>4 DEF Order

LEMMA AnsweredOrder ==
  ASSUME OrderInv, NEW p \in Callers, FetchAnswered(p), UNCHANGED history
  PROVE  Order'
<1> USE DEF OrderInv, history
<1>1. PICK named \in ClientIDs : result' = [result EXCEPT ![p] = Fetched(p, named)]
  BY DEF FetchAnswered
<1>2. /\ UNCHANGED <<clock, cache, want, start, sentAt, history>>
      /\ pc[p] = "fetch" /\ pc'[p] = "publish"
      /\ result'[p] = Fetched(p, named)
      /\ \A q \in Callers \ {p} : pc'[q] = pc[q] /\ result'[q] = result[q]
  BY <1>1 DEF FetchAnswered, ReleaseSlot, ReadsInv, DocumentInv, FlightInv, TypeInv, TypeOK
<1>3. /\ Underway(p) /\ want[p] \in ClientIDs /\ sentAt[p] \in Nat
      /\ inflight[want[p]] = p /\ pc[p] \in Leading
  BY <1>2, UnderwayLeads DEF Underway
<1>4. result'[p].metadata # None => result'[p].metadata.asOf = sentAt[p]
  BY <1>2 DEF Fetched, Failure
<1>5. HistoryTypes' /\ SeenSupersedes' /\ SeenInPast'
  BY <1>2 DEF Order, HistoryTypes, SeenSupersedes, SeenInPast
<1>6. FloorSupersedes' /\ NotOutdated'
  BY <1>2 DEF Order, FloorSupersedes, Entry, NotOutdated
<1>7. FetchSupersedes'
  <2>1. Entry(p) # None => Entry(p).expiresAt <= start[p] /\ Entry(p).expiresAt <= clock
    <3>1. Entry(p) # None => /\ Entry(p).expiresAt <= start[p] /\ Entry(p).expiresAt \in Nat
                             /\ start[p] \in Nat /\ clock \in Nat /\ start[p] <= clock
      BY <1>2, <1>3, OrderTypes DEF Order, FetchSupersedes, Entry
    <3>2. QED
      BY <3>1
  <2>2. QED
    BY <1>2, <2>1 DEF Order, FetchSupersedes, Entry
<1>8. NewestUnderway'
  <2>1. \A q \in Callers : Underway(q)' => Underway(q)
    BY <1>2, <1>3 DEF Underway
  <2>2. \A q \in Callers : Underway(q) /\ want[q] = want[p] => q = p
    BY <1>3, UnderwayLeads
  <2>3. ASSUME NEW q \in Callers, Underway(q)'
        PROVE  /\ seen'[want'[q]] <= sentAt'[q]
               /\ Entry(q)' # None => Entry(q)'.metadata.asOf <= sentAt'[q]
               /\ \A r \in Callers : pc'[r] # "idle" /\ want'[r] = want'[q] =>
                    /\ floor'[r] <= sentAt'[q]
                    /\ result'[r].metadata # None => result'[r].metadata.asOf <= sentAt'[q]
    <3>1. /\ seen[want[q]] <= sentAt[q]
          /\ Entry(q) # None => Entry(q).metadata.asOf <= sentAt[q]
      BY <2>1, <2>3 DEF Order, NewestUnderway
    <3>2. ASSUME NEW r \in Callers, pc'[r] # "idle", want'[r] = want'[q]
          PROVE  /\ floor'[r] <= sentAt'[q]
                 /\ result'[r].metadata # None => result'[r].metadata.asOf <= sentAt'[q]
      <4>1. pc[r] # "idle" /\ want[r] = want[q] /\ Underway(q)
        BY <1>2, <2>1, <2>3, <3>2
      <4>2. CASE r = p
        BY <1>2, <1>3, <1>4, <2>2, <4>1, <4>2 DEF Order, NewestUnderway
      <4>3. CASE r # p
        BY <1>2, <4>1, <4>3 DEF Order, NewestUnderway
      <4>4. QED
        BY <4>2, <4>3
    <3>3. QED
      BY <1>2, <3>1, <3>2 DEF Entry
  <2>4. QED
    BY <2>3 DEF NewestUnderway
<1>9. QED
  BY <1>5, <1>6, <1>7, <1>8 DEF Order

\* The entry a leader writes is the newest document of its client that anybody
\* has been given or asks for, and its followers are given the same one.
LEMMA PublishOrder ==
  ASSUME OrderInv, NEW p \in Callers, Publish(p), UNCHANGED history
  PROVE  Order'
<1> USE DEF OrderInv, history
<1>1. /\ UNCHANGED <<clock, want, start, history>>
      /\ pc[p] = "publish" /\ StoreResult(p)
      /\ \A q \in Callers : /\ pc'[q] = IF q = p THEN "done"
                                        ELSE IF q \in Followers(p) THEN "woken" ELSE pc[q]
                            /\ result'[q] = IF q \in Followers(p) THEN result[p]
                                                                  ELSE result[q]
                            /\ sentAt'[q] = IF q = p THEN None ELSE sentAt[q]
  BY DEF Publish, ReadsInv, DocumentInv, FlightInv, TypeInv, TypeOK
<1>2. /\ want[p] \in ClientIDs /\ inflight[want[p]] = p /\ pc[p] \in Leading
  BY <1>1 DEF ReadsInv, DocumentInv, FlightInv, TypeInv, Wanted, Leading, Flight, SingleFlight
<1>3. \A f \in Followers(p) : pc[f] = "wait" /\ want[f] = want[p]
  BY <1>1, <1>2, ResolverAssumption
  DEF Followers, ReadsInv, DocumentInv, FlightInv, TypeInv, Wanted, Flight, SingleFlight,
      NobodyWaitsInVain
<1>4. result[p].err = "none" =>
        /\ Underway(p) /\ result[p].metadata # None /\ sentAt[p] \in Nat
        /\ result[p].metadata.asOf = sentAt[p]
  BY <1>1, UnderwayLeads DEF Underway
<1>5. result[p].err # "none" => result[p].metadata = None
  BY DEF ReadsInv, Past
<1>6. \A q \in Callers : pc'[q] \in Leading => pc[q] \in Leading /\ q # p /\ want[q] # want[p]
  BY <1>1, <1>2 DEF ReadsInv, DocumentInv, FlightInv, Flight, SingleFlight, Leading
<1>7. \A c \in ClientIDs :
        \/ cache'[c] = None
        \/ cache'[c] = cache[c]
        \/ /\ c = want[p] /\ Cacheable(p) /\ cache'[c].metadata = result[p].metadata
  <2>1. \A c \in ClientIDs :
          \/ cache'[c] = None
          \/ cache'[c] = cache[c]
          \/ /\ c = want[p] /\ Cacheable(p)
             /\ cache'[c] = [metadata |-> result[p].metadata,
                             expiresAt |-> clock + cacheTTL[p]]
    BY <1>1, StoreKeeps DEF ReadsInv, DocumentInv, FlightInv
  <2>2. QED
    BY <2>1
<1>8. \A q \in Callers : pc'[q] = "idle" <=> pc[q] = "idle"
  BY <1>1, <1>3
<1>9. HistoryTypes' /\ SeenInPast'
  BY <1>1 DEF Order, HistoryTypes, SeenInPast
<1>10. SeenSupersedes'
  <2>1. ASSUME NEW c \in ClientIDs, cache'[c] # None, seen'[c] > cache'[c].metadata.asOf
        PROVE  cache'[c].expiresAt <= clock'
    <3>1. CASE cache'[c] = cache[c]
      BY <1>1, <2>1, <3>1 DEF Order, SeenSupersedes
    <3>2. CASE /\ c = want[p] /\ Cacheable(p) /\ cache'[c].metadata = result[p].metadata
      <4>1. seen[c] <= sentAt[p] /\ cache'[c].metadata.asOf = sentAt[p] /\ sentAt[p] \in Nat
            /\ seen[c] \in Int
        BY <1>4, <3>2, OrderTypes DEF Cacheable, Order, NewestUnderway
      <4>2. QED
        BY <1>1, <2>1, <4>1
    <3>3. QED
      BY <1>7, <2>1, <3>1, <3>2
  <2>2. QED
    BY <2>1 DEF SeenSupersedes
<1>11. FloorSupersedes'
  <2>1. ASSUME NEW q \in Callers, pc'[q] # "idle", Entry(q)' # None,
               floor'[q] > Entry(q)'.metadata.asOf
        PROVE  Entry(q)'.expiresAt <= start'[q]
    <3>1. pc[q] # "idle" /\ want[q] \in ClientIDs /\ Entry(q)' = cache'[want[q]]
          /\ floor[q] \in Int
      BY <1>1, <1>8, <2>1, OrderTypes DEF Entry
    <3>2. CASE cache'[want[q]] = cache[want[q]]
      BY <1>1, <2>1, <3>1, <3>2 DEF Order, FloorSupersedes, Entry
    <3>3. CASE want[q] = want[p] /\ Cacheable(p) /\ cache'[want[q]].metadata = result[p].metadata
      <4>1. floor[q] <= sentAt[p] /\ Entry(q)'.metadata.asOf = sentAt[p] /\ sentAt[p] \in Nat
        BY <1>4, <3>1, <3>3 DEF Cacheable, Order, NewestUnderway
      <4>2. QED
        BY <1>1, <2>1, <3>1, <4>1
    <3>4. QED
      BY <1>7, <2>1, <3>1, <3>2, <3>3
  <2>2. QED
    BY <2>1 DEF FloorSupersedes
<1>12. FetchSupersedes'
  <2>1. ASSUME NEW q \in Callers, pc'[q] # "idle", Entry(q)' # None
        PROVE  /\ pc'[q] \in Leading => Entry(q)'.expiresAt <= start'[q]
               /\ result'[q].metadata # None
                    /\ result'[q].metadata.asOf > Entry(q)'.metadata.asOf =>
                    Entry(q)'.expiresAt <= clock'
    <3>1. pc[q] # "idle" /\ want[q] \in ClientIDs /\ Entry(q)' = cache'[want[q]]
      BY <1>1, <1>8, <2>1, OrderTypes DEF Entry
    <3>2. result'[q] = result[q] \/ (result'[q] = result[p] /\ want[q] = want[p])
      BY <1>1, <1>3
    <3>3. CASE cache'[want[q]] = cache[want[q]]
      <4>1. /\ pc[q] \in Leading => Entry(q).expiresAt <= start[q]
            /\ result[q].metadata # None /\ result[q].metadata.asOf > Entry(q).metadata.asOf =>
                 Entry(q).expiresAt <= clock
        BY <2>1, <3>1, <3>3 DEF Order, FetchSupersedes, Entry
      <4>2. want[q] = want[p] /\ result[p].metadata # None
              /\ result[p].metadata.asOf > Entry(q).metadata.asOf => Entry(q).expiresAt <= clock
        BY <1>1, <2>1, <3>1, <3>3 DEF Order, FetchSupersedes, Entry
      <4>3. QED
        BY <1>1, <1>6, <3>1, <3>2, <3>3, <4>1, <4>2 DEF Entry
    <3>4. CASE want[q] = want[p] /\ Cacheable(p) /\ cache'[want[q]].metadata = result[p].metadata
      <4>1. result[q].metadata # None => result[q].metadata.asOf <= sentAt[p]
        BY <1>4, <3>1, <3>4 DEF Cacheable, Order, NewestUnderway
      <4>2. Entry(q)'.metadata.asOf = sentAt[p] /\ sentAt[p] \in Nat
            /\ (result[q].metadata # None => result[q].metadata.asOf \in Nat)
            /\ result[p].metadata.asOf = sentAt[p]
        BY <1>4, <3>1, <3>4, OrderTypes DEF Cacheable
      <4>3. ~(result'[q].metadata # None /\ result'[q].metadata.asOf > Entry(q)'.metadata.asOf)
        BY <3>2, <4>1, <4>2
      <4>4. pc'[q] \notin Leading
        BY <1>6, <3>4
      <4>5. QED
        BY <4>3, <4>4
    <3>5. QED
      BY <1>7, <2>1, <3>1, <3>3, <3>4
  <2>2. QED
    BY <2>1 DEF FetchSupersedes
<1>13. NewestUnderway'
  <2>1. ASSUME NEW q \in Callers, Underway(q)'
        PROVE  /\ seen'[want'[q]] <= sentAt'[q]
               /\ Entry(q)' # None => Entry(q)'.metadata.asOf <= sentAt'[q]
               /\ \A r \in Callers : pc'[r] # "idle" /\ want'[r] = want'[q] =>
                    /\ floor'[r] <= sentAt'[q]
                    /\ result'[r].metadata # None => result'[r].metadata.asOf <= sentAt'[q]
    <3>1. q # p /\ want[q] # want[p]
      BY <1>6, <2>1 DEF Underway, Leading
    <3>2. Underway(q) /\ sentAt'[q] = sentAt[q]
      BY <1>1, <1>3, <2>1, <3>1 DEF Underway
    <3>3. want[q] \in ClientIDs
      BY <3>2, UnderwayLeads
    <3>4. Entry(q)' = None \/ Entry(q)' = Entry(q)
      BY <1>1, <1>7, <3>1, <3>3 DEF Entry
    <3>5. \A r \in Callers : want[r] = want[q] => result'[r] = result[r]
      BY <1>1, <1>3, <3>1
    <3>6. QED
      BY <1>1, <1>8, <3>2, <3>4, <3>5 DEF Order, NewestUnderway
  <2>2. QED
    BY <2>1 DEF NewestUnderway
<1>14. NotOutdated'
  <2>1. ASSUME NEW q \in Callers, pc'[q] \in {"woken", "done"}, result'[q].err = "none"
        PROVE  result'[q].metadata.asOf >= floor'[q]
    <3>1. CASE q = p \/ q \in Followers(p)
      <4>1. result'[q] = result[p] /\ want[q] = want[p] /\ pc[q] # "idle"
        BY <1>1, <1>3, <3>1
      <4>2. floor[q] <= sentAt[p] /\ result[p].metadata.asOf = sentAt[p]
            /\ sentAt[p] \in Nat /\ floor[q] \in Int
        BY <1>4, <2>1, <4>1, OrderTypes DEF Order, NewestUnderway
      <4>3. QED
        BY <1>1, <4>1, <4>2
    <3>2. CASE q # p /\ q \notin Followers(p)
      BY <1>1, <2>1, <3>2 DEF Order, NotOutdated
    <3>3. QED
      BY <3>1, <3>2
  <2>2. QED
    BY <2>1 DEF NotOutdated
<1>15. QED
  BY <1>9, <1>10, <1>11, <1>12, <1>13, <1>14 DEF Order

LEMMA TickOrder ==
  ASSUME OrderInv, Tick, UNCHANGED history
  PROVE  Order'
<1> USE DEF OrderInv, history, Tick, shared, locals
<1>1. HistoryTypes' /\ NewestUnderway' /\ FloorSupersedes' /\ NotOutdated'
  BY DEF Order, HistoryTypes, NewestUnderway, Underway, FloorSupersedes, Entry, NotOutdated
<1>2. SeenSupersedes' /\ SeenInPast'
  BY OrderTypes DEF Order, SeenSupersedes, SeenInPast
<1>3. FetchSupersedes'
  BY OrderTypes DEF Order, FetchSupersedes, Entry
<1>4. QED
  BY <1>1, <1>2, <1>3 DEF Order

LEMMA HistoryObserves == [HistoryNext]_historyVars => [Next]_vars
BY DEF HistoryNext, historyVars, BeginSeen, ReturnSeen, LeadSeen, Silent, Next, Step, Lookup

LEMMA NextOrder == OrderInv /\ [HistoryNext]_historyVars => OrderInv'
<1> SUFFICES ASSUME OrderInv, [HistoryNext]_historyVars PROVE Order'
  BY HistoryObserves, NextPast DEF OrderInv
<1>1. CASE Tick /\ UNCHANGED history
  BY <1>1, TickOrder
<1>2. ASSUME NEW p \in Callers, BeginSeen(p) \/ ReturnSeen(p) \/ LeadSeen(p) PROVE Order'
  BY <1>2, BeginOrder, ReturnOrder, LeadOrder
<1>3. ASSUME NEW p \in Callers, Silent(p), UNCHANGED history PROVE Order'
  BY <1>3, HitOrder, QuietOrder, AcquireOrder, AnsweredOrder, PublishOrder DEF Silent, Fetch
<1>4. CASE UNCHANGED historyVars
  BY <1>4 DEF historyVars, history, vars, shared, locals, OrderInv, Order, HistoryTypes,
              SeenSupersedes, FloorSupersedes, FetchSupersedes, Entry, NewestUnderway,
              Underway, SeenInPast, NotOutdated
<1>5. QED
  BY <1>1, <1>2, <1>3, <1>4 DEF HistoryNext

LEMMA InitOrder == HistoryInit => OrderInv
<1> SUFFICES ASSUME HistoryInit PROVE Order
  BY InitReads DEF HistoryInit, OrderInv
<1>1. HistoryTypes /\ SeenSupersedes /\ SeenInPast
  BY ResolverAssumption
  DEF HistoryInit, Init, HistoryTypes, SeenSupersedes, SeenInPast
<1>2. FloorSupersedes /\ FetchSupersedes /\ NewestUnderway /\ NotOutdated
  BY DEF HistoryInit, Init, FloorSupersedes, FetchSupersedes, NewestUnderway, Underway,
         NotOutdated
<1>3. QED
  BY <1>1, <1>2 DEF Order

\* A call of Resolve that starts after another call for the same client returned
\* is never given an older document than that one was: through the cache, by
\* joining a fetch or by fetching, for any number of callers and clients and
\* whatever answers are not kept.
THEOREM ReadsNeverGoBack == HistorySpec => []MonotoneReads
<1>1. HistorySpec => []OrderInv
  BY InitOrder, NextOrder, PTL DEF HistorySpec
<1>2. OrderInv => MonotoneReads
  BY DEF OrderInv, Order, NotOutdated, MonotoneReads
<1>3. QED
  BY <1>1, <1>2, PTL

-----------------------------------------------------------------------------
\* Fetches of one host keep their distance.

\* A host that has no record was admitted long ago, when the table has room for
\* every host: only a full table drops a record that still counts.
LastAdmitted ==
  \A h \in Hosts :
    /\ admitted[h] <= clock
    /\ hostLastFetch[h] # None => admitted[h] = hostLastFetch[h]
    /\ hostLastFetch[h] = None /\ Cardinality(Hosts) <= HostEntries =>
         clock - admitted[h] >= HostRetryDelay

SpacingInv == OrderInv /\ LastAdmitted

\* An eviction on behalf of a host that is not limited forgets only hosts that
\* are not limited either.
LEMMA EvictionForgetsOld ==
  ASSUME TypeOK, NEW now \in Nat, NEW g \in Hosts, ~HostLimited(g, now),
         Cardinality(Hosts) <= HostEntries,
         NEW kept \in evictHostRateEntryLocked(now),
         NEW h \in Hosts, kept[h] = None, hostLastFetch[h] # None
  PROVE  now - hostLastFetch[h] >= HostRetryDelay
<1> USE ResolverAssumption
<1> DEFINE Recent == RecentHosts(now)
<1>1. /\ Recent \subseteq Hosts /\ g \notin Recent
      /\ hostLastFetch[h] \in Nat
  BY DEF RecentHosts, Held, HostLimited, TypeOK, Time
<1>2. /\ IsFiniteSet(Recent) /\ Cardinality(Recent) <= Cardinality(Hosts)
      /\ Cardinality(Recent) # Cardinality(Hosts)
      /\ Cardinality(Recent) \in Nat /\ Cardinality(Hosts) \in Nat /\ HostEntries \in Nat
  BY <1>1, FS_Subset, FS_CardinalityType DEF HostEntries
<1>3. Cardinality(Recent) < HostEntries
  BY <1>2
<1>4. kept = hostLastFetch \/ kept = Keep(Recent)
  BY <1>3 DEF evictHostRateEntryLocked
<1>5. h \notin Recent
  BY <1>4 DEF Keep
<1>6. QED
  BY <1>1, <1>5 DEF RecentHosts, Held, TypeOK

LEMMA SpacingTypes ==
  ASSUME SpacingInv
  PROVE  /\ TypeOK /\ clock \in Nat
         /\ \A h \in Hosts : admitted[h] \in Int /\ (hostLastFetch[h] # None => hostLastFetch[h] \in Nat)
         /\ \A p \in Callers : /\ start[p] \in Nat /\ start[p] <= clock
                               /\ pc[p] # "idle" => want[p] \in ClientIDs
BY OrderTypes
DEF SpacingInv, OrderInv, Order, HistoryTypes, ReadsInv, DocumentInv, FlightInv, TypeInv,
    TypeOK, Time

\* What admits a fetch of a host: its last one is a retry delay ago.
LEMMA AdmittedInTime ==
  ASSUME SpacingInv, NEW p \in Callers, Lead(p), Cardinality(Hosts) <= HostEntries
  PROVE  clock - admitted[HostOf[want[p]]] >= HostRetryDelay
<1>1. /\ want[p] \in ClientIDs /\ HostOf[want[p]] \in Hosts
      /\ ~HostLimited(HostOf[want[p]], start[p])
  BY SpacingTypes, ResolverAssumption DEF Lead
<1>2. QED
  BY <1>1, SpacingTypes, ResolverAssumption DEF SpacingInv, LastAdmitted, HostLimited

LEMMA LeadAdmitted ==
  ASSUME SpacingInv, NEW p \in Callers, LeadSeen(p)
  PROVE  LastAdmitted'
<1> DEFINE host == HostOf[want[p]]
<1>1. /\ want[p] \in ClientIDs /\ host \in Hosts /\ ~HostLimited(host, start[p])
      /\ admitted' = [admitted EXCEPT ![host] = start[p]]
      /\ UNCHANGED clock
  BY SpacingTypes, ResolverAssumption DEF LeadSeen, Lead
<1>2. PICK kept \in evictHostRateEntryLocked(start[p]) :
        hostLastFetch' = [kept EXCEPT ![host] = start[p]]
  BY DEF LeadSeen, Lead
<1>3. /\ kept \in [Hosts -> Time \cup {None}]
      /\ \A h \in Hosts : kept[h] = None \/ kept[h] = hostLastFetch[h]
  BY SpacingTypes, EvictHostKeeps
<1>4. ASSUME NEW h \in Hosts
      PROVE  /\ admitted'[h] <= clock'
             /\ hostLastFetch'[h] # None => admitted'[h] = hostLastFetch'[h]
             /\ hostLastFetch'[h] = None /\ Cardinality(Hosts) <= HostEntries =>
                  clock' - admitted'[h] >= HostRetryDelay
  <2>1. CASE h = host
    <3>1. admitted'[h] = start[p] /\ hostLastFetch'[h] = start[p]
      BY <1>1, <1>2, <1>3, <2>1 DEF SpacingInv, OrderInv, Order, HistoryTypes
    <3>2. QED
      BY <1>1, <3>1, SpacingTypes, ResolverAssumption
  <2>2. CASE h # host
    <3>1. admitted'[h] = admitted[h] /\ hostLastFetch'[h] = kept[h]
      BY <1>1, <1>2, <1>3, <2>2 DEF SpacingInv, OrderInv, Order, HistoryTypes
    <3>2. ASSUME kept[h] = None, hostLastFetch[h] # None, Cardinality(Hosts) <= HostEntries
          PROVE  clock - admitted[h] >= HostRetryDelay
      <4>1. start[p] - hostLastFetch[h] >= HostRetryDelay
        BY <1>1, <3>2, SpacingTypes, EvictionForgetsOld
      <4>2. admitted[h] = hostLastFetch[h] /\ hostLastFetch[h] \in Nat
        BY <3>2, SpacingTypes DEF SpacingInv, LastAdmitted
      <4>3. QED
        BY <4>1, <4>2, SpacingTypes, ResolverAssumption
    <3>3. QED
      BY <1>1, <1>3, <3>1, <3>2 DEF SpacingInv, LastAdmitted
  <2>3. QED
    BY <2>1, <2>2
<1>5. QED
  BY <1>4 DEF LastAdmitted

LEMMA NextSpacing == SpacingInv /\ [HistoryNext]_historyVars => SpacingInv'
<1> SUFFICES ASSUME SpacingInv, [HistoryNext]_historyVars PROVE LastAdmitted'
  BY NextOrder DEF SpacingInv
<1> USE DEF SpacingInv, history
<1>1. CASE Tick /\ UNCHANGED history
  BY <1>1, SpacingTypes, ResolverAssumption DEF Tick, shared, LastAdmitted
<1>2. ASSUME NEW p \in Callers, BeginSeen(p) \/ ReturnSeen(p) PROVE LastAdmitted'
  BY <1>2 DEF BeginSeen, BeginResolve, ReturnSeen, Return, shared, LastAdmitted
<1>3. ASSUME NEW p \in Callers, LeadSeen(p) PROVE LastAdmitted'
  BY <1>3, LeadAdmitted
<1>4. ASSUME NEW p \in Callers, Silent(p), UNCHANGED history PROVE LastAdmitted'
  <2>1. UNCHANGED <<clock, hostLastFetch, admitted>>
    BY <1>4 DEF Silent, Hit, Join, RateLimited, Cancel, AcquireSlot, AbandonSlot, Fetch,
                FetchAnswered, FetchFailed, ReleaseSlot, Publish, FollowerAnswered,
                FollowerCancelled, shared
  <2>2. QED
    BY <2>1 DEF LastAdmitted
<1>5. CASE UNCHANGED historyVars
  BY <1>5 DEF historyVars, vars, shared, LastAdmitted
<1>6. QED
  BY <1>1, <1>2, <1>3, <1>4, <1>5 DEF HistoryNext

LEMMA InitSpacing == HistoryInit => SpacingInv
<1> SUFFICES ASSUME HistoryInit PROVE LastAdmitted
  BY InitOrder DEF SpacingInv
<1>1. QED
  BY ResolverAssumption DEF HistoryInit, Init, LastAdmitted

\* The only step from the table of calls to the queue for a slot is an admission.
LEMMA AdmissionLeads ==
  ASSUME TypeOK, [HistoryNext]_historyVars, NEW p \in Callers, pc[p] = "lookup", pc'[p] = "slot"
  PROVE  Lead(p)
<1>1. [Next]_vars
  BY HistoryObserves
<1>2. ASSUME NEW q \in Callers, Step(q) PROVE Lead(p)
  <2>1. CASE Lead(q)
    BY <2>1 DEF Lead, TypeOK
  <2>2. CASE ~Lead(q)
    <3>1. pc'[p] # "slot"
      BY <1>2, <2>2
      DEF Step, BeginResolve, Cancel, Lookup, Hit, Join, RateLimited, AcquireSlot,
          AbandonSlot, Fetch, FetchAnswered, FetchFailed, ReleaseSlot, Publish,
          FollowerAnswered, FollowerCancelled, Return, Answer, TypeOK
    <3>2. QED
      BY <3>1
  <2>3. QED
    BY <2>1, <2>2
<1>3. CASE Tick \/ UNCHANGED vars
  BY <1>3 DEF Tick, vars, locals
<1>4. QED
  BY <1>1, <1>2, <1>3 DEF Next

\* Whatever is evicted between them, two fetches of one host are admitted at
\* least a retry delay apart, counted from the reading that admitted the first,
\* for any number of callers and hosts the table has room for.
THEOREM FetchesKeepDistance == HistorySpec => HostSpacing
<1>1. HistorySpec => []SpacingInv
  BY InitSpacing, NextSpacing, PTL DEF HistorySpec
<1>2. SpacingInv /\ [HistoryNext]_historyVars =>
        [Cardinality(Hosts) <= HostEntries =>
           \A p \in Callers : pc[p] = "lookup" /\ pc'[p] = "slot" =>
             clock - admitted[HostOf[want[p]]] >= HostRetryDelay]_historyVars
  BY AdmissionLeads, AdmittedInTime, SpacingTypes
<1>3. QED
  BY <1>1, <1>2, PTL DEF HistorySpec, HostSpacing

=============================================================================
