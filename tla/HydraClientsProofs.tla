------------------------- MODULE HydraClientsProofs -------------------------
(***************************************************************************)
(* Proofs about HydraClients, for every number of requests, replicas,      *)
(* clients and locks and any amount of trouble.                            *)
(***************************************************************************)
EXTENDS HydraClientsHistory, HydraRegistrations, TLAPS

\* A request under way has a client and a content of its own.
Wanted ==
  \A r \in Requests : pc[r] # "idle" => client[r] \in Clients /\ desired[r] \in Versions

LockInv == TypeOK /\ Wanted /\ LocksExclude

\* Without failures and operators Hydra only ever gains clients of the facade.
Calm ==
  /\ \A r \in Requests : late[r] = None
  /\ \A c \in Clients : hydra[c] # Absent => hydra[c].managed
  /\ \A r \in Requests : pc[r] \in {"reget", "put"} => hydra[client[r]] # Absent

CalmInv == trouble = 0 => Calm

RaceInv == LockInv /\ CalmInv /\ RacesResolve

-----------------------------------------------------------------------------
LEMMA InitLocks == Init => LockInv
BY HydraAssumption
DEF Init, LockInv, TypeOK, Wanted, LocksExclude, Critical, Stored, Absent

LEMMA ClientOf ==
  ASSUME LockInv, NEW r \in Requests, pc[r] # "idle"
  PROVE  /\ client[r] \in Clients /\ desired[r] \in Versions
         /\ LockOf(r) \in Replicas \X LockIndexes
         /\ hydra[client[r]] \in Stored
BY HydraAssumption DEF LockInv, TypeOK, Wanted, LockOf

\* Steps inside the critical section keep the locks and their holders.
LEMMA LocksUnchanged ==
  ASSUME LockInv, NEW r \in Requests, UNCHANGED <<locks, client, desired>>,
         pc[r] \in Critical, pc' \in [Requests -> {"idle", "lock"} \cup Critical],
         pc'[r] \in Critical, \A s \in Requests \ {r} : pc'[s] = pc[s]
  PROVE  Wanted' /\ LocksExclude'
<1>1. Wanted'
  BY DEF LockInv, Wanted, Critical
<1>2. LocksExclude'
  BY DEF LockInv, TypeOK, LocksExclude, LockOf
<1>3. QED
  BY <1>1, <1>2

LEMMA BeginLocks ==
  ASSUME LockInv, NEW r \in Requests, NEW c \in Clients, NEW v \in Versions, Begin(r, c, v)
  PROVE  LockInv'
<1> USE HydraAssumption DEF Begin
<1>1. TypeOK'
  BY DEF LockInv, TypeOK
<1>2. Wanted'
  BY DEF LockInv, TypeOK, Wanted
<1>3. LocksExclude'
  BY DEF LockInv, TypeOK, LocksExclude, Critical, LockOf
<1>4. QED
  BY <1>1, <1>2, <1>3 DEF LockInv

LEMMA LockLocks ==
  ASSUME LockInv, NEW r \in Requests, Lock(r)
  PROVE  LockInv'
<1> USE HydraAssumption
<1>1. LockOf(r) \in Replicas \X LockIndexes
  BY ClientOf DEF Lock
<1>2. /\ pc[r] = "lock" /\ pc' = [pc EXCEPT ![r] = "get"]
      /\ locks[LockOf(r)] = None /\ locks' = [locks EXCEPT ![LockOf(r)] = r]
      /\ UNCHANGED <<hydra, client, desired, existing, result, late, trouble>>
  BY DEF Lock, LockFree
<1>3. TypeOK'
  BY <1>1, <1>2 DEF LockInv, TypeOK, Critical
<1>4. Wanted'
  BY <1>2 DEF LockInv, TypeOK, Wanted
<1>5. \A s \in Requests : pc[s] \in Critical => LockOf(s) \in Replicas \X LockIndexes
  BY ClientOf DEF Critical
<1>6. LockOf(r)' = LockOf(r) /\ \A s \in Requests : LockOf(s)' = LockOf(s)
  BY <1>2 DEF LockOf
<1>7. ASSUME NEW s \in Requests, pc'[s] \in Critical PROVE locks'[LockOf(s)] = s
  <2>1. CASE s = r
    BY <1>1, <1>2, <2>1 DEF LockInv, TypeOK
  <2>2. CASE s # r
    <3>1. pc[s] \in Critical
      BY <1>2, <1>7, <2>2 DEF LockInv, TypeOK
    <3>2. locks[LockOf(s)] = s /\ LockOf(s) # LockOf(r)
      BY <1>2, <3>1 DEF LockInv, LocksExclude
    <3>3. QED
      BY <1>1, <1>2, <1>5, <3>1, <3>2 DEF LockInv, TypeOK
  <2>3. QED
    BY <2>1, <2>2
<1>8. ASSUME NEW l \in Replicas \X LockIndexes, locks'[l] # None
      PROVE  pc'[locks'[l]] \in Critical /\ LockOf(locks'[l]) = l
  <2>1. CASE l = LockOf(r)
    BY <1>1, <1>2, <2>1 DEF LockInv, TypeOK, Critical
  <2>2. CASE l # LockOf(r)
    <3>1. locks'[l] = locks[l] /\ locks[l] \in Requests
      BY <1>2, <1>8, <2>2 DEF LockInv, TypeOK
    <3>2. pc[locks[l]] \in Critical /\ LockOf(locks[l]) = l
      BY <1>8, <3>1 DEF LockInv, LocksExclude
    <3>3. locks[l] # r
      BY <2>2, <3>2
    <3>4. QED
      BY <1>2, <3>1, <3>2, <3>3 DEF LockInv, TypeOK
  <2>3. QED
    BY <2>1, <2>2
<1>9. LocksExclude'
  BY <1>6, <1>7, <1>8, <1>2 DEF LocksExclude, LockInv, TypeOK, LockOf
<1>10. QED
  BY <1>3, <1>4, <1>9 DEF LockInv

LEMMA UnlockLocks ==
  ASSUME LockInv, NEW r \in Requests, Unlock(r)
  PROVE  LockInv'
<1> USE HydraAssumption
<1>1. LockOf(r) \in Replicas \X LockIndexes /\ pc[r] \in Critical
  BY ClientOf DEF Unlock, Critical
<1>2. /\ pc' = [pc EXCEPT ![r] = "idle"]
      /\ locks' = [locks EXCEPT ![LockOf(r)] = None]
      /\ client' = [client EXCEPT ![r] = None]
      /\ desired' = [desired EXCEPT ![r] = None]
      /\ existing' = [existing EXCEPT ![r] = Absent]
      /\ result' = [result EXCEPT ![r] = "error"]
      /\ UNCHANGED <<hydra, late, trouble>>
  BY DEF Unlock
<1>3. TypeOK'
  BY <1>1, <1>2 DEF LockInv, TypeOK, Stored
<1>4. Wanted'
  BY <1>2 DEF LockInv, TypeOK, Wanted
<1>5. locks[LockOf(r)] = r
  BY <1>1 DEF LockInv, LocksExclude
<1>6. ASSUME NEW s \in Requests, pc'[s] \in Critical PROVE locks'[LockOf(s)'] = s
  <2>1. s # r /\ pc[s] \in Critical /\ client'[s] = client[s]
    BY <1>2, <1>6 DEF LockInv, TypeOK, Critical
  <2>2. LockOf(s)' = LockOf(s) /\ LockOf(s) \in Replicas \X LockIndexes
    BY <2>1, ClientOf DEF LockOf, Critical
  <2>3. locks[LockOf(s)] = s
    BY <2>1 DEF LockInv, LocksExclude
  <2>4. QED
    BY <1>1, <1>2, <1>5, <2>1, <2>2, <2>3 DEF LockInv, TypeOK
<1>7. ASSUME NEW l \in Replicas \X LockIndexes, locks'[l] # None
      PROVE  /\ locks'[l] = locks[l] /\ locks[l] \in Requests /\ locks[l] # r
             /\ pc[locks[l]] \in Critical /\ LockOf(locks[l]) = l
  <2>1. l # LockOf(r) /\ locks'[l] = locks[l] /\ locks[l] \in Requests
    BY <1>1, <1>2, <1>7 DEF LockInv, TypeOK
  <2>2. pc[locks[l]] \in Critical /\ LockOf(locks[l]) = l
    BY <1>7, <2>1 DEF LockInv, LocksExclude
  <2>3. QED
    BY <2>1, <2>2
<1>8. LocksExclude'
  BY <1>2, <1>6, <1>7 DEF LocksExclude, LockInv, TypeOK, LockOf
<1>9. QED
  BY <1>3, <1>4, <1>8 DEF LockInv

LEMMA EnsureLocks ==
  ASSUME LockInv, NEW r \in Requests, Ensure(r), ~Unlock(r)
  PROVE  LockInv'
<1> USE HydraAssumption
<1>1. /\ pc[r] \in Critical
      /\ \E place \in {"create", "reget", "put", "return"} : pc' = [pc EXCEPT ![r] = place]
      /\ UNCHANGED <<locks, client, desired>>
  BY DEF Ensure, Lookup, FoundUnmanaged, FoundEqual, FoundDifferent, NotFound,
         NotFoundAgain, LookupFailed, Create, CreateConflict, CreateAbandoned, Put,
         PutNotFound, PutAbandoned, Written, Abandoned, AfterConflict, Finish, Critical
<1>2. /\ \/ result' = result
         \/ \E outcome \in {"ok", "error"} : result' = [result EXCEPT ![r] = outcome]
      /\ \/ existing' = existing
         \/ existing' = [existing EXCEPT ![r] = hydra[client[r]]]
  BY DEF Ensure, Lookup, FoundUnmanaged, FoundEqual, FoundDifferent, NotFound,
         NotFoundAgain, LookupFailed, Create, CreateConflict, CreateAbandoned, Put,
         PutNotFound, PutAbandoned, Written, Abandoned, AfterConflict, Finish
<1>3. /\ \/ hydra' = hydra
         \/ hydra' = [hydra EXCEPT ![client[r]] = Managed(desired[r])]
      /\ trouble' = trouble \/ MoreTrouble
      /\ \/ late' = late
         \/ \E method \in {"POST", "PUT"} :
              late' = [late EXCEPT ![r] =
                [method |-> method, client |-> client[r], version |-> desired[r]]]
  BY DEF Ensure, Lookup, FoundUnmanaged, FoundEqual, FoundDifferent, NotFound,
         NotFoundAgain, LookupFailed, Create, CreateConflict, CreateAbandoned, Put,
         PutNotFound, PutAbandoned, Written, Abandoned, AfterConflict
<1>4. /\ client[r] \in Clients /\ desired[r] \in Versions /\ hydra[client[r]] \in Stored
  BY <1>1, ClientOf DEF Critical
<1>5. pc' \in [Requests -> {"idle", "lock"} \cup Critical] /\ pc'[r] \in Critical
  BY <1>1 DEF LockInv, TypeOK, Critical
<1>6. hydra' \in [Clients -> Stored]
  <2>1. Managed(desired[r]) \in Stored
    BY <1>4 DEF Managed, Stored, Registrations
  <2>2. QED
    BY <1>3, <1>4, <2>1 DEF LockInv, TypeOK
<1>7. late' \in [Requests -> Writes \cup {None}]
  BY <1>3, <1>4 DEF LockInv, TypeOK, Writes
<1>8. trouble' \in 0..MaxTrouble
  BY <1>3 DEF LockInv, TypeOK, MoreTrouble
<1>9. result' \in [Requests -> {"ok", "error"}] /\ existing' \in [Requests -> Stored]
  BY <1>2, <1>4 DEF LockInv, TypeOK
<1>10. TypeOK'
  BY <1>1, <1>5, <1>6, <1>7, <1>8, <1>9 DEF LockInv, TypeOK
<1>11. \A s \in Requests \ {r} : pc'[s] = pc[s]
  BY <1>1 DEF LockInv, TypeOK
<1>12. QED
  BY <1>1, <1>5, <1>10, <1>11, LocksUnchanged DEF LockInv

LEMMA EnvironmentLocks ==
  ASSUME LockInv,
         \/ \E r \in Requests : LateWrite(r) \/ LateLost(r)
         \/ \E c \in Clients : Operator(c)
  PROVE  LockInv'
<1> USE HydraAssumption
<1>1. UNCHANGED <<locks, pc, client, desired, existing, result>>
  BY DEF LateWrite, LateLost, Operator
<1>2. /\ hydra' \in [Clients -> Stored]
      /\ late' \in [Requests -> Writes \cup {None}]
      /\ trouble' \in 0..MaxTrouble
  <2>1. CASE \E r \in Requests : LateWrite(r)
    <3>1. PICK r \in Requests : LateWrite(r)
      BY <2>1
    <3>2. late[r] \in Writes
      BY <3>1 DEF LateWrite, LockInv, TypeOK
    <3>3. late[r].client \in Clients /\ Managed(late[r].version) \in Stored
      BY <3>2 DEF Writes, Managed, Stored, Registrations
    <3>4. QED
      BY <3>1, <3>3 DEF LateWrite, LockInv, TypeOK
  <2>2. CASE \E r \in Requests : LateLost(r)
    BY <2>2 DEF LateLost, LockInv, TypeOK
  <2>3. CASE \E c \in Clients : Operator(c)
    BY <2>3 DEF Operator, MoreTrouble, LockInv, TypeOK
  <2>4. QED
    BY <2>1, <2>2, <2>3
<1>3. TypeOK'
  BY <1>1, <1>2 DEF LockInv, TypeOK
<1>4. Wanted' /\ LocksExclude'
  BY <1>1 DEF LockInv, Wanted, LocksExclude, LockOf
<1>5. QED
  BY <1>3, <1>4 DEF LockInv

LEMMA NextLocks == LockInv /\ [Next]_vars => LockInv'
<1> SUFFICES ASSUME LockInv, [Next]_vars PROVE LockInv'
  OBVIOUS
<1>1. CASE UNCHANGED vars
  BY <1>1 DEF vars, LockInv, TypeOK, Wanted, LocksExclude, LockOf
<1>2. CASE Next
  BY <1>2, BeginLocks, LockLocks, UnlockLocks, EnsureLocks, EnvironmentLocks DEF Next
<1>3. QED
  BY <1>1, <1>2

\* However many requests and replicas there are and however clients share locks,
\* a lock has one holder, which is between Lock and Unlock and wants a client of
\* that lock; nobody is there without the lock.
THEOREM LocksCorrect == Spec => [](TypeOK /\ LocksExclude)
<1>1. Spec => []LockInv
  BY InitLocks, NextLocks, PTL DEF Spec
<1>2. LockInv => TypeOK /\ LocksExclude
  BY DEF LockInv
<1>3. QED
  BY <1>1, <1>2, PTL

-----------------------------------------------------------------------------
\* Races between replicas.

\* What one step of EnsureCIMDClient does to what it has found and written, when
\* nothing goes wrong.
LEMMA CalmEnsure ==
  ASSUME RaceInv, trouble = 0, NEW r \in Requests, Ensure(r), trouble' = 0
  PROVE  Calm' /\ RacesResolve'
<1> USE HydraAssumption DEF RaceInv, CalmInv, Calm
<1>1. /\ \A q \in Requests : late[q] = None
      /\ \A q \in Requests : pc[q] # "idle" => client[q] \in Clients
      /\ \A v : Managed(v).managed /\ Managed(v) # Absent
  BY DEF LockInv, Wanted, Managed, Absent
<1>2. ~LookupFailed(r) /\ ~CreateAbandoned(r) /\ ~PutAbandoned(r)
  BY DEF LookupFailed, CreateAbandoned, PutAbandoned, Abandoned, MoreTrouble
<1>3. ~FoundUnmanaged(r) /\ ~NotFoundAgain(r) /\ ~PutNotFound(r)
  BY <1>1 DEF FoundUnmanaged, NotFoundAgain, PutNotFound, Lookup, isManagedCIMDClient,
              Accepts
<1>4. CASE FoundEqual(r) \/ FoundDifferent(r) \/ NotFound(r) \/ CreateConflict(r)
  <2>1. /\ UNCHANGED <<hydra, client, late>>
        /\ pc[r] # "idle"
        /\ \/ /\ pc' = [pc EXCEPT ![r] = "return"]
              /\ result' = [result EXCEPT ![r] = "ok"]
           \/ /\ pc' = [pc EXCEPT ![r] = "put"] \/ pc' = [pc EXCEPT ![r] = "reget"]
              /\ hydra[client[r]] # Absent /\ UNCHANGED result
           \/ pc' = [pc EXCEPT ![r] = "create"] /\ UNCHANGED result
    BY <1>4 DEF FoundEqual, FoundDifferent, NotFound, CreateConflict, Lookup, Finish,
                AfterConflict, Accepts
  <2>2. QED
    BY <1>1, <2>1 DEF LockInv, TypeOK, RacesResolve
<1>5. CASE Create(r) \/ Put(r)
  <2>1. /\ hydra' = [hydra EXCEPT ![client[r]] = Managed(desired[r])]
        /\ pc[r] # "idle" /\ pc' = [pc EXCEPT ![r] = "return"]
        /\ result' = [result EXCEPT ![r] = "ok"]
        /\ UNCHANGED <<client, late>>
    BY <1>5 DEF Create, Put, Written, Finish
  <2>2. \A q \in Requests : pc'[q] \in {"reget", "put"} =>
          q # r /\ pc[q] = pc'[q] /\ client[q] \in Clients
    BY <1>1, <2>1 DEF LockInv, TypeOK
  <2>3. \A c \in Clients : /\ hydra'[c] # Absent => hydra'[c].managed
                           /\ hydra[c] # Absent => hydra'[c] # Absent
    BY <1>1, <2>1 DEF LockInv, TypeOK
  <2>4. Calm'
    BY <1>1, <2>1, <2>2, <2>3
  <2>5. RacesResolve'
    BY <2>1 DEF LockInv, TypeOK, RacesResolve
  <2>6. QED
    BY <2>4, <2>5
<1>6. CASE Unlock(r)
  <2>1. /\ UNCHANGED <<hydra, late>> /\ pc' = [pc EXCEPT ![r] = "idle"]
        /\ \A q \in Requests \ {r} : client'[q] = client[q] /\ result'[q] = result[q]
    BY <1>6 DEF Unlock, LockInv, TypeOK
  <2>2. QED
    BY <1>1, <2>1 DEF LockInv, TypeOK, RacesResolve
<1>7. QED
  BY <1>2, <1>3, <1>4, <1>5, <1>6 DEF Ensure

LEMMA TroubleGrows ==
  ASSUME LockInv, [Next]_vars
  PROVE  trouble' = 0 => trouble = 0
<1>1. trouble \in Nat
  BY HydraAssumption DEF LockInv, TypeOK
<1>2. trouble' = trouble \/ trouble' = trouble + 1
  BY DEF Next, vars, Begin, Lock, Ensure, Unlock, LateWrite, LateLost, Operator,
         FoundUnmanaged, FoundEqual, FoundDifferent, NotFound, NotFoundAgain, Lookup,
         LookupFailed, Create, CreateConflict, CreateAbandoned, Put, PutNotFound,
         PutAbandoned, Written, Abandoned, MoreTrouble
<1>3. QED
  BY <1>1, <1>2

LEMMA NextRace == RaceInv /\ [Next]_vars => RaceInv'
<1> SUFFICES ASSUME RaceInv, [Next]_vars, trouble' = 0 PROVE Calm' /\ RacesResolve'
  BY NextLocks DEF RaceInv, CalmInv, RacesResolve
<1> USE HydraAssumption
<1>1. trouble = 0 /\ LockInv
  BY TroubleGrows DEF RaceInv
<1>2. Calm
  BY <1>1 DEF RaceInv, CalmInv
<1>3. ASSUME NEW r \in Requests, NEW c \in Clients, NEW v \in Versions, Begin(r, c, v)
      PROVE  Calm' /\ RacesResolve'
  BY <1>1, <1>2, <1>3 DEF Begin, RaceInv, LockInv, TypeOK, Calm, RacesResolve
<1>4. ASSUME NEW r \in Requests, Lock(r) PROVE Calm' /\ RacesResolve'
  BY <1>1, <1>2, <1>4 DEF Lock, RaceInv, LockInv, TypeOK, Calm, RacesResolve
<1>5. ASSUME NEW r \in Requests, Ensure(r) PROVE Calm' /\ RacesResolve'
  BY <1>1, <1>5, CalmEnsure
<1>6. ASSUME NEW r \in Requests PROVE ~LateWrite(r) /\ ~LateLost(r)
  BY <1>2 DEF Calm, LateWrite, LateLost
<1>7. ASSUME NEW c \in Clients PROVE ~Operator(c)
  BY <1>1 DEF Operator, MoreTrouble
<1>8. CASE UNCHANGED vars
  BY <1>1, <1>2, <1>8 DEF vars, RaceInv, Calm, RacesResolve
<1>9. QED
  BY <1>3, <1>4, <1>5, <1>6, <1>7, <1>8 DEF Next

\* Without failures and operators no race between replicas makes a request fail,
\* for any number of replicas: whoever loses the race to create a client finds one
\* of the facade's when it reads again, and the client is there when it replaces it.
THEOREM RacesAreResolved == Spec => []RacesResolve
<1>1. Init => RaceInv
  BY InitLocks DEF Init, RaceInv, CalmInv, Calm, RacesResolve
<1>2. RaceInv => RacesResolve
  BY DEF RaceInv
<1>3. QED
  BY <1>1, <1>2, NextRace, PTL DEF Spec

-----------------------------------------------------------------------------
\* No lost update inside a replica.

ReadInv == RaceInv /\ ReadIsCurrent

LEMMA NextRead == ReadInv /\ [Next]_vars => ReadInv'
<1> SUFFICES ASSUME ReadInv, [Next]_vars, trouble' = 0, SingleReplica,
                    NEW q \in Requests, pc'[q] \in {"create", "put"}
             PROVE  hydra'[client'[q]] = existing'[q]
  BY NextRace DEF ReadInv, ReadIsCurrent, SingleReplica
<1> USE HydraAssumption
<1>1. trouble = 0 /\ LockInv /\ Calm
  BY TroubleGrows DEF ReadInv, RaceInv, CalmInv
<1>2. pc[q] \in {"create", "put"} => hydra[client[q]] = existing[q]
  BY <1>1 DEF ReadInv, ReadIsCurrent
<1>3. ASSUME NEW r \in Requests, NEW c \in Clients, NEW v \in Versions, Begin(r, c, v)
      PROVE  hydra'[client'[q]] = existing'[q]
  BY <1>1, <1>2, <1>3 DEF Begin, LockInv, TypeOK
<1>4. ASSUME NEW r \in Requests, Lock(r)
      PROVE  hydra'[client'[q]] = existing'[q]
  BY <1>1, <1>2, <1>4 DEF Lock, LockInv, TypeOK
<1>5. ASSUME NEW r \in Requests, Lookup(r), \A s \in Requests \ {r} : pc'[s] = pc[s]
      PROVE  hydra'[client'[q]] = existing'[q]
  BY <1>1, <1>2, <1>5 DEF Lookup, LockInv, TypeOK
<1>6. ASSUME NEW r \in Requests, Create(r) \/ Put(r)
      PROVE  hydra'[client'[q]] = existing'[q]
  <2>1. /\ hydra' = [hydra EXCEPT ![client[r]] = Managed(desired[r])]
        /\ pc[r] \in {"create", "put"} /\ pc' = [pc EXCEPT ![r] = "return"]
        /\ UNCHANGED <<client, existing>>
    BY <1>6 DEF Create, Put, Written, Finish
  <2>2. q # r /\ pc[q] \in {"create", "put"}
    BY <1>1, <2>1 DEF LockInv, TypeOK
  <2>3. locks[LockOf(q)] = q /\ locks[LockOf(r)] = r
    BY <1>1, <2>1, <2>2 DEF LockInv, LocksExclude, Critical
  <2>4. client[q] # client[r]
    BY <2>2, <2>3 DEF LockOf, SingleReplica
  <2>5. client[q] \in Clients
    BY <1>1, <2>2 DEF LockInv, Wanted
  <2>6. QED
    BY <1>1, <1>2, <2>1, <2>2, <2>4, <2>5 DEF LockInv, TypeOK
<1>7. ASSUME NEW r \in Requests, CreateConflict(r) \/ PutNotFound(r) \/ Unlock(r)
      PROVE  hydra'[client'[q]] = existing'[q]
  <2>1. /\ UNCHANGED hydra
        /\ \E place \in {"reget", "return", "idle"} : pc' = [pc EXCEPT ![r] = place]
        /\ \A s \in Requests \ {r} : client'[s] = client[s] /\ existing'[s] = existing[s]
    BY <1>1, <1>7 DEF CreateConflict, PutNotFound, Unlock, AfterConflict, Finish,
                      LockInv, TypeOK
  <2>2. q # r /\ pc'[q] = pc[q]
    BY <1>1, <2>1 DEF LockInv, TypeOK
  <2>3. QED
    BY <1>2, <2>1, <2>2
<1>8. ASSUME NEW r \in Requests
      PROVE  /\ ~LookupFailed(r) /\ ~CreateAbandoned(r) /\ ~PutAbandoned(r)
             /\ ~LateWrite(r) /\ ~LateLost(r)
  BY <1>1 DEF Calm, LookupFailed, CreateAbandoned, PutAbandoned, Abandoned, MoreTrouble,
              LateWrite, LateLost
<1>9. ASSUME NEW c \in Clients PROVE ~Operator(c)
  BY <1>1 DEF Operator, MoreTrouble
<1>10. ASSUME NEW r \in Requests, Ensure(r) PROVE hydra'[client'[q]] = existing'[q]
  <2>1. CASE \/ FoundUnmanaged(r) \/ FoundEqual(r) \/ FoundDifferent(r)
             \/ NotFound(r) \/ NotFoundAgain(r)
    <3>1. Lookup(r) /\ \A s \in Requests \ {r} : pc'[s] = pc[s]
      BY <1>1, <2>1 DEF FoundUnmanaged, FoundEqual, FoundDifferent, NotFound,
                        NotFoundAgain, Finish, LockInv, TypeOK
    <3>2. QED
      BY <1>5, <3>1
  <2>2. QED
    BY <1>6, <1>7, <1>8, <1>10, <2>1 DEF Ensure
<1>11. CASE UNCHANGED vars
  BY <1>2, <1>11 DEF vars
<1>12. QED
  BY <1>3, <1>4, <1>8, <1>9, <1>10, <1>11 DEF Next

\* In one replica, while nothing goes wrong, a request writes over exactly what it
\* has read, for any number of requests and any sharing of locks: the lock keeps
\* the requests of one client apart from the GET to the POST or PUT.
THEOREM NoLostUpdate == Spec => []ReadIsCurrent
<1>1. Init => ReadInv
  BY InitLocks DEF Init, ReadInv, RaceInv, CalmInv, Calm, RacesResolve, ReadIsCurrent
<1>2. ReadInv => ReadIsCurrent
  BY DEF ReadInv
<1>3. QED
  BY <1>1, <1>2, NextRead, PTL DEF Spec

-----------------------------------------------------------------------------
\* What a request's answer says of Hydra.

ObservedTypes ==
  /\ held \in [Requests -> BOOLEAN]
  /\ unmanaged \in [Requests -> BOOLEAN]

Answers ==
  /\ \A r \in Requests : pc[r] = "return" /\ result[r] = "ok" => held[r]
  /\ \A r \in Requests : unmanaged[r] =>
       /\ Unmanaged(hydra[client[r]])
       /\ pc[r] \notin {"create", "put"}
       /\ pc[r] = "return" => result[r] = "error"

AnswerInv == LockInv /\ ObservedTypes /\ Answers

\* A step that ends neither r's lookup nor its write leaves its answer as it was.
LEMMA AnswerOfOther ==
  ASSUME AnswerInv, Observe, NEW r \in Requests,
         pc'[r] = pc[r] /\ result'[r] = result[r] /\ client'[r] = client[r]
           /\ desired'[r] = desired[r]
  PROVE  /\ pc'[r] = "return" /\ result'[r] = "ok" => held'[r]
         /\ unmanaged'[r] =>
              /\ Unmanaged(hydra'[client'[r]])
              /\ pc'[r] \notin {"create", "put"}
              /\ pc'[r] = "return" => result'[r] = "error"
BY DEF AnswerInv, Answers, Observe, ObservedTypes

\* The step of r itself.
LEMMA AnswerOfSelf ==
  ASSUME AnswerInv, Observe, NEW r \in Requests,
         (\E c \in Clients, v \in Versions : Begin(r, c, v)) \/ Lock(r) \/ Ensure(r)
  PROVE  /\ pc'[r] = "return" /\ result'[r] = "ok" => held'[r]
         /\ unmanaged'[r] =>
              /\ Unmanaged(hydra'[client'[r]])
              /\ pc'[r] \notin {"create", "put"}
              /\ pc'[r] = "return" => result'[r] = "error"
<1> USE HydraAssumption
<1>1. /\ held'[r] = (pc'[r] # "idle" /\ (held[r] \/ hydra'[client'[r]] = Managed(desired'[r])))
      /\ unmanaged'[r] = (/\ pc'[r] # "idle" /\ (pc[r] = "idle" \/ unmanaged[r])
                          /\ Unmanaged(hydra'[client'[r]]))
  BY DEF Observe
<1>2. /\ pc[r] # "idle" => client[r] \in Clients
      /\ ~Unmanaged(Absent) /\ \A v : ~Unmanaged(Managed(v))
  BY DEF AnswerInv, LockInv, Wanted, Unmanaged, Managed, Absent
<1>3. CASE (\E c \in Clients, v \in Versions : Begin(r, c, v)) \/ Lock(r)
  BY <1>1, <1>3 DEF Begin, Lock, AnswerInv, LockInv, TypeOK
<1>4. CASE FoundUnmanaged(r) \/ LookupFailed(r) \/ NotFoundAgain(r) \/ PutNotFound(r)
             \/ CreateAbandoned(r) \/ PutAbandoned(r)
  <2>1. pc'[r] = "return" /\ result'[r] = "error"
    BY <1>4 DEF FoundUnmanaged, LookupFailed, NotFoundAgain, PutNotFound, CreateAbandoned,
                PutAbandoned, Abandoned, Finish, AnswerInv, LockInv, TypeOK
  <2>2. QED
    BY <1>1, <2>1
<1>5. CASE FoundEqual(r) \/ FoundDifferent(r) \/ NotFound(r)
  <2>1. /\ UNCHANGED <<hydra, client, desired>>
        /\ pc'[r] \in {"return", "put", "create"}
        /\ ~Unmanaged(hydra[client[r]])
        /\ pc'[r] = "return" => hydra[client[r]] = Managed(desired[r])
    BY <1>2, <1>5 DEF FoundEqual, FoundDifferent, NotFound, Lookup, Finish, Unmanaged,
                      isManagedCIMDClient, hydraClientsEqual, AnswerInv, LockInv, TypeOK
  <2>2. QED
    BY <1>1, <2>1
<1>6. CASE Create(r) \/ Put(r)
  <2>1. /\ hydra'[client'[r]] = Managed(desired'[r]) /\ pc'[r] = "return"
    BY <1>2, <1>6 DEF Create, Put, Written, Finish, AnswerInv, LockInv, TypeOK
  <2>2. QED
    BY <1>1, <1>2, <2>1
<1>7. CASE CreateConflict(r) \/ Unlock(r)
  <2>1. pc'[r] \in {"reget", "idle"}
    BY <1>7 DEF CreateConflict, AfterConflict, Unlock, AnswerInv, LockInv, TypeOK
  <2>2. QED
    BY <1>1, <2>1
<1>8. QED
  BY <1>3, <1>4, <1>5, <1>6, <1>7 DEF Ensure

LEMMA OthersUntouched ==
  ASSUME LockInv, NEW r \in Requests, NEW q \in Requests, q # r,
         (\E c \in Clients, v \in Versions : Begin(r, c, v)) \/ Lock(r) \/ Ensure(r)
  PROVE  pc'[q] = pc[q] /\ result'[q] = result[q] /\ client'[q] = client[q]
           /\ desired'[q] = desired[q]
BY DEF Begin, Lock, Ensure, Lookup, FoundUnmanaged, FoundEqual, FoundDifferent, NotFound,
       NotFoundAgain, LookupFailed, Create, CreateConflict, CreateAbandoned, Put,
       PutNotFound, PutAbandoned, Written, Abandoned, AfterConflict, Finish, Unlock,
       LockInv, TypeOK

LEMMA NextAnswer == AnswerInv /\ [HistoryNext]_historyVars => AnswerInv'
<1> SUFFICES ASSUME AnswerInv, HistoryNext PROVE AnswerInv'
  <2>1. ASSUME AnswerInv, UNCHANGED historyVars PROVE AnswerInv'
    <3>1. LockInv'
      BY <2>1, NextLocks DEF historyVars, AnswerInv
    <3>2. ObservedTypes' /\ Answers'
      BY <2>1 DEF historyVars, vars, AnswerInv, ObservedTypes, Answers
    <3>3. QED
      BY <3>1, <3>2 DEF AnswerInv
  <2>2. QED
    BY <2>1
<1>1. Next /\ Observe
  BY DEF HistoryNext
<1>2. LockInv'
  BY <1>1, NextLocks DEF AnswerInv
<1>3. ObservedTypes'
  BY <1>1 DEF Observe, ObservedTypes, AnswerInv
<1>4. ASSUME NEW q \in Requests
      PROVE  /\ pc'[q] = "return" /\ result'[q] = "ok" => held'[q]
             /\ unmanaged'[q] =>
                  /\ Unmanaged(hydra'[client'[q]])
                  /\ pc'[q] \notin {"create", "put"}
                  /\ pc'[q] = "return" => result'[q] = "error"
  <2>1. CASE \E r \in Requests :
               (\E c \in Clients, v \in Versions : Begin(r, c, v)) \/ Lock(r) \/ Ensure(r)
    BY <1>1, <2>1, AnswerOfOther, AnswerOfSelf, OthersUntouched DEF AnswerInv
  <2>2. CASE \/ \E r \in Requests : LateWrite(r) \/ LateLost(r)
             \/ \E c \in Clients : Operator(c)
    <3>1. UNCHANGED <<pc, result, client, desired>>
      BY <2>2 DEF LateWrite, LateLost, Operator
    <3>2. QED
      BY <1>1, <3>1, AnswerOfOther
  <2>3. QED
    BY <1>1, <2>1, <2>2 DEF Next
<1>5. QED
  BY <1>2, <1>3, <1>4 DEF AnswerInv, Answers

\* With any number of replicas, failures, late writes and operators, success means
\* that Hydra held the desired client during the call, and a client that was
\* somebody else's all along was not written and the request failed.
THEOREM AnswersTellTheTruth ==
  HistorySpec => [](HistoryTypeOK /\ SuccessWasHeld /\ ForeignClientRespected)
<1>1. HistoryInit => AnswerInv
  BY InitLocks DEF HistoryInit, Init, AnswerInv, ObservedTypes, Answers
<1>2. AnswerInv => HistoryTypeOK /\ SuccessWasHeld /\ ForeignClientRespected
  BY DEF AnswerInv, LockInv, HistoryTypeOK, ObservedTypes, Answers, SuccessWasHeld,
         ForeignClientRespected
<1>3. QED
  BY <1>1, <1>2, NextAnswer, PTL DEF HistorySpec

-----------------------------------------------------------------------------
\* EnsureCIMDClient registers a client in one step or not at all.

\* A request under way has a call, which is pending until its result stands.
LEMMA CallOf ==
  ASSUME LockInv, NEW r \in Requests
  PROVE  /\ pc[r] = "idle" => Called[r] = None
         /\ pc[r] # "idle" =>
              /\ client[r] \in Clients /\ desired[r] \in Versions
              /\ Called[r] # None
              /\ Called[r].client = client[r] /\ Called[r].version = desired[r]
              /\ pc[r] = "return" => Called[r].end = result[r]
              /\ pc[r] # "return" => Called[r].end = "pending"
         /\ Registers!Pending(r) <=> pc[r] \notin {"idle", "return"}
<1> USE RegistersAssumption DEF LockInv, TypeOK, Wanted, Called
<1>1. result[r] \in {"ok", "error"}
  OBVIOUS
<1>2. CASE pc[r] = "idle"
  BY <1>2 DEF Registers!Pending
<1>3. CASE pc[r] # "idle"
  BY <1>1, <1>3 DEF Registers!Pending
<1>4. QED
  BY <1>2, <1>3

\* What an abandoned write is about, if there is one.
LEMMA UnsettledOf ==
  ASSUME LockInv, NEW r \in Requests
  PROVE  /\ late[r] = None => Unsettled[r] = None
         /\ late[r] # None =>
              /\ Unsettled[r] # None
              /\ Unsettled[r].client = late[r].client /\ late[r].client \in Clients
              /\ Unsettled[r].version = late[r].version
BY RegistersAssumption DEF LockInv, TypeOK, Unsettled, Writes

\* A step that leaves a request inside its call does not show.
LEMMA LooksTheSame ==
  ASSUME LockInv, NEW r \in Requests, UNCHANGED <<hydra, client, desired, late, trouble>>,
         pc[r] \notin {"idle", "return"}, pc'[r] \notin {"idle", "return"},
         \A q \in Requests \ {r} : pc'[q] = pc[q] /\ result'[q] = result[q]
  PROVE  UNCHANGED Registers!registrationVars
<1>1. Called' = Called
  BY DEF Called
<1>2. Unsettled' = Unsettled
  BY DEF Unsettled
<1>3. QED
  BY <1>1, <1>2 DEF Registers!registrationVars

\* A step that ends a call.
LEMMA EndsCall ==
  ASSUME LockInv, NEW r \in Requests, NEW outcome,
         pc[r] \notin {"idle", "return"}, Finish(r, outcome), UNCHANGED <<client, desired>>
  PROVE  /\ Registers!Pending(r)
         /\ Called' = [Called EXCEPT ![r].end = outcome]
<1>1. Registers!Pending(r)
  BY CallOf
<1>2. Called' = [Called EXCEPT ![r].end = outcome]
  BY DEF Called, Finish, LockInv, TypeOK
<1>3. QED
  BY <1>1, <1>2

\* Hydra holds what the request wants: it has been written, or was there.
LEMMA Succeeds ==
  ASSUME LockInv, NEW r \in Requests, FoundEqual(r) \/ Create(r) \/ Put(r)
  PROVE  Registers!Register(r)
<1>1. /\ pc[r] \notin {"idle", "return"} /\ Finish(r, "ok")
      /\ UNCHANGED <<client, desired, late, trouble>>
  BY DEF FoundEqual, Lookup, Create, Put, Written
<1>2. Registers!Pending(r) /\ Called' = [Called EXCEPT ![r].end = "ok"]
  BY <1>1, EndsCall
<1>3. hydra' = [hydra EXCEPT ![client[r]] = Managed(desired[r])]
  BY DEF FoundEqual, Lookup, hydraClientsEqual, Create, Put, Written, LockInv, TypeOK
<1>4. hydra' = [hydra EXCEPT ![Called[r].client] = Registers!Registered(Called[r].version)]
  BY <1>1, <1>3, CallOf DEF Managed, Registers!Registered
<1>5. Unsettled' = Unsettled
  BY <1>1 DEF Unsettled
<1>6. QED
  BY <1>1, <1>2, <1>4, <1>5 DEF Registers!Register

\* A call that fails leaves Hydra as it is, and there has been trouble.
LEMMA Fails ==
  ASSUME LockInv, RaceInv', NEW r \in Requests,
         \/ FoundUnmanaged(r) \/ NotFoundAgain(r) \/ LookupFailed(r)
         \/ CreateAbandoned(r) \/ PutNotFound(r) \/ PutAbandoned(r)
  PROVE  Registers!Fail(r)
<1> USE HydraAssumption
<1>1. /\ pc[r] \notin {"idle", "return"} /\ Finish(r, "error")
      /\ UNCHANGED <<hydra, client, desired>>
  BY DEF FoundUnmanaged, NotFoundAgain, Lookup, LookupFailed, CreateAbandoned,
         PutNotFound, PutAbandoned, Abandoned
<1>2. Registers!Pending(r) /\ Called' = [Called EXCEPT ![r].end = "error"]
  BY <1>1, EndsCall
<1>3. trouble' \in Nat /\ trouble' # 0
  <2>1. pc'[r] = "return" /\ result'[r] = "error"
    BY <1>1 DEF Finish, LockInv, TypeOK
  <2>2. QED
    BY <2>1 DEF RaceInv, LockInv, TypeOK, RacesResolve
<1>4. CASE FoundUnmanaged(r) \/ NotFoundAgain(r) \/ PutNotFound(r)
  <2>1. UNCHANGED <<late, trouble>>
    BY <1>4 DEF FoundUnmanaged, NotFoundAgain, Lookup, PutNotFound
  <2>2. Unsettled' = Unsettled
    BY <2>1 DEF Unsettled
  <2>3. QED
    BY <1>1, <1>2, <1>3, <2>1, <2>2 DEF Registers!Fail
<1>5. CASE LookupFailed(r)
  <2>1. trouble' = trouble + 1 /\ UNCHANGED late
    BY <1>5 DEF LookupFailed, MoreTrouble
  <2>2. Unsettled' = Unsettled
    BY <2>1 DEF Unsettled
  <2>3. QED
    BY <1>1, <1>2, <2>1, <2>2 DEF Registers!Fail
<1>6. CASE CreateAbandoned(r) \/ PutAbandoned(r)
  <2>1. PICK method \in {"POST", "PUT"} :
          late' = [late EXCEPT ![r] =
                     [method |-> method, client |-> client[r], version |-> desired[r]]]
    BY <1>6 DEF CreateAbandoned, PutAbandoned, Abandoned
  <2>2. trouble' = trouble + 1
    BY <1>6 DEF CreateAbandoned, PutAbandoned, Abandoned, MoreTrouble
  <2>3. [method |-> method, client |-> client[r], version |-> desired[r]] # None
    BY <1>1, CallOf, RegistersAssumption DEF Writes
  <2>4. Unsettled' = [Unsettled EXCEPT ![r] = [client |-> client[r], version |-> desired[r]]]
    BY <2>1, <2>3 DEF Unsettled, LockInv, TypeOK
  <2>5. Called[r].client = client[r] /\ Called[r].version = desired[r]
    BY <1>1, CallOf
  <2>6. QED
    BY <1>1, <1>2, <2>2, <2>4, <2>5 DEF Registers!Fail
<1>7. QED
  BY <1>4, <1>5, <1>6

\* Every step of the requests, of late writes and of operators is one that is
\* allowed, or does not show.
LEMMA StepRegisters ==
  ASSUME RaceInv, RaceInv', [Next]_vars
  PROVE  [Registers!Next]_Registers!registrationVars
<1> USE HydraAssumption
<1>0. LockInv
  BY DEF RaceInv
<1>1. CASE UNCHANGED vars
  BY <1>1 DEF vars, Called, Unsettled, Registers!registrationVars
<1>2. ASSUME NEW r \in Requests, NEW c \in Clients, NEW v \in Versions, Begin(r, c, v)
      PROVE  Registers!Ask(r, c, v)
  <2>1. Called[r] = None /\ Unsettled[r] = None
    BY <1>0, <1>2, CallOf, UnsettledOf DEF Begin
  <2>2. Called' = [Called EXCEPT ![r] = [client |-> c, version |-> v, end |-> "pending"]]
    BY <1>0, <1>2 DEF Begin, Called, LockInv, TypeOK
  <2>3. Unsettled' = Unsettled /\ UNCHANGED <<hydra, trouble>>
    BY <1>2 DEF Begin, Unsettled
  <2>4. QED
    BY <2>1, <2>2, <2>3 DEF Registers!Ask
<1>3. ASSUME NEW r \in Requests,
             Lock(r) \/ FoundDifferent(r) \/ NotFound(r) \/ CreateConflict(r)
      PROVE  UNCHANGED Registers!registrationVars
  <2>1. /\ UNCHANGED <<hydra, client, desired, late, trouble>>
        /\ pc[r] \notin {"idle", "return"} /\ pc'[r] \notin {"idle", "return"}
        /\ \A q \in Requests \ {r} : pc'[q] = pc[q] /\ result'[q] = result[q]
    BY <1>0, <1>3 DEF Lock, FoundDifferent, NotFound, Lookup, CreateConflict, AfterConflict,
                      LockInv, TypeOK
  <2>2. QED
    BY <1>0, <2>1, LooksTheSame
<1>4. ASSUME NEW r \in Requests, Unlock(r) PROVE Registers!Return(r)
  <2>1. Called[r] # None /\ ~Registers!Pending(r)
    BY <1>0, <1>4, CallOf DEF Unlock
  <2>2. Called' = [Called EXCEPT ![r] = None]
    BY <1>0, <1>4 DEF Unlock, Called, LockInv, TypeOK
  <2>3. Unsettled' = Unsettled /\ UNCHANGED <<hydra, trouble>>
    BY <1>4 DEF Unlock, Unsettled
  <2>4. QED
    BY <2>1, <2>2, <2>3 DEF Registers!Return
<1>5. ASSUME NEW r \in Requests, LateWrite(r) \/ LateLost(r) PROVE Registers!Settle(r)
  <2>1. Unsettled[r] # None /\ late[r] # None
    BY <1>0, <1>5, UnsettledOf DEF LateWrite, LateLost
  <2>2. Unsettled' = [Unsettled EXCEPT ![r] = None]
    BY <1>0, <1>5 DEF LateWrite, LateLost, Unsettled, LockInv, TypeOK
  <2>3. Called' = Called /\ trouble' = trouble
    BY <1>5 DEF LateWrite, LateLost, Called
  <2>4. \/ hydra' = hydra
        \/ hydra' = [hydra EXCEPT ![late[r].client] = Managed(late[r].version)]
    BY <1>5 DEF LateWrite, LateLost
  <2>5. \/ hydra' = hydra
        \/ hydra' = [hydra EXCEPT ![Unsettled[r].client] =
                       Registers!Registered(Unsettled[r].version)]
    BY <1>0, <2>1, <2>4, UnsettledOf DEF Managed, Registers!Registered
  <2>6. QED
    BY <2>1, <2>2, <2>3, <2>5 DEF Registers!Settle
<1>6. ASSUME NEW c \in Clients, Operator(c) PROVE Registers!Operator(c)
  <2>1. PICK registration \in Stored : hydra' = [hydra EXCEPT ![c] = registration]
    BY <1>6 DEF Operator
  <2>2. registration \in [managed : BOOLEAN, version : Versions \cup {None}]
    <3>1. CASE registration \in Registrations
      BY <3>1 DEF Registrations
    <3>2. CASE registration = Absent
      BY <3>2, Zenon DEF Absent
    <3>3. QED
      BY <3>1, <3>2 DEF Stored
  <2>3. Called' = Called /\ Unsettled' = Unsettled /\ trouble' = trouble + 1
    BY <1>6 DEF Operator, MoreTrouble, Called, Unsettled
  <2>4. QED
    BY <2>1, <2>2, <2>3 DEF Registers!Operator
<1>7. ASSUME NEW r \in Requests, Ensure(r)
      PROVE  \/ Registers!Register(r) \/ Registers!Fail(r) \/ Registers!Return(r)
             \/ UNCHANGED Registers!registrationVars
  BY <1>0, <1>3, <1>4, <1>7, Succeeds, Fails DEF Ensure
<1>8. CASE Next
  BY <1>2, <1>3, <1>5, <1>6, <1>7, <1>8 DEF Next, Registers!Next
<1>9. QED
  BY <1>1, <1>8

\* EnsureCIMDClient keeps the promise of ClientRegistrations, for any number of
\* requests, replicas, clients and locks: its three or four calls to Hydra look
\* like one registration or like none.
THEOREM ClientsAreRegistered == Spec => ImplementsRegistrations
<1>1. Init => Registers!Init
  BY DEF Init, Absent, Called, Unsettled, Registers!Init
<1>2. Init => RaceInv
  BY InitLocks DEF Init, RaceInv, CalmInv, Calm, RacesResolve
<1>3. RaceInv /\ RaceInv' /\ [Next]_vars => [Registers!Next]_Registers!registrationVars
  BY StepRegisters
<1>4. QED
  BY <1>1, <1>2, <1>3, NextRace, PTL DEF Spec, ImplementsRegistrations, Registers!Spec

=============================================================================
