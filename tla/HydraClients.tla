---------------------------- MODULE HydraClients ----------------------------
(***************************************************************************)
(* The synchronisation of Client ID Metadata Documents into Hydra          *)
(* (src/internal/mcpoauth/hydra_clients.go).  Requests of several replicas *)
(* of the facade run EnsureCIMDClient: under a lock of their replica, they *)
(* read the client, then create it, replace it, or leave it.  Hydra serves *)
(* one admin call at a time.  A write whose caller gave up (timeout, lost  *)
(* connection, cancelled context) may still reach Hydra later, after the   *)
(* lock was released.  An operator may change a client at any moment.      *)
(***************************************************************************)
EXTENDS Integers

CONSTANTS
  Requests,       \* the goroutines that run EnsureCIMDClient
  Replicas,       \* facade processes, each with its own locks
  ReplicaOf,      \* the replica of each request
  Clients,        \* URL-form client ids
  LockIndexes,    \* indexes of the lock array (32 in the code)
  LockIndex,      \* clientLockIndex: which lock guards a client id
  Versions,       \* what hydraClientsEqual compares: the client's content
  None,           \* nobody, no client, nothing under way
  MaxTrouble      \* bound of the model: failures and operator changes

ASSUME HydraAssumption ==
  /\ ReplicaOf \in [Requests -> Replicas]
  /\ LockIndex \in [Clients -> LockIndexes]
  /\ MaxTrouble \in Nat
  /\ None \notin Requests /\ None \notin Clients /\ None \notin Versions

\* A client in Hydra carries the marker of the facade or it does not.
Registrations == [managed : BOOLEAN, version : Versions]
Absent == [managed |-> FALSE, version |-> None]
Managed(v) == [managed |-> TRUE, version |-> v]

Stored == Registrations \cup {Absent}

\* An admin write on its way to Hydra.
Writes == [method : {"POST", "PUT"}, client : Clients, version : Versions]

VARIABLES
  hydra,        \* Hydra's clients: client id -> registration
  locks,        \* m.locks of every replica: who holds each
  pc,           \* where each request is in EnsureCIMDClient
  client,       \* metadata.ClientID of each request
  desired,      \* the content each request wants Hydra to hold
  existing,     \* what the request's last GET returned
  result,       \* what EnsureCIMDClient returns
  late,         \* an abandoned write of each request still under way
  trouble       \* failures and operator changes so far

vars == <<hydra, locks, pc, client, desired, existing, result, late, trouble>>

Critical == {"get", "create", "reget", "put", "return"}

TypeOK ==
  /\ hydra \in [Clients -> Stored]
  /\ locks \in [Replicas \X LockIndexes -> Requests \cup {None}]
  /\ pc \in [Requests -> {"idle", "lock"} \cup Critical]
  /\ client \in [Requests -> Clients \cup {None}]
  /\ desired \in [Requests -> Versions \cup {None}]
  /\ existing \in [Requests -> Stored]
  /\ result \in [Requests -> {"ok", "error"}]
  /\ late \in [Requests -> Writes \cup {None}]
  /\ trouble \in 0..MaxTrouble

Init ==
  /\ hydra = [c \in Clients |-> Absent]
  /\ locks = [l \in Replicas \X LockIndexes |-> None]
  /\ pc = [r \in Requests |-> "idle"]
  /\ client = [r \in Requests |-> None]
  /\ desired = [r \in Requests |-> None]
  /\ existing = [r \in Requests |-> Absent]
  /\ result = [r \in Requests |-> "error"]
  /\ late = [r \in Requests |-> None]
  /\ trouble = 0

-----------------------------------------------------------------------------
\* Entry and exit.

LockOf(r) == <<ReplicaOf[r], LockIndex[client[r]]>>

\* Lines 75 to 101: a request with metadata of its own, fetched or cached.
\* Each request slot of the model abandons at most one write at a time.
Begin(r, c, v) ==
  /\ pc[r] = "idle"
  /\ late[r] = None
  /\ pc' = [pc EXCEPT ![r] = "lock"]
  /\ client' = [client EXCEPT ![r] = c]
  /\ desired' = [desired EXCEPT ![r] = v]
  /\ UNCHANGED <<hydra, locks, existing, result, late, trouble>>

\* Mutant: the lock is not taken exclusively.
AnyLock(r) == TRUE

LockFree(r) == locks[LockOf(r)] = None

\* Line 104; the wait ignores the request's context.
Lock(r) ==
  /\ pc[r] = "lock"
  /\ LockFree(r)
  /\ locks' = [locks EXCEPT ![LockOf(r)] = r]
  /\ pc' = [pc EXCEPT ![r] = "get"]
  /\ UNCHANGED <<hydra, client, desired, existing, result, late, trouble>>

\* Mutant: an early return without the deferred Unlock.
UnlockOnSuccess(r) ==
  /\ pc[r] = "return"
  /\ locks' = IF result[r] = "ok" THEN [locks EXCEPT ![LockOf(r)] = None] ELSE locks
  /\ pc' = [pc EXCEPT ![r] = "idle"]
  /\ client' = [client EXCEPT ![r] = None]
  /\ desired' = [desired EXCEPT ![r] = None]
  /\ existing' = [existing EXCEPT ![r] = Absent]
  /\ result' = [result EXCEPT ![r] = "error"]
  /\ UNCHANGED <<hydra, late, trouble>>

\* The deferred Unlock of line 105, on every return.
Unlock(r) ==
  /\ pc[r] = "return"
  /\ locks' = [locks EXCEPT ![LockOf(r)] = None]
  /\ pc' = [pc EXCEPT ![r] = "idle"]
  /\ client' = [client EXCEPT ![r] = None]
  /\ desired' = [desired EXCEPT ![r] = None]
  /\ existing' = [existing EXCEPT ![r] = Absent]
  /\ result' = [result EXCEPT ![r] = "error"]
  /\ UNCHANGED <<hydra, late, trouble>>

Finish(r, outcome) ==
  /\ pc' = [pc EXCEPT ![r] = "return"]
  /\ result' = [result EXCEPT ![r] = outcome]

MoreTrouble ==
  /\ trouble < MaxTrouble
  /\ trouble' = trouble + 1

-----------------------------------------------------------------------------
\* GET /admin/clients/{id}, first (line 107) or after a conflict (line 128).

Lookup(r) ==
  /\ pc[r] \in {"get", "reget"}
  /\ existing' = [existing EXCEPT ![r] = hydra[client[r]]]
  /\ UNCHANGED <<hydra, locks, client, desired, late, trouble>>

\* Mutant: every client found is taken for one of the facade's.
MarkerIgnored(registration) == registration # Absent

isManagedCIMDClient(registration) == registration.managed

\* Mutant: only the marker is compared, not the content.
EqualByMarker(registration, v) == registration.managed

hydraClientsEqual(registration, v) == registration = Managed(v)

FoundUnmanaged(r) ==
  /\ Lookup(r)
  /\ hydra[client[r]] # Absent
  /\ ~isManagedCIMDClient(hydra[client[r]])
  /\ Finish(r, "error")

FoundEqual(r) ==
  /\ Lookup(r)
  /\ hydra[client[r]] # Absent
  /\ isManagedCIMDClient(hydra[client[r]])
  /\ hydraClientsEqual(hydra[client[r]], desired[r])
  /\ Finish(r, "ok")

FoundDifferent(r) ==
  /\ Lookup(r)
  /\ hydra[client[r]] # Absent
  /\ isManagedCIMDClient(hydra[client[r]])
  /\ ~hydraClientsEqual(hydra[client[r]], desired[r])
  /\ pc' = [pc EXCEPT ![r] = "put"]
  /\ UNCHANGED result

NotFound(r) ==
  /\ Lookup(r)
  /\ pc[r] = "get"
  /\ hydra[client[r]] = Absent
  /\ pc' = [pc EXCEPT ![r] = "create"]
  /\ UNCHANGED result

\* Line 132: created by somebody when we tried, deleted when we looked.
NotFoundAgain(r) ==
  /\ Lookup(r)
  /\ pc[r] = "reget"
  /\ hydra[client[r]] = Absent
  /\ Finish(r, "error")

\* No answer, another status, or an undecodable or mismatched client.
LookupFailed(r) ==
  /\ pc[r] \in {"get", "reget"}
  /\ MoreTrouble
  /\ Finish(r, "error")
  /\ UNCHANGED <<hydra, locks, client, desired, existing, late>>

-----------------------------------------------------------------------------
\* POST and PUT.  Hydra refuses to create what exists (409) and to replace what
\* does not (404).

Accepts(method, c) == (method = "POST") = (hydra[c] = Absent)

Written(r, method) ==
  /\ Accepts(method, client[r])
  /\ hydra' = [hydra EXCEPT ![client[r]] = Managed(desired[r])]
  /\ Finish(r, "ok")
  /\ UNCHANGED <<locks, client, desired, existing, late, trouble>>

\* The request's end of the call fails, and the write is still under way.
Abandoned(r, method) ==
  /\ MoreTrouble
  /\ late' = [late EXCEPT ![r] =
                [method |-> method, client |-> client[r], version |-> desired[r]]]
  /\ Finish(r, "error")
  /\ UNCHANGED <<hydra, locks, client, desired, existing>>

Create(r) == pc[r] = "create" /\ Written(r, "POST")

\* Mutant: the conflict is reported instead of read again.
ConflictIsFinal(r) == Finish(r, "error")

AfterConflict(r) == pc' = [pc EXCEPT ![r] = "reget"] /\ UNCHANGED result

CreateConflict(r) ==
  /\ pc[r] = "create"
  /\ ~Accepts("POST", client[r])
  /\ AfterConflict(r)
  /\ UNCHANGED <<hydra, locks, client, desired, existing, late, trouble>>

CreateAbandoned(r) == pc[r] = "create" /\ Abandoned(r, "POST")

Put(r) == pc[r] = "put" /\ Written(r, "PUT")

PutNotFound(r) ==
  /\ pc[r] = "put"
  /\ ~Accepts("PUT", client[r])
  /\ Finish(r, "error")
  /\ UNCHANGED <<hydra, locks, client, desired, existing, late, trouble>>

PutAbandoned(r) == pc[r] = "put" /\ Abandoned(r, "PUT")

-----------------------------------------------------------------------------
\* The environment.

\* An abandoned write reaches Hydra, which answers nobody.
LateWrite(r) ==
  /\ late[r] # None
  /\ hydra' = IF Accepts(late[r].method, late[r].client)
                THEN [hydra EXCEPT ![late[r].client] = Managed(late[r].version)]
                ELSE hydra
  /\ late' = [late EXCEPT ![r] = None]
  /\ UNCHANGED <<locks, pc, client, desired, existing, result, trouble>>

\* An abandoned write never reaches Hydra.
LateLost(r) ==
  /\ late[r] # None
  /\ late' = [late EXCEPT ![r] = None]
  /\ UNCHANGED <<hydra, locks, pc, client, desired, existing, result, trouble>>

\* An operator creates, replaces, edits or deletes a client through Hydra.
Operator(c) ==
  /\ MoreTrouble
  /\ \E registration \in Stored \ {hydra[c]} :
       hydra' = [hydra EXCEPT ![c] = registration]
  /\ UNCHANGED <<locks, pc, client, desired, existing, result, late>>

-----------------------------------------------------------------------------
Ensure(r) ==
  \/ FoundUnmanaged(r) \/ FoundEqual(r) \/ FoundDifferent(r)
  \/ NotFound(r) \/ NotFoundAgain(r) \/ LookupFailed(r)
  \/ Create(r) \/ CreateConflict(r) \/ CreateAbandoned(r)
  \/ Put(r) \/ PutNotFound(r) \/ PutAbandoned(r)
  \/ Unlock(r)

Next ==
  \/ \E r \in Requests :
       \/ \E c \in Clients, v \in Versions : Begin(r, c, v)
       \/ Lock(r)
       \/ Ensure(r)
       \/ LateWrite(r)
       \/ LateLost(r)
  \/ \E c \in Clients : Operator(c)

\* The admin HTTP client's timeout ends every call, and Go's mutex hands itself
\* over to a waiter that has starved for long.
Fairness == \A r \in Requests : SF_vars(Lock(r)) /\ WF_vars(Ensure(r))

Spec == Init /\ [][Next]_vars

FairSpec == Spec /\ Fairness

-----------------------------------------------------------------------------
\* Safety.

\* A lock is held by exactly the requests between Lock and Unlock, one per lock:
\* two requests of a replica never synchronise one client at the same time,
\* and no return leaves a lock behind (lines 103 to 105).
LocksExclude ==
  /\ \A l \in Replicas \X LockIndexes : locks[l] # None =>
       pc[locks[l]] \in Critical /\ LockOf(locks[l]) = l
  /\ \A r \in Requests : pc[r] \in Critical => locks[LockOf(r)] = r

SingleReplica == \A r, s \in Requests : ReplicaOf[r] = ReplicaOf[s]

\* In a single replica, with no failure and no operator, the client a request is
\* about to write is still what its GET returned: no update is lost between the
\* GET and the POST or PUT (lines 103 to 120).
ReadIsCurrent ==
  trouble = 0 /\ SingleReplica =>
    \A r \in Requests :
      pc[r] \in {"create", "put"} => hydra[client[r]] = existing[r]

\* With no failure and no operator every request succeeds, whatever the replicas
\* do at the same time: a lost race to create the client ends in a re-read and,
\* if the contents differ, a replacement (lines 120 to 138).
RacesResolve ==
  trouble = 0 => \A r \in Requests : pc[r] = "return" => result[r] = "ok"

\* The facade leaves a client it does not manage alone: only an operator changes
\* it.  This is what the name of TestCIMDNeverOverwritesUnmanagedHydraClient
\* says of the manager (handler_test.go:536).
NeverOverwritesUnmanaged ==
  [][\A c \in Clients :
       /\ hydra[c] # Absent /\ ~hydra[c].managed
       /\ hydra'[c] # hydra[c]
       => trouble' = trouble + 1]_vars

-----------------------------------------------------------------------------
\* Liveness.

\* Every EnsureCIMDClient returns and gives its lock back, although waiting for
\* the lock ignores the context and different clients share locks.
EveryEnsureReturns == \A r \in Requests : pc[r] = "lock" ~> pc[r] = "idle"

=============================================================================
