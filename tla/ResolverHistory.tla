--------------------------- MODULE ResolverHistory ---------------------------
(***************************************************************************)
(* MetadataResolver with history variables: what the callers of Resolve    *)
(* have been given, and when fetches of each host were admitted.  The      *)
(* history only observes; every step is a step of MetadataResolver.        *)
(***************************************************************************)
EXTENDS MetadataResolver

VARIABLES
  seen,       \* the newest document any finished call returned, by client
  floor,      \* what seen was when the caller's call started
  admitted    \* the clock reading that admitted the last fetch of each host

history == <<seen, floor, admitted>>
historyVars == <<vars, history>>

HistoryInit ==
  /\ Init
  /\ seen = [c \in ClientIDs |-> -1]
  /\ floor = [p \in Callers |-> -1]
  /\ admitted = [h \in Hosts |-> -HostRetryDelay]

Newest(p, old) ==
  IF result[p].err = "none" /\ result[p].metadata.asOf > old
    THEN result[p].metadata.asOf ELSE old

BeginSeen(p) ==
  \E c \in ClientIDs :
    /\ BeginResolve(p, c)
    /\ floor' = [floor EXCEPT ![p] = seen[c]]
    /\ UNCHANGED <<seen, admitted>>

ReturnSeen(p) ==
  /\ Return(p)
  /\ seen' = [seen EXCEPT ![want[p]] = Newest(p, seen[want[p]])]
  /\ floor' = [floor EXCEPT ![p] = -1]
  /\ UNCHANGED admitted

LeadSeen(p) ==
  /\ Lead(p)
  /\ admitted' = [admitted EXCEPT ![HostOf[want[p]]] = start[p]]
  /\ UNCHANGED <<seen, floor>>

Silent(p) ==
  \/ Hit(p) \/ Join(p) \/ RateLimited(p) \/ Cancel(p)
  \/ AcquireSlot(p) \/ AbandonSlot(p) \/ Fetch(p) \/ Publish(p)
  \/ FollowerAnswered(p) \/ FollowerCancelled(p)

HistoryNext ==
  \/ Tick /\ UNCHANGED history
  \/ \E p \in Callers : BeginSeen(p) \/ ReturnSeen(p) \/ LeadSeen(p)
  \/ \E p \in Callers : Silent(p) /\ UNCHANGED history

HistorySpec == HistoryInit /\ [][HistoryNext]_historyVars

-----------------------------------------------------------------------------
\* A call that starts after another call for the same client returned never
\* sees an older document, although a no-store answer leaves the entry it
\* supersedes in the cache (lines 113 to 118) and the clock is read outside
\* the mutex (line 76).
MonotoneReads ==
  \A p \in Callers : pc[p] = "done" /\ result[p].err = "none" =>
    result[p].metadata.asOf >= floor[p]

\* As long as the table can hold every host, a fetch of a host is admitted no
\* sooner than a retry delay after the clock reading the previous one was
\* admitted with, whatever was evicted between them (lines 93 to 100).  The two
\* readings themselves may be closer: a caller that read the clock early may
\* find the record swept by one that read it later.
HostSpacing ==
  [][Cardinality(Hosts) <= HostEntries =>
       \A p \in Callers : pc[p] = "lookup" /\ pc'[p] = "slot" =>
         clock - admitted[HostOf[want[p]]] >= HostRetryDelay]_historyVars

=============================================================================
