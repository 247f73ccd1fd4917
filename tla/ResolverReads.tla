--------------------------- MODULE ResolverReads ---------------------------
(***************************************************************************)
(* MetadataResolver implements DocumentReads: the cache, the calls in      *)
(* flight and the limits are invisible to the callers of Resolve.          *)
(***************************************************************************)
EXTENDS MetadataResolver

\* The question a caller inside Resolve has asked, and its answer once Resolve
\* has returned.
Asked == [p \in Callers |->
            IF pc[p] = "idle" THEN None ELSE [client |-> want[p], since |-> start[p]]]

Given == [p \in Callers |-> IF pc[p] = "done" THEN result[p] ELSE None]

Reads == INSTANCE DocumentReads WITH
           Readers <- Callers,
           MaxAge <- FetchTimeout + MaximumCacheTTL,
           asked <- Asked,
           answer <- Given

ASSUME ReadsAssumption ==
  /\ None \notin [client : ClientIDs \cup {None}, since : Time]
  /\ None \notin Results

\* Every behaviour of Resolve is one DocumentReads allows: callers see errors and
\* fresh documents of their client only, and each is answered once per call.
ImplementsReads == Reads!Spec

=============================================================================
