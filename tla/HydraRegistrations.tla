------------------------- MODULE HydraRegistrations -------------------------
(***************************************************************************)
(* HydraClients implements ClientRegistrations: the lock, the lookups and  *)
(* the second attempt after a conflict are invisible to the callers of     *)
(* EnsureCIMDClient and to whoever reads Hydra.                            *)
(***************************************************************************)
EXTENDS HydraClients

\* The call of a request inside EnsureCIMDClient, which ends when its result stands.
Called == [r \in Requests |->
             IF pc[r] = "idle" THEN None
             ELSE [client |-> client[r], version |-> desired[r],
                   end |-> IF pc[r] = "return" THEN result[r] ELSE "pending"]]

Unsettled == [r \in Requests |->
                IF late[r] = None THEN None
                ELSE [client |-> late[r].client, version |-> late[r].version]]

Registers == INSTANCE ClientRegistrations WITH call <- Called, unsettled <- Unsettled

ASSUME RegistersAssumption ==
  /\ None \notin Writes
  /\ None \notin [client : Clients, version : Versions]
  /\ None \notin [client : Clients, version : Versions, end : {"pending", "ok", "error"}]

\* Every behaviour of EnsureCIMDClient, of any number of replicas, is one
\* ClientRegistrations allows: a call that succeeds has given Hydra its client at one
\* moment of the call, also where it found it there or lost a race to create it (lines 107
\* to 139), and one that fails has not, though its write may follow.
ImplementsRegistrations == Registers!Spec

=============================================================================
