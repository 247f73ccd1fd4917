--------------------------- MODULE MCHydraClients ---------------------------
(***************************************************************************)
(* Instances of HydraClients for TLC: one replica.                         *)
(***************************************************************************)
EXTENDS HydraClients

CONSTANTS r1, r2, r3, a, b, c1, c2, l1, l2, v1, v2

OneReplica == [r \in Requests |-> a]

\* Two clients that hash to the same lock.
SharedLock == [c \in Clients |-> l1]
=============================================================================
