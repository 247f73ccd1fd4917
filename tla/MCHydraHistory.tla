--------------------------- MODULE MCHydraHistory ---------------------------
(***************************************************************************)
(* Instances of HydraClientsHistory for TLC: two replicas.                 *)
(***************************************************************************)
EXTENDS HydraClientsHistory, HydraRegistrations, TLC

CONSTANTS r1, r2, r3, a, b, c1, c2, l1, l2, v1, v2

\* r1 on replica a, the others on replica b.
TwoReplicas == [r \in Requests |-> IF r = r1 THEN a ELSE b]

SharedLock == [c \in Clients |-> l1]

VersionSymmetry == Permutations(Versions)
=============================================================================
