-------------------------- MODULE MCResolverHistory --------------------------
(***************************************************************************)
(* Instances of ResolverHistory for TLC.                                   *)
(***************************************************************************)
EXTENDS ResolverHistory, TLC

CONSTANTS c1, c2, c3, h1, h2

TwoHosts == [c \in ClientIDs |-> IF c = c3 THEN h2 ELSE h1]

\* An answer that is not cached, and one that is.
NoStoreOrTick == {0, 1}

CallerSymmetry == Permutations(Callers)
=============================================================================
