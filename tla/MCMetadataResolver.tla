------------------------- MODULE MCMetadataResolver -------------------------
(***************************************************************************)
(* Instances of MetadataResolver for TLC.                                  *)
(***************************************************************************)
EXTENDS MetadataResolver, TLC

CONSTANTS c1, c2, c3, h1, h2, h3

\* Each client on a host of its own.
HostPerClient ==
  [c \in ClientIDs |-> CASE c = c1 -> h1 [] c = c2 -> h2 [] OTHER -> h3]

\* -1 is what metadataCacheTTL returns when the multiplication of a huge max-age
\* overflows.
OverflowOrTick == {-1, 1}

CallerSymmetry == Permutations(Callers)
=============================================================================
