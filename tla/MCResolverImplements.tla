------------------------ MODULE MCResolverImplements ------------------------
(***************************************************************************)
(* Instances of ResolverReads for TLC.                                     *)
(***************************************************************************)
EXTENDS ResolverReads, TLC

CONSTANTS c1, c2, h1, h2

\* Every client on one host, so that fetches of different clients meet.
OneHost == [c \in ClientIDs |-> h1]

\* An answer that is not cached, and one that is.
NoStoreOrTick == {0, 1}
=============================================================================
