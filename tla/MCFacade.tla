------------------------------ MODULE MCFacade ------------------------------
(***************************************************************************)
(* Instances of FacadeProcess for TLC.                                     *)
(***************************************************************************)
EXTENDS FacadeProcess

CONSTANTS c1, u, v

\* The document lists u at first and v from then on.
Replaced == [q \in ClientIDs \X (0..MaxTime) |-> IF q[2] = 0 THEN {u} ELSE {v}]
=============================================================================
