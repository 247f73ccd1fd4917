------------------------ MODULE ClientRegistrations ------------------------
(***************************************************************************)
(* What EnsureCIMDClient promises to its callers and to Hydra, with no     *)
(* locks, no lookups and no conflicts: a call ends in success, and at one  *)
(* moment of it Hydra is given the client, or in an error, and Hydra is    *)
(* left alone for now.  Only a call that failed may be followed by a       *)
(* write, once, and calls fail only where there is trouble.  Nothing else  *)
(* but an operator changes Hydra.                                          *)
(***************************************************************************)
EXTENDS Integers

CONSTANTS
  Requests,       \* callers of EnsureCIMDClient
  Clients,        \* URL-form client ids
  Versions,       \* the contents of a client
  None            \* no call, no write, no client

Registered(v) == [managed |-> TRUE, version |-> v]

VARIABLES
  hydra,          \* Hydra's clients
  call,           \* the call of each request, and how it ended
  unsettled,      \* a write that may still follow a call that failed
  trouble         \* failures and operator changes so far

registrationVars == <<hydra, call, unsettled, trouble>>

Init ==
  /\ hydra = [c \in Clients |-> [managed |-> FALSE, version |-> None]]
  /\ call = [r \in Requests |-> None]
  /\ unsettled = [r \in Requests |-> None]
  /\ trouble = 0

Ask(r, c, v) ==
  /\ call[r] = None
  /\ unsettled[r] = None
  /\ call' = [call EXCEPT ![r] = [client |-> c, version |-> v, end |-> "pending"]]
  /\ UNCHANGED <<hydra, unsettled, trouble>>

Pending(r) == call[r] # None /\ call[r].end = "pending"

Register(r) ==
  /\ Pending(r)
  /\ hydra' = [hydra EXCEPT ![call[r].client] = Registered(call[r].version)]
  /\ call' = [call EXCEPT ![r].end = "ok"]
  /\ UNCHANGED <<unsettled, trouble>>

\* Trouble there has been before, or this is it, and then the write may be on its way.
Fail(r) ==
  /\ Pending(r)
  /\ call' = [call EXCEPT ![r].end = "error"]
  /\ \/ trouble > 0 /\ UNCHANGED <<unsettled, trouble>>
     \/ /\ trouble' = trouble + 1
        /\ \/ UNCHANGED unsettled
           \/ unsettled' = [unsettled EXCEPT ![r] =
                              [client |-> call[r].client, version |-> call[r].version]]
  /\ UNCHANGED hydra

Return(r) ==
  /\ call[r] # None
  /\ ~Pending(r)
  /\ call' = [call EXCEPT ![r] = None]
  /\ UNCHANGED <<hydra, unsettled, trouble>>

\* The write arrives, or is refused or lost.
Settle(r) ==
  /\ unsettled[r] # None
  /\ \/ UNCHANGED hydra
     \/ hydra' = [hydra EXCEPT ![unsettled[r].client] = Registered(unsettled[r].version)]
  /\ unsettled' = [unsettled EXCEPT ![r] = None]
  /\ UNCHANGED <<call, trouble>>

Operator(c) ==
  /\ \E registration \in [managed : BOOLEAN, version : Versions \cup {None}] :
       hydra' = [hydra EXCEPT ![c] = registration]
  /\ trouble' = trouble + 1
  /\ UNCHANGED <<call, unsettled>>

Next ==
  \/ \E r \in Requests :
       \/ \E c \in Clients, v \in Versions : Ask(r, c, v)
       \/ Register(r) \/ Fail(r) \/ Return(r) \/ Settle(r)
  \/ \E c \in Clients : Operator(c)

Spec == Init /\ [][Next]_registrationVars

=============================================================================
