------------------------- MODULE HydraClientsHistory -------------------------
(***************************************************************************)
(* HydraClients with history variables that observe, from the start of a   *)
(* request's EnsureCIMDClient, what Hydra has held for its client.         *)
(***************************************************************************)
EXTENDS HydraClients

VARIABLES
  held,         \* Hydra held the desired registration at some moment of the call
  unmanaged     \* Hydra held an unmanaged client at every moment of the call

historyVars == <<vars, held, unmanaged>>

Unmanaged(registration) ==
  registration # Absent /\ ~registration.managed

HistoryTypeOK ==
  /\ TypeOK
  /\ held \in [Requests -> BOOLEAN]
  /\ unmanaged \in [Requests -> BOOLEAN]

HistoryInit ==
  /\ Init
  /\ held = [r \in Requests |-> FALSE]
  /\ unmanaged = [r \in Requests |-> FALSE]

\* The state after the step is another moment of every call under way.
Observe ==
  /\ held' = [r \in Requests |->
       pc'[r] # "idle" /\ (held[r] \/ hydra'[client'[r]] = Managed(desired'[r]))]
  /\ unmanaged' = [r \in Requests |->
       /\ pc'[r] # "idle"
       /\ pc[r] = "idle" \/ unmanaged[r]
       /\ Unmanaged(hydra'[client'[r]])]

HistoryNext == Next /\ Observe

HistorySpec == HistoryInit /\ [][HistoryNext]_historyVars

-----------------------------------------------------------------------------
\* Success means that Hydra did hold the desired client, with its marker, while
\* the request ran: an authorization that goes on to Hydra was registered for
\* (lines 107 to 138), whichever replica wrote it.
SuccessWasHeld ==
  \A r \in Requests : pc[r] = "return" /\ result[r] = "ok" => held[r]

\* A client that is somebody else's for as long as the request runs is never
\* written by it, and the request fails (lines 111 to 114 and 128 to 134).
ForeignClientRespected ==
  \A r \in Requests : unmanaged[r] =>
    /\ pc[r] \notin {"create", "put"}
    /\ pc[r] = "return" => result[r] = "error"

=============================================================================
