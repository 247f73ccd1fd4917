------------------------------- MODULE Facade -------------------------------
(***************************************************************************)
(* The request handlers of the MCP OAuth facade                            *)
(* (src/internal/mcpoauth/handler.go, proxy_transport.go): the slots of    *)
(* the dynamic requests, and the authorization of a client known by the    *)
(* URL of its metadata document, which resolves the document, checks the   *)
(* redirect URI, synchronises the client into Hydra and passes the request *)
(* on.                                                                     *)
(*                                                                         *)
(* The resolver appears as DocumentReads, which MetadataResolver           *)
(* implements; EnsureCIMDClient as one step that registers the client, or  *)
(* fails, as ClientRegistrations has it, which HydraClients implements.    *)
(* The process the handlers run in is FacadeProcess.                       *)
(***************************************************************************)
EXTENDS Integers, FiniteSets

CONSTANTS
  Requests,             \* HTTP requests being served, each slot one at a time
  ClientIDs,            \* URL-form client ids
  Redirects,            \* redirect URIs
  Published,            \* redirect URIs of the document at <<client, time>>
  None,
  DynamicConcurrency,   \* dynamicConcurrency
  MaxAge,               \* what DocumentReads promises
  MaxTime               \* bound of the model: the clock stops here

ASSUME FacadeAssumption ==
  /\ IsFiniteSet(Requests)
  /\ Published \in [ClientIDs \X (0..MaxTime) -> (SUBSET Redirects) \ {{}}]
  /\ DynamicConcurrency \in Nat \ {0}
  /\ MaxAge \in Nat \ {0}
  /\ MaxTime \in Nat

\* Which handler serves a request.  "plain" stands for every one that takes no
\* slot: JWKS, token, revoke, errors, and the authorization of a client id that is
\* no URL or that carries a verifier.  "register" is the registration of a client
\* and its management.
Routes ==
  [kind : {"plain", "register"}, client : {None}, redirect : {None}]
    \cup [kind : {"authorize"}, client : ClientIDs, redirect : Redirects]

VARIABLES
  clock, asked, answer,     \* of DocumentReads
  route,                    \* the request being served
  pc,                       \* where its handler is
  outcome,                  \* what it was told
  dynamicSlots,             \* tokens in the channel h.dynamicSlots
  registered                \* Hydra: the redirect URIs of each client, none if unknown

served == <<route, pc, outcome>>
vars == <<clock, asked, answer, served, dynamicSlots, registered>>

Reads == INSTANCE DocumentReads WITH Readers <- Requests

Places == {"idle", "begin", "resolve", "ensure", "body", "proxy", "return"}
Outcomes == {"pending", "passed", "rejected", "failed", "exhausted"}

TypeOK ==
  /\ clock \in 0..MaxTime
  /\ asked \in [Requests -> Reads!Questions \cup {None}]
  /\ answer \in [Requests ->
       [err : {"none", "failed", "cancelled"}, metadata : Reads!Served \cup {None}]
         \cup {None}]
  /\ route \in [Requests -> Routes \cup {None}]
  /\ pc \in [Requests -> Places]
  /\ outcome \in [Requests -> Outcomes]
  /\ dynamicSlots \in 0..DynamicConcurrency
  /\ registered \in [ClientIDs -> SUBSET Redirects]

Init ==
  /\ Reads!Init
  /\ route = [r \in Requests |-> None]
  /\ pc = [r \in Requests |-> "idle"]
  /\ outcome = [r \in Requests |-> "pending"]
  /\ dynamicSlots = 0
  /\ registered = [c \in ClientIDs |-> {}]

\* The handler has written its answer and runs its deferred calls.
Respond(r, what) ==
  /\ pc' = [pc EXCEPT ![r] = "return"]
  /\ outcome' = [outcome EXCEPT ![r] = what]
  /\ UNCHANGED <<clock, route, dynamicSlots>>

Proceed(r, place) ==
  /\ pc' = [pc EXCEPT ![r] = place]
  /\ UNCHANGED <<clock, route, outcome>>

-----------------------------------------------------------------------------
\* beginDynamic and endDynamic.

\* A request passes the checks of its handler's protocol input.
Arrive(r, what) ==
  /\ pc[r] = "idle"
  /\ route' = [route EXCEPT ![r] = what]
  /\ pc' = [pc EXCEPT ![r] = IF what.kind = "plain" THEN "proxy" ELSE "begin"]
  /\ UNCHANGED <<clock, asked, answer, outcome, dynamicSlots, registered>>

beginDynamic(r, place) ==
  /\ pc[r] = "begin"
  /\ dynamicSlots < DynamicConcurrency
  /\ dynamicSlots' = dynamicSlots + 1
  /\ Proceed(r, place)

BeginAuthorize(r) ==
  /\ beginDynamic(r, "resolve")
  /\ route[r].kind = "authorize"
  /\ Reads!Ask(r, route[r].client)
  /\ UNCHANGED registered

BeginRegister(r) ==
  /\ beginDynamic(r, "body")
  /\ route[r].kind = "register"
  /\ UNCHANGED <<asked, answer, registered>>

\* Mutant: the select has no default, and the request waits for a slot.
WaitForSlot(r) == FALSE

\* Retry-After and 503; nothing was taken.
Exhausted(r) ==
  /\ pc[r] = "begin"
  /\ dynamicSlots = DynamicConcurrency
  /\ Respond(r, "exhausted")
  /\ UNCHANGED <<asked, answer, registered>>

\* Mutant: endDynamic is called on success instead of deferred.
ReleasedOnSuccess(r) ==
  route[r].kind # "plain" /\ outcome[r] \in {"passed", "rejected"}

\* Whether the handler has deferred endDynamic.
Deferred(r) == route[r].kind # "plain" /\ outcome[r] # "exhausted"

Return(r) ==
  /\ pc[r] = "return"
  /\ dynamicSlots' = IF Deferred(r) THEN dynamicSlots - 1 ELSE dynamicSlots
  /\ pc' = [pc EXCEPT ![r] = "idle"]
  /\ route' = [route EXCEPT ![r] = None]
  /\ outcome' = [outcome EXCEPT ![r] = "pending"]
  /\ IF answer[r] # None THEN Reads!Leave(r) ELSE UNCHANGED <<clock, asked, answer>>
  /\ UNCHANGED registered

-----------------------------------------------------------------------------
\* handleAuthorize for a URL-form client id, lines 196 to 218.

\* Resolve returns to the handler (DocumentReads decides with what).
ResolveReturns(r) ==
  /\ Reads!Reply(r)
  /\ UNCHANGED <<served, dynamicSlots, registered>>

RedirectURIs(document) == Published[<<document.client, document.asOf>>]

ResolveFailed(r) ==
  /\ pc[r] = "resolve"
  /\ answer[r] # None
  /\ answer[r].err # "none"
  /\ Respond(r, "failed")
  /\ UNCHANGED <<asked, answer, registered>>

\* Mutant: the redirect URI is left for Hydra to check.
NoRedirectCheck(r) == TRUE

RedirectListed(r) == route[r].redirect \in RedirectURIs(answer[r].metadata)

RedirectRefused(r) ==
  /\ pc[r] = "resolve"
  /\ answer[r] # None
  /\ answer[r].err = "none"
  /\ ~RedirectListed(r)
  /\ Respond(r, "failed")
  /\ UNCHANGED <<asked, answer, registered>>

RedirectAccepted(r) ==
  /\ pc[r] = "resolve"
  /\ answer[r] # None
  /\ answer[r].err = "none"
  /\ RedirectListed(r)
  /\ Proceed(r, "ensure")
  /\ UNCHANGED <<asked, answer, dynamicSlots, registered>>

EnsureCIMDClient(r) ==
  /\ pc[r] = "ensure"
  /\ registered' = [registered EXCEPT ![route[r].client] =
                      RedirectURIs(answer[r].metadata)]
  /\ Proceed(r, "proxy")
  /\ UNCHANGED <<asked, answer, dynamicSlots>>

EnsureFailed(r) ==
  /\ pc[r] = "ensure"
  /\ Respond(r, "failed")
  /\ UNCHANGED <<asked, answer, registered>>

-----------------------------------------------------------------------------
\* handleRegister and handleRegistrationManagement: the body arrives while the
\* slot is held, and is read and normalised or refused.

BodyAccepted(r) ==
  /\ pc[r] = "body"
  /\ Proceed(r, "proxy")
  /\ UNCHANGED <<asked, answer, dynamicSlots, registered>>

BodyRefused(r) ==
  /\ pc[r] = "body"
  /\ Respond(r, "failed")
  /\ UNCHANGED <<asked, answer, registered>>

-----------------------------------------------------------------------------
\* proxy: Hydra answers, or the call fails or its answer cannot be used.

\* Hydra passes an authorization on to login when the client is registered with
\* the redirect URI, and rejects it otherwise.
HydraPasses(r) ==
  IF route[r].kind = "authorize"
    THEN route[r].redirect \in registered[route[r].client]
    ELSE TRUE

Proxied(r) ==
  /\ pc[r] = "proxy"
  /\ Respond(r, IF HydraPasses(r) THEN "passed" ELSE "rejected")
  /\ UNCHANGED <<asked, answer, registered>>

ProxyFailed(r) ==
  /\ pc[r] = "proxy"
  /\ Respond(r, "failed")
  /\ UNCHANGED <<asked, answer, registered>>

-----------------------------------------------------------------------------
\* The environment: another replica, or a write that arrives late, registers what
\* some document of the client has said; time passes.
OtherReplica(c) ==
  /\ \E t \in 0..clock : registered' = [registered EXCEPT ![c] = Published[<<c, t>>]]
  /\ UNCHANGED <<clock, asked, answer, served, dynamicSlots>>

Tick == Reads!Tick /\ UNCHANGED <<served, dynamicSlots, registered>>

Serve(r) ==
  \/ BeginAuthorize(r) \/ BeginRegister(r) \/ Exhausted(r)
  \/ ResolveReturns(r) \/ ResolveFailed(r)
  \/ RedirectRefused(r) \/ RedirectAccepted(r)
  \/ EnsureCIMDClient(r) \/ EnsureFailed(r)
  \/ BodyAccepted(r) \/ BodyRefused(r)
  \/ Proxied(r) \/ ProxyFailed(r)
  \/ Return(r)

-----------------------------------------------------------------------------
\* Safety.

\* The tokens in the channel are exactly the dynamic requests that were admitted
\* and have not returned: whichever way a handler ends, it gives back the slot it
\* took and no other (lines 200 to 203, 297 to 300, 329 to 332, 380 to 393).
DynamicSlotsHeld ==
  dynamicSlots = Cardinality({r \in Requests :
    /\ pc[r] \notin {"idle", "begin"}
    /\ route[r].kind # "plain"
    /\ outcome[r] # "exhausted"})

\* An authorization that Hydra passes on to login has a redirect URI that the
\* client's own document listed after the request or less than MaxAge before it,
\* even if another replica has meanwhile registered an older document.
PassedRedirect ==
  \A r \in Requests :
    outcome[r] = "passed" /\ route[r].kind = "authorize" =>
      \E t \in 0..clock :
        /\ asked[r].since - t < MaxAge
        /\ route[r].redirect \in Published[<<route[r].client, t>>]

\* Hydra never sees an authorization of a client it has not been told of: an
\* authorization goes on to Hydra only after its client was synchronised.
KnownToHydra ==
  \A r \in Requests :
    pc[r] = "proxy" /\ route[r].kind = "authorize" => registered[route[r].client] # {}

=============================================================================
