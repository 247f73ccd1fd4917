--------------------------- MODULE ClientDocuments ---------------------------
(***************************************************************************)
(* What becomes of the metadata a client supplies, on the three ways it    *)
(* enters the MCP OAuth facade (src/internal/mcpoauth): a registration and *)
(* its update (handler.go), which go to Hydra at once, and the document of *)
(* a URL-form client, which is fetched over a connection of MetadataDial   *)
(* and normalised (metadata_resolver.go), kept for a while, and normalised *)
(* again when it is synchronised with Hydra (hydra_clients.go).            *)
(***************************************************************************)
EXTENDS ClientMetadata, CacheControl, MetadataDial

CONSTANTS
  Deviations,   \* bound of the model: fields that differ from a valid document
  Seconds,      \* bound of the model: the arguments of max-age
  MaxDirectives \* bound of the model: the directives of a header

ASSUME DocumentsAssumption ==
  Deviations \in Nat /\ MaxDirectives \in Nat /\ Seconds \subseteq Int

Documents ==
  Near(Document, Fields, Deviations) \cup Near(SignedDocument, Fields, Deviations)

Directives ==
  {[name |-> name, argument |-> <<>>] : name \in {"no-store", "no-cache", "max-age", "public"}}
    \cup {[name |-> "max-age", argument |-> <<seconds>>] : seconds \in Seconds \cup {-1}}

Headers == UNION {[1..n -> Directives] : n \in 0..MaxDirectives}

-----------------------------------------------------------------------------
\* What Hydra is sent of a client, without the scope, the audience and the consent
\* settings, which are the facade's own and always the same.
SentOf(metadata, method) ==
  [redirect_uris |-> metadata.redirect_uris,
   grant_types |-> metadata.grant_types,
   token_endpoint_auth_method |-> method,
   token_endpoint_auth_signing_alg |-> metadata.token_endpoint_auth_signing_alg,
   jwks_uri |-> metadata.jwks_uri]

Refused(error) == [error |-> error, sent |-> <<>>]

Accepted(sent) == [error |-> "none", sent |-> sent]

\* The signing metadata has been cleared: the method of a registration is "none".
hydraDynamicRegistration(metadata) == SentOf(metadata, "none")

handleRegister(metadata, readable) ==
  IF ~readable \/ UnsafeFields(metadata, FALSE) THEN Refused("invalid_client_metadata")
    ELSE IF MetadataError(metadata, FALSE) # "none"
           THEN Refused(MetadataError(metadata, FALSE))
           ELSE Accepted(hydraDynamicRegistration(Normalized(metadata, FALSE)))

\* The PUT of a registration, whose every error has the same code.
handleUpdate(metadata, readable) ==
  LET anonymous == [metadata EXCEPT !.client_id = <<>>]
  IN IF \/ ~readable \/ UnsafeFields(metadata, TRUE)
        \/ ClientIDOf(metadata) \notin {"", "own"}
        \/ MetadataError(anonymous, FALSE) # "none"
       THEN Refused("invalid_client_metadata")
       ELSE Accepted(hydraDynamicRegistration(Normalized(anonymous, FALSE)))

fetch(metadata, readable) ==
  IF \/ ~readable \/ UnsafeFields(metadata, TRUE)
     \/ ClientIDOf(metadata) # "own"
     \/ MetadataError(metadata, TRUE) # "none"
    THEN Refused("client metadata could not be resolved")
    ELSE Accepted(Normalized(metadata, TRUE))

\* EnsureCIMDClient up to the lock.
EnsureCIMDClient(metadata) ==
  IF MetadataError(metadata, TRUE) # "none"
    THEN Refused("client could not be synchronized")
    ELSE LET normalized == Normalized(metadata, TRUE)
         IN Accepted(SentOf(normalized, normalized.token_endpoint_auth_method))

-----------------------------------------------------------------------------
VARIABLES
  stage,      \* "none", "register", "update", "document" or "client"
  supplied,   \* the metadata the client supplied
  header,     \* the first line of the Cache-Control header of its document
  lifetime,   \* how long the document may be kept
  outcome     \* the error or the metadata of the stage

vars == <<stage, supplied, header, lifetime, outcome, dial>>

Idle == /\ stage = "none"
        /\ supplied = <<>> /\ header = <<>> /\ lifetime = 0 /\ outcome = <<>>
        /\ NoDial

Init == Idle

\* One registration or update; readable stands for the media type, the size and
\* the syntax of the body, in which no field may occur twice.
Supply(where, metadata, handled) ==
  /\ stage' = where
  /\ supplied' = metadata
  /\ outcome' = handled
  /\ NoDial /\ UNCHANGED <<header, lifetime, dial>>

Register ==
  /\ stage = "none"
  /\ \E metadata \in Documents, readable \in BOOLEAN :
       Supply("register", metadata, handleRegister(metadata, readable))

Update ==
  /\ stage = "none"
  /\ \E metadata \in Documents, readable \in BOOLEAN :
       Supply("update", metadata, handleUpdate(metadata, readable))

\* The client of the metadata resolver connects to the origin of the document.
Connect ==
  /\ stage = "none"
  /\ DialNext
  /\ UNCHANGED <<stage, supplied, header, lifetime, outcome>>

NotFetched ==
  /\ stage = "none" /\ connection = "failed"
  /\ stage' = "document"
  /\ outcome' = Refused("client metadata could not be resolved")
  /\ UNCHANGED <<supplied, header, lifetime, dial>>

\* The document is fetched.  Every header comes with the valid documents, every
\* document without a header and over the connection to a literal address.
Fetch ==
  /\ stage = "none" /\ connection = "made"
  /\ \/ /\ header' = <<>>
        /\ supplied' \in IF addresses = <<[class |-> "global", mapped |-> FALSE]>>
                           THEN Documents ELSE {Document, SignedDocument}
     \/ /\ header' \in Headers
        /\ supplied' \in {Document, SignedDocument}
  /\ \E readable \in BOOLEAN : outcome' = fetch(supplied', readable)
  /\ lifetime' = IF outcome'.error = "none" THEN metadataCacheTTL(header') ELSE 0
  /\ stage' = "document"
  /\ UNCHANGED dial

\* An authorization synchronises what Resolve has given it, from the cache or not.
Synchronise ==
  /\ stage = "document" /\ outcome.error = "none"
  /\ stage' = "client"
  /\ outcome' = EnsureCIMDClient(outcome.sent)
  /\ UNCHANGED <<supplied, header, lifetime, dial>>

Return ==
  /\ stage # "none"
  /\ stage' = "none"
  /\ supplied' = <<>> /\ header' = <<>> /\ lifetime' = 0 /\ outcome' = <<>>
  /\ NoDialNext

Next ==
  \/ Register \/ Update \/ Connect \/ NotFetched \/ Fetch \/ Synchronise
  \/ Return

Spec == Init /\ [][Next]_vars

-----------------------------------------------------------------------------
SentToHydra == stage \in {"register", "update", "client"} /\ outcome.error = "none"

\* A document that was accepted when it was fetched is not refused when it is
\* synchronised, and means the same: EnsureCIMDClient normalises once more what
\* the resolver has normalised, from metadata in which the list of supported
\* methods is gone.
SecondPassChangesNothing ==
  [][Synchronise =>
       /\ outcome'.error = "none"
       /\ \A name \in DOMAIN outcome'.sent : outcome'.sent[name] = outcome.sent[name]]_vars

\* Hydra authenticates a client only as its metadata says: by the singular method if
\* that is one of the two supported; by a member of the list if a document has one.
\* A registration or its update is always sent as a public client, whatever list it
\* comes with (the list is not looked at there, so that a client which lists only
\* private_key_jwt is registered with "none").  Hydra has the keys of exactly those
\* clients that sign, and lets a client refresh its tokens only if the client said
\* that it does, whatever order and repetition the list of its grants has.
SentAsDeclared ==
  SentToHydra =>
    LET method == outcome.sent.token_endpoint_auth_method
    IN /\ supplied.token_endpoint_auth_method \in {"none", "private_key_jwt"} =>
            method = supplied.token_endpoint_auth_method
       /\ stage = "client" /\ supplied.token_endpoint_auth_methods_supported # <<>> =>
            method \in ToSet(supplied.token_endpoint_auth_methods_supported[1])
       /\ stage # "client" => method = "none"
       /\ (method = "private_key_jwt") <=> (outcome.sent.jwks_uri = "https uri")
       /\ (method = "none") <=> (outcome.sent.jwks_uri = "")
       /\ "refresh_token" \in ToSet(outcome.sent.grant_types) =>
            "refresh_token" \in ToSet(supplied.grant_types)

\* A document is never kept longer than its origin has said (the first max-age
\* with an argument, however large), nor longer than the maximum, and never when
\* storing or reusing it is forbidden, wherever in the header that stands: in its
\* first line, which is all the code reads (metadata_resolver.go:184, Header.Get).
LifetimeAsStated ==
  stage = "document" /\ lifetime > 0 =>
    /\ lifetime <= MaximumTTL
    /\ \A i \in DOMAIN header : header[i].name \notin {"no-store", "no-cache"}
    /\ \A i \in DOMAIN header :
         /\ header[i].name = "max-age" /\ header[i].argument # <<>>
         /\ \A j \in 1..(i - 1) : header[j].name # "max-age" \/ header[j].argument = <<>>
         => lifetime <= header[i].argument[1] * Second

=============================================================================
