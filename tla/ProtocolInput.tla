--------------------------- MODULE ProtocolInput ---------------------------
(***************************************************************************)
(* One request to the MCP OAuth facade (src/internal/mcpoauth/handler.go): *)
(* what is made of its parameters before anything is called, which is to   *)
(* refuse it with an OAuth error code or to forward it to Hydra (an        *)
(* authorization possibly after the client's metadata document was         *)
(* resolved, the "authorize" route of Facade); the request to Hydra; and   *)
(* what the caller is told of Hydra's answer.                              *)
(*                                                                         *)
(* A parameter has the sequence of the values it was given, as in Go's     *)
(* url.Values; a value is a token for the strings the checks tell apart.   *)
(***************************************************************************)
EXTENDS Checks, Discovery

CONSTANT
  Deviations    \* bound of the model: parameters that differ from a valid request

ASSUME InputAssumption ==
  /\ Deviations \in Nat \ {0}
  /\ Resource \notin {"", "other"}
  /\ Issuer # "client"

-----------------------------------------------------------------------------
\* The inputs: a valid request and what its parameters may be instead.  A "forged"
\* verifier is one that Hydra has not issued: the facade cannot tell it from another.

Authorizations ==
  [login_verifier |-> {<<>>, <<"verifier">>, <<"forged">>, <<"">>, <<"too long">>,
                       <<"verifier", "verifier">>, <<"forged", "verifier">>},
   consent_verifier |-> {<<>>, <<"verifier">>, <<"forged">>},
   client_id |-> {<<>>, <<"">>, <<"url">>, <<"unsafe url">>, <<"name">>, <<"url", "name">>},
   redirect_uri |-> {<<>>, <<"uri">>, <<"unsafe uri">>, <<"uri", "unsafe uri">>},
   response_type |-> {<<>>, <<"code">>, <<"token">>, <<"code", "token">>},
   scope |-> {<<>>, <<"mcp">>, <<"offline_access mcp">>, <<"mcp mcp">>, <<"mcp openid">>,
              <<"mcp", "mcp">>},
   resource |-> {<<>>, <<Resource>>, <<"other">>, <<Resource, "other">>},
   request |-> {<<>>, <<"">>, <<"object">>},
   request_uri |-> {<<>>, <<"uri">>},
   audience |-> {<<>>, <<Resource>>, <<"other">>, <<Resource, "other">>},
   code_challenge |-> {<<>>, <<"challenge">>, <<"short">>, <<"challenge", "short">>},
   code_challenge_method |-> {<<>>, <<"S256">>, <<"plain">>}]

TokenRequests ==
  [grant_type |-> {<<>>, <<"authorization_code">>, <<"refresh_token">>,
                   <<"client_credentials">>, <<"authorization_code", "refresh_token">>},
   code_verifier |-> {<<>>, <<"verifier">>, <<"short">>, <<"verifier", "short">>},
   refresh_token |-> {<<>>, <<"">>, <<"token">>, <<"token", "token">>},
   resource |-> Authorizations.resource,
   audience |-> Authorizations.audience,
   scope |-> Authorizations.scope]

Revocations ==
  [token |-> {<<>>, <<"">>, <<"token">>, <<"token", "other">>},
   token_type_hint |-> {<<>>, <<"refresh_token">>}]

\* The metadata of a registration or its update, as ClientDocuments checks it; an
\* unsafe redirect_uri is refused with a code of its own when registering.
RegistrationBodies == {"accepted", "refused", "unsafe redirect"}

\* A dot segment reaches the handler percent-encoded (%2E): the path it is matched by
\* is the encoded one, the id it is given the decoded one.
Managements ==
  [method : {"GET", "PUT", "DELETE"}, client_id : {"id", ".", "..", "unsafe id"},
   body : RegistrationBodies]

NewAuthorization ==
  [login_verifier |-> <<>>, consent_verifier |-> <<>>, client_id |-> <<"url">>,
   redirect_uri |-> <<"uri">>, response_type |-> <<"code">>, scope |-> <<"mcp">>,
   resource |-> <<Resource>>, request |-> <<>>, request_uri |-> <<>>, audience |-> <<>>,
   code_challenge |-> <<"challenge">>, code_challenge_method |-> <<"S256">>]

\* What Hydra redirects the browser to after login: its own parameters, with the
\* audience the facade had added.
Continuation ==
  [NewAuthorization EXCEPT !.login_verifier = <<"verifier">>, !.audience = <<Resource>>]

CodeRedemption ==
  [grant_type |-> <<"authorization_code">>, code_verifier |-> <<"verifier">>,
   refresh_token |-> <<>>, resource |-> <<Resource>>, audience |-> <<>>, scope |-> <<>>]

Revocation == [token |-> <<"token">>, token_type_hint |-> <<>>]

Inputs ==
  [authorize |-> Near(NewAuthorization, Authorizations, Deviations)
                   \cup Near(Continuation, Authorizations, Deviations),
   token |-> Near(CodeRedemption, TokenRequests, Deviations + 1),
   revoke |-> Near(Revocation, Revocations, 2),
   register |-> [body : RegistrationBodies],
   manage |-> Managements,
   jwks |-> {<<>>},
   fallback |-> {<<>>},
   ready |-> {<<>>},
   resource |-> {<<>>},
   discovery |-> {<<>>}]

-----------------------------------------------------------------------------
\* Helpers of the handlers.

\* Mutant: the first value counts, as with url.Values.Get.
FirstRequired(values) == values # <<>> /\ values[1] # ""

singleRequired(values) == Len(values) = 1 /\ values[1] # ""

singleEquals(values, expected) == values = <<expected>>

requireExactResource(form) == form.resource = <<Resource>>

hasMCPAuthorizationScopes(values) == Len(values) = 1 /\ IsOurScope(values[1])

Verdict(error, route, sent) == [error |-> error, route |-> route, sent |-> sent]

-----------------------------------------------------------------------------
\* The handlers.

VerifiersOf(query) ==
  {name \in {"login_verifier", "consent_verifier"} : query[name] # <<>>}

\* Mutant: any verifier will do, also an empty or a repeated one.
AnyVerifier(query) == VerifiersOf(query) # {}

hydraAuthorizationContinuation(query) ==
  \E name \in VerifiersOf(query) :
    /\ VerifiersOf(query) = {name}
    /\ singleRequired(query[name]) /\ query[name][1] # "too long"

\* Mutant: a continuation keeps whatever audience it brings.
AudienceTrusted(query) ==
  hydraAuthorizationContinuation(query) \/ query.audience = <<>>

AudienceAccepted(query) ==
  IF hydraAuthorizationContinuation(query)
    THEN singleEquals(query.audience, Resource)
    ELSE query.audience = <<>>

ChallengeAccepted(query) ==
  /\ singleRequired(query.code_challenge) /\ query.code_challenge[1] = "challenge"
  /\ singleEquals(query.code_challenge_method, "S256")

\* Whether the client's metadata document has to be resolved.
ByDocument(query) ==
  /\ query.client_id[1] \in {"url", "unsafe url"}
  /\ ~hydraAuthorizationContinuation(query)

handleAuthorize(query) ==
  LET error == FirstError(<<
        Check(VerifiersOf(query) # {} /\ ~hydraAuthorizationContinuation(query),
              "invalid_request"),
        Check(~singleRequired(query.client_id), "invalid_request"),
        Check(~singleRequired(query.redirect_uri), "invalid_request"),
        Check(query.redirect_uri = <<"unsafe uri">>, "invalid_request"),
        Check(~singleEquals(query.response_type, "code"), "unsupported_response_type"),
        Check(~hasMCPAuthorizationScopes(query.scope), "invalid_scope"),
        Check(~requireExactResource(query), "invalid_target"),
        Check(query.request # <<>> \/ query.request_uri # <<>>, "invalid_request"),
        Check(~AudienceAccepted(query), "invalid_request"),
        Check(~ChallengeAccepted(query), "invalid_request"),
        Check(query.client_id = <<"unsafe url">> /\ ~hydraAuthorizationContinuation(query),
              "invalid_request")>>)
      audience == IF hydraAuthorizationContinuation(query) THEN query.audience
                                                           ELSE <<Resource>>
  IN IF error # "none"
       THEN Verdict(error, "none", query)
       ELSE Verdict(error, IF ByDocument(query) THEN "authorize" ELSE "plain",
                    [query EXCEPT !.audience = audience])

\* The proof of possession the grant calls for.
GrantProof(form) ==
  IF form.grant_type = <<"authorization_code">>
    THEN singleRequired(form.code_verifier) /\ form.code_verifier[1] = "verifier"
    ELSE singleRequired(form.refresh_token)

\* Mutant: refreshing is left to others, as a comment has it.
CodesOnly == {<<"authorization_code">>}

GrantTypes == {<<"authorization_code">>, <<"refresh_token">>}

handleToken(form) ==
  LET error == FirstError(<<
        Check(~requireExactResource(form), "invalid_target"),
        Check(form.audience # <<>>, "invalid_request"),
        Check(form.grant_type \notin GrantTypes, "unsupported_grant_type"),
        Check(~GrantProof(form), "invalid_request"),
        Check(form.scope # <<>> /\ ~hasMCPAuthorizationScopes(form.scope),
              "invalid_scope")>>)
  IN IF error # "none"
       THEN Verdict(error, "none", form)
       ELSE Verdict(error, "plain", [form EXCEPT !.audience = <<Resource>>])

handleRevoke(form) ==
  IF ~singleRequired(form.token) THEN Verdict("invalid_request", "none", form)
                                 ELSE Verdict("none", "plain", form)

handleRegister(form) ==
  LET error == FirstError(<<
        Check(form.body = "refused", "invalid_client_metadata"),
        Check(form.body = "unsafe redirect", "invalid_redirect_uri")>>)
  IN Verdict(error, IF error = "none" THEN "plain" ELSE "none", form)

handleRegistrationManagement(form) ==
  LET error == FirstError(<<
        Check(~IsDynamicClientID(form.client_id), "invalid_client"),
        Check(form.method = "PUT" /\ form.body # "accepted", "invalid_client_metadata")>>)
  IN Verdict(error, IF error = "none" THEN "plain" ELSE "none", form)

\* A form that cannot be read (content type, size, encoding) is refused before
\* any of its parameters is looked at.
Handled(endpoint, form, readable) ==
  IF endpoint \in {"token", "revoke"} /\ ~readable
    THEN Verdict("invalid_request", "none", form)
    ELSE CASE endpoint = "authorize" -> handleAuthorize(form)
           [] endpoint = "token" -> handleToken(form)
           [] endpoint = "revoke" -> handleRevoke(form)
           [] endpoint = "register" -> handleRegister(form)
           [] endpoint = "manage" -> handleRegistrationManagement(form)
           [] endpoint \in {"jwks", "fallback"} -> Verdict("none", "plain", form)
           [] endpoint \in {"ready", "resource", "discovery"} -> Verdict("none", "none", form)

\* How each handler calls proxy.
Forwarding(endpoint, form) ==
  CASE endpoint = "authorize" ->
         RequestToHydra(<<"oauth2", "auth">>, "none", {"Cookie"})
    [] endpoint = "token" -> RequestToHydra(<<"oauth2", "token">>, "form", {"Authorization"})
    [] endpoint = "revoke" -> RequestToHydra(<<"oauth2", "revoke">>, "form", {"Authorization"})
    [] endpoint = "jwks" -> RequestToHydra(<<".well-known", "jwks.json">>, "none", {})
    [] endpoint = "fallback" -> RequestToHydra(<<"oauth2", "fallbacks", "error">>, "none", {})
    [] endpoint = "register" -> RequestToHydra(<<"oauth2", "register">>, "json", {})
    [] endpoint = "manage" ->
         RequestToHydra(RegistrationPath(form.client_id),
                        IF form.method = "PUT" THEN "json" ELSE "none", {"Authorization"})

rewriteRegistration(endpoint) == endpoint \in {"register", "manage"}

-----------------------------------------------------------------------------
\* One request after the other; handlers keep no state between them.

VARIABLES
  endpoint, form,   \* the request being served
  verdict,          \* what its handler makes of it
  request,          \* the request to Hydra
  reply             \* what the caller is answered

vars == <<endpoint, form, verdict, request, reply>>

Init == endpoint = "none" /\ form = <<>> /\ verdict = <<>> /\ request = <<>> /\ reply = <<>>

Serve(where) ==
  /\ endpoint = "none"
  /\ \E input \in Inputs[where], readable \in BOOLEAN :
       /\ endpoint' = where
       /\ form' = input
       /\ verdict' = Handled(where, input, readable)
  /\ UNCHANGED <<request, reply>>

Forward ==
  /\ endpoint # "none" /\ verdict.route # "none" /\ request = <<>>
  /\ request' = Forwarding(endpoint, verdict.sent)
  /\ UNCHANGED <<endpoint, form, verdict, reply>>

Answer ==
  /\ request # <<>> /\ reply = <<>>
  /\ \E response \in Responses : reply' = proxy(response, rewriteRegistration(endpoint))
  /\ UNCHANGED <<endpoint, form, verdict, request>>

\* The handler returns, after its verdict already if it refuses the request or if
\* the client's document cannot be resolved.
Return ==
  /\ endpoint # "none"
  /\ endpoint' = "none" /\ form' = <<>> /\ verdict' = <<>> /\ request' = <<>> /\ reply' = <<>>

Next ==
  \/ \E where \in DOMAIN Inputs : Serve(where)
  \/ Forward \/ Answer \/ Return

Spec == Init /\ [][Next]_vars

-----------------------------------------------------------------------------
Forwarded(where) == endpoint = where /\ verdict.route # "none"

\* Whatever a client or a browser sends, a token can only be asked for this
\* resource: Hydra is sent exactly one audience and one resource, both ours.
AudienceIsOurs ==
  Forwarded("authorize") \/ Forwarded("token") =>
    verdict.sent.audience = <<Resource>> /\ verdict.sent.resource = <<Resource>>

\* No parameter a check has read is sent to Hydra twice, empty or not at all:
\* Hydra and the facade cannot understand two different requests.
SentOnce ==
  /\ Forwarded("authorize") =>
       \A name \in {"client_id", "redirect_uri", "response_type", "scope",
                    "code_challenge", "code_challenge_method"} :
         Len(verdict.sent[name]) = 1 /\ verdict.sent[name] # <<"">>
  /\ Forwarded("token") => Len(verdict.sent.grant_type) = 1 /\ Len(verdict.sent.scope) <= 1
  /\ Forwarded("revoke") => Len(verdict.sent.token) = 1 /\ verdict.sent.token # <<"">>

\* The request names one verifier, once, neither empty nor too long.
OneVerifier(query) ==
  \E verifier \in {"verifier", "forged"} :
    {query.login_verifier, query.consent_verifier} = {<<>>, <<verifier>>}

\* The document of a URL-form client is resolved exactly when the browser does not
\* come back from login or consent, which one verifier tells, sent once, neither empty
\* nor too long: nothing else skips the document (two verifiers, a repeated or an empty
\* one), and no browser that comes back waits for it again.  Whoever has made the
\* verifier: that Hydra issued it, only Hydra can tell.
OnlyVerifiersSkipTheDocument ==
  Forwarded("authorize") =>
    (verdict.route = "authorize"
       <=> verdict.sent.client_id # <<"name">> /\ ~ OneVerifier(verdict.sent))

\* Every authorization carries a S256 challenge, a continuation too, and every
\* code is redeemed with a verifier, so that no code is issued that could be
\* redeemed without one.
PKCEOnBothEnds ==
  /\ Forwarded("authorize") =>
       verdict.sent.code_challenge = <<"challenge">>
         /\ verdict.sent.code_challenge_method = <<"S256">>
  /\ Forwarded("token") /\ verdict.sent.grant_type = <<"authorization_code">> =>
       verdict.sent.code_verifier = <<"verifier">>

\* Nothing beyond mcp and offline_access is ever asked for, each at most once.
ScopeIsOurs ==
  Forwarded("authorize") \/ Forwarded("token") =>
    verdict.sent.scope \in {<<>>, <<"mcp">>, <<"offline_access mcp">>}

Sent(name) == request # <<>> /\ name \in DOMAIN request.headers

\* Hydra is given of the caller's headers only what the endpoint authenticates with:
\* the browser's cookie with an authorization, the client's credentials with what a
\* client does; and it takes the issuer for the host, whatever the caller claims.
CredentialsOnlyWhereNeeded ==
  request # <<>> =>
    /\ Sent("Cookie") <=> endpoint = "authorize"
    /\ Sent("Authorization") <=> endpoint \in {"token", "revoke", "manage"}
    /\ request.host = Issuer
    /\ \A name \in {"X-Forwarded-Host", "X-Forwarded-Proto", "Content-Type"} :
         Sent(name) => request.headers[name] # <<"client">>

\* When the facade answers with an error of its own although Hydra has answered,
\* nothing of Hydra's answer reaches the caller: no cookie, no place, no registration.
NothingOfARefusedAnswer ==
  reply # <<>> /\ reply.status = 502 =>
    /\ \A name \in DOMAIN reply.headers : reply.headers[name] = << <<"facade">> >>
    /\ reply.body.client_id = "none"

\* Whoever is told of a registration, new, read or changed, can go on managing it: the
\* place it is given, in the body and in the header, is the issuer's, has a route
\* there, and that handler passes the client's id on to the same client at Hydra.
\* With two exceptions: a client whose id Hydra had made "." or ".." would be told of
\* a place that no route serves.  The facade takes both for ids, and only how Hydra
\* makes ids keeps them away.
RegistrationCanBeManaged ==
  reply # <<>> /\ endpoint \in {"register", "manage"} /\ reply.status \in {200, 201, 204}
    /\ reply.body # Empty =>
    LET id == reply.body.client_id
        get == [method |-> "GET", client_id |-> id, body |-> "accepted"]
        uri == reply.body.registration_client_uri
    IN /\ reply.headers["Location"] = <<uri>>
       /\ uri[1] = Issuer
       /\ RouteOf("GET", Tail(uri)) = IF id \in DotSegments THEN "none" ELSE "manage"
       /\ handleRegistrationManagement(get).route = "plain"
       /\ Forwarding("manage", get).path = Tail(uri)

\* The discovery documents tell the truth: every endpoint they name has its handler
\* at the issuer; for every scope, response type, grant and challenge method
\* they name some request is forwarded; and nothing else is.
AdvertisedIsServed ==
  LET metadata == AuthorizationServerMetadata
      Authorized(parameter, value) ==
        \E query \in Inputs.authorize :
          query[parameter] = <<value>> /\ handleAuthorize(query).route # "none"
      At(method, name) == RouteOf(method, Tail(metadata[name]))
  IN /\ endpoint = "discovery" =>
          /\ At("GET", "authorization_endpoint") = "authorize"
          /\ At("POST", "token_endpoint") = "token"
          /\ At("POST", "revocation_endpoint") = "revoke"
          /\ At("GET", "jwks_uri") = "jwks"
          /\ At("POST", "registration_endpoint") = "register"
          /\ ProtectedResourceMetadata.authorization_servers = {metadata.issuer}
          /\ Authorized("resource", ProtectedResourceMetadata.resource)
          /\ \A scope \in metadata.scopes_supported \cup ProtectedResourceMetadata.scopes_supported :
               \E query \in Inputs.authorize :
                 /\ handleAuthorize(query).route # "none"
                 /\ scope \in ToSet(WordsOf(query.scope[1]))
          /\ \A type \in metadata.response_types_supported : Authorized("response_type", type)
          /\ \A method \in metadata.code_challenge_methods_supported :
               Authorized("code_challenge_method", method)
          /\ \A grant \in metadata.grant_types_supported :
               \E token \in Inputs.token :
                 token.grant_type = <<grant>> /\ handleToken(token).route # "none"
     /\ Forwarded("token") => verdict.sent.grant_type[1] \in metadata.grant_types_supported
     /\ Forwarded("authorize") =>
          ToSet(WordsOf(verdict.sent.scope[1])) \subseteq metadata.scopes_supported

\* "the public facade continues to reject refresh-token requests"
\* (client_metadata.go:164 to 167).
RefreshTokensRejected ==
  Forwarded("token") => verdict.sent.grant_type # <<"refresh_token">>

=============================================================================
