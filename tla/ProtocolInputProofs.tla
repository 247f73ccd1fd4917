-------------------------- MODULE ProtocolInputProofs --------------------------
(***************************************************************************)
(* Proofs about ProtocolInput, for any number of deviating parameters.     *)
(***************************************************************************)
EXTENDS ProtocolInput, ChecksProofs

-----------------------------------------------------------------------------
\* What a query has when handleAuthorize forwards it.
LEMMA AuthorizeChecks ==
  ASSUME NEW query, handleAuthorize(query).route # "none"
  PROVE  /\ VerifiersOf(query) # {} => hydraAuthorizationContinuation(query)
         /\ singleRequired(query.client_id)
         /\ singleRequired(query.redirect_uri)
         /\ singleEquals(query.response_type, "code")
         /\ hasMCPAuthorizationScopes(query.scope)
         /\ requireExactResource(query)
         /\ AudienceAccepted(query)
         /\ ChallengeAccepted(query)
<1> DEFINE checks == <<
        Check(VerifiersOf(query) # {} /\ ~hydraAuthorizationContinuation(query),
              "invalid_request"),
        Check(~singleRequired(query.client_id), "invalid_request"),
        Check(~singleRequired(query.redirect_uri), "invalid_request"),
        Check(query.redirect_uri = <<"unsafe uri">>, "invalid_request"),
        Check(~singleEquals(query.response_type, "code"), "unsupported_response_type"),
        Check(~hasMCPAuthorizationScopes(query.scope), "invalid_scope"),
        Check(~requireExactResource(query), "invalid_target"),
        Check(query.request # <<>> \/ query.request_uri # <<>>, "invalid_request"),
        Check(~AudienceAccepted(query), "invalid_request"),
        Check(~ChallengeAccepted(query), "invalid_request"),
        Check(query.client_id = <<"unsafe url">> /\ ~hydraAuthorizationContinuation(query),
              "invalid_request")>>
<1>1. FirstError(checks) = "none"
  BY DEF handleAuthorize, Verdict
<1>2. DOMAIN checks = 1..11
  OBVIOUS
<1>3. \A i \in 1..11 : checks[i].error # "none"
  <2>1. /\ checks[1].error # "none" /\ checks[2].error # "none" /\ checks[3].error # "none"
        /\ checks[4].error # "none" /\ checks[5].error # "none" /\ checks[6].error # "none"
        /\ checks[7].error # "none" /\ checks[8].error # "none" /\ checks[9].error # "none"
        /\ checks[10].error # "none" /\ checks[11].error # "none"
    BY DEF Check
  <2> HIDE DEF checks
  <2>2. QED
    BY <2>1
<1>4. \A i \in 1..11 : ~ checks[i].fails
  <2> HIDE DEF checks
  <2> QED
    BY <1>1, <1>2, <1>3, NoCheckFailed
<1>5. ~ checks[1].fails /\ ~ checks[2].fails /\ ~ checks[3].fails /\ ~ checks[5].fails
      /\ ~ checks[6].fails /\ ~ checks[7].fails /\ ~ checks[9].fails /\ ~ checks[10].fails
  <2> HIDE DEF checks
  <2> QED
    BY <1>4
<1>6. QED
  BY <1>5 DEF Check

-----------------------------------------------------------------------------
\* The queries that are served: those near a valid one.
LEMMA AuthorizeQuery ==
  ASSUME NEW query \in Inputs.authorize
  PROVE  /\ DOMAIN query = {"login_verifier", "consent_verifier", "client_id", "redirect_uri",
                            "response_type", "scope", "resource", "request", "request_uri",
                            "audience", "code_challenge", "code_challenge_method"}
         /\ query.login_verifier \in Authorizations.login_verifier
         /\ query.consent_verifier \in Authorizations.consent_verifier
         /\ query.client_id \in Authorizations.client_id
         /\ query.redirect_uri \in Authorizations.redirect_uri
         /\ query.response_type \in Authorizations.response_type
         /\ query.scope \in Authorizations.scope
         /\ query.resource \in Authorizations.resource
         /\ query.code_challenge \in Authorizations.code_challenge
         /\ query.code_challenge_method \in Authorizations.code_challenge_method
<1>1. Deviations \in Nat
  BY InputAssumption
<1>2. \/ query \in Near(NewAuthorization, Authorizations, Deviations)
      \/ query \in Near(Continuation, Authorizations, Deviations)
  BY DEF Inputs
<1>3. PICK base \in {NewAuthorization, Continuation} :
        /\ DOMAIN query = DOMAIN base
        /\ \A name \in DOMAIN base :
             query[name] = base[name] \/ query[name] \in Authorizations[name]
  BY <1>1, <1>2, NearKeepsFields
<1>4. DOMAIN query = DOMAIN NewAuthorization
  BY <1>3 DEF Continuation
<1>5. \A name \in DOMAIN NewAuthorization :
        base[name] \in Authorizations[name] => query[name] \in Authorizations[name]
  BY <1>3, <1>4
<1>6. \A name \in DOMAIN NewAuthorization : base[name] \in Authorizations[name]
  <2>1. \A name \in DOMAIN NewAuthorization : NewAuthorization[name] \in Authorizations[name]
    <3>1. /\ <<>> \in Authorizations.login_verifier
          /\ <<>> \in Authorizations.consent_verifier
          /\ <<"url">> \in Authorizations.client_id
          /\ <<"uri">> \in Authorizations.redirect_uri
          /\ <<"code">> \in Authorizations.response_type
          /\ <<"mcp">> \in Authorizations.scope
          /\ <<Resource>> \in Authorizations.resource
          /\ <<>> \in Authorizations.request
          /\ <<>> \in Authorizations.request_uri
          /\ <<>> \in Authorizations.audience
          /\ <<"challenge">> \in Authorizations.code_challenge
          /\ <<"S256">> \in Authorizations.code_challenge_method
      BY DEF Authorizations
    <3>2. QED
      BY <3>1 DEF NewAuthorization
  <2>2. \A name \in DOMAIN NewAuthorization : Continuation[name] \in Authorizations[name]
    <3>1. <<"verifier">> \in Authorizations.login_verifier /\ <<Resource>> \in Authorizations.audience
      BY DEF Authorizations
    <3>2. QED
      BY <2>1, <3>1 DEF Continuation
  <2>3. QED
    BY <1>3, <2>1, <2>2
<1>7. QED
  BY <1>4, <1>5, <1>6 DEF NewAuthorization

\* The values among those enumerated that singleRequired accepts.
LEMMA SingleValues ==
  /\ \A values \in Authorizations.client_id :
       singleRequired(values) => values \in {<<"url">>, <<"unsafe url">>, <<"name">>}
  /\ \A values \in Authorizations.redirect_uri :
       singleRequired(values) => values \in {<<"uri">>, <<"unsafe uri">>}
  /\ \A values \in Authorizations.code_challenge :
       singleRequired(values) => values \in {<<"challenge">>, <<"short">>}
  /\ \A values \in Authorizations.login_verifier \cup Authorizations.consent_verifier :
       singleRequired(values) => values \in {<<"verifier">>, <<"forged">>, <<"too long">>}
<1>1. ~ singleRequired(<<>>) /\ ~ singleRequired(<<"">>)
  BY DEF singleRequired
<1>2. /\ ~ singleRequired(<<"url", "name">>) /\ ~ singleRequired(<<"uri", "unsafe uri">>)
      /\ ~ singleRequired(<<"challenge", "short">>)
      /\ ~ singleRequired(<<"verifier", "verifier">>)
      /\ ~ singleRequired(<<"forged", "verifier">>)
  BY DEF singleRequired
<1>3. QED
  BY <1>1, <1>2, Zenon DEF Authorizations

LEMMA FirstOfOne == \A value : <<value>>[1] = value
  OBVIOUS

LEMMA NotOurScopes == ~ IsOurScope("mcp mcp") /\ ~ IsOurScope("mcp openid")
<1>1. ~ IsOurScope("mcp mcp")
  <2>1. WordsOf("mcp mcp") = <<"mcp", "mcp">>
    BY DEF WordsOf
  <2>2. ~ IsInjective(<<"mcp", "mcp">>)
    BY DEF IsInjective
  <2>3. QED
    BY <2>1, <2>2 DEF IsOurScope, sameStringSet
<1>2. ~ IsOurScope("mcp openid")
  <2>1. WordsOf("mcp openid") = <<"mcp", "openid">>
    BY DEF WordsOf
  <2>2. "openid" \in ToSet(<<"mcp", "openid">>)
    <3>1. 2 \in DOMAIN <<"mcp", "openid">> /\ <<"mcp", "openid">>[2] = "openid"
      OBVIOUS
    <3>2. QED
      BY <3>1, Zenon DEF ToSet
  <2>3. "openid" \notin ToSet(<<"mcp">>) /\ "openid" \notin ToSet(<<"mcp", "offline_access">>)
    BY DEF ToSet
  <2>4. ~ sameStringSet(<<"mcp", "openid">>, <<"mcp">>)
        /\ ~ sameStringSet(<<"mcp", "openid">>, <<"mcp", "offline_access">>)
    BY <2>2, <2>3 DEF sameStringSet
  <2>5. QED
    BY <2>1, <2>4 DEF IsOurScope
<1>3. QED
  BY <1>1, <1>2

LEMMA OurScopes ==
  ASSUME NEW scope \in Authorizations.scope, hasMCPAuthorizationScopes(scope)
  PROVE  scope \in {<<"mcp">>, <<"offline_access mcp">>}
<1>1. Len(scope) = 1 /\ IsOurScope(scope[1])
  BY DEF hasMCPAuthorizationScopes
<1>2. \/ scope = <<>> \/ scope = <<"mcp">> \/ scope = <<"offline_access mcp">>
      \/ scope = <<"mcp mcp">> \/ scope = <<"mcp openid">> \/ scope = <<"mcp", "mcp">>
  BY Zenon DEF Authorizations
<1>3. scope # <<>> /\ scope # <<"mcp", "mcp">>
  BY <1>1
<1>4. scope # <<"mcp mcp">> /\ scope # <<"mcp openid">>
  BY <1>1, NotOurScopes, FirstOfOne
<1>5. QED
  BY <1>2, <1>3, <1>4

\* A continuation has one verifier, among those enumerated.
LEMMA OneVerifierContinues ==
  ASSUME NEW query \in Inputs.authorize
  PROVE  hydraAuthorizationContinuation(query) <=> OneVerifier(query)
<1>1. query.login_verifier \in Authorizations.login_verifier
      /\ query.consent_verifier \in Authorizations.consent_verifier
  BY AuthorizeQuery
<1>2. ASSUME hydraAuthorizationContinuation(query) PROVE OneVerifier(query)
  <2>1. PICK name \in {"login_verifier", "consent_verifier"} :
          /\ VerifiersOf(query) = {name}
          /\ singleRequired(query[name]) /\ query[name][1] # "too long"
    BY <1>2 DEF hydraAuthorizationContinuation, VerifiersOf
  <2>2. \A other \in {"login_verifier", "consent_verifier"} : other # name => query[other] = <<>>
    BY <2>1 DEF VerifiersOf
  <2>3. query[name] \in {<<"verifier">>, <<"forged">>, <<"too long">>}
    BY <1>1, <2>1, SingleValues
  <2>4. query[name] = <<"verifier">> \/ query[name] = <<"forged">>
    BY <2>1, <2>3, FirstOfOne
  <2>5. QED
    BY <2>1, <2>2, <2>4 DEF OneVerifier
<1>3. ASSUME OneVerifier(query) PROVE hydraAuthorizationContinuation(query)
  <2>1. PICK verifier \in {"verifier", "forged"} :
          {query.login_verifier, query.consent_verifier} = {<<>>, <<verifier>>}
    BY <1>3 DEF OneVerifier
  <2>2. /\ <<verifier>> # <<>> /\ <<verifier>>[1] # "too long"
        /\ singleRequired(<<verifier>>)
    BY DEF singleRequired
  <2>3. \/ query.login_verifier = <<>> /\ query.consent_verifier = <<verifier>>
        \/ query.login_verifier = <<verifier>> /\ query.consent_verifier = <<>>
    BY <2>1, <2>2
  <2>4. CASE query.login_verifier = <<>> /\ query.consent_verifier = <<verifier>>
    <3>1. VerifiersOf(query) = {"consent_verifier"}
      BY <2>2, <2>4 DEF VerifiersOf
    <3>2. QED
      BY <2>2, <2>4, <3>1 DEF hydraAuthorizationContinuation
  <2>5. CASE query.login_verifier = <<verifier>> /\ query.consent_verifier = <<>>
    <3>1. VerifiersOf(query) = {"login_verifier"}
      BY <2>2, <2>5 DEF VerifiersOf
    <3>2. QED
      BY <2>2, <2>5, <3>1 DEF hydraAuthorizationContinuation
  <2>6. QED
    BY <2>3, <2>4, <2>5
<1>4. QED
  BY <1>2, <1>3

\* What handleAuthorize forwards.
LEMMA AuthorizeForwards ==
  ASSUME NEW query \in Inputs.authorize, NEW sent, sent = handleAuthorize(query).sent,
         handleAuthorize(query).route # "none"
  PROVE  /\ sent.audience = <<Resource>> /\ sent.resource = <<Resource>>
         /\ sent.client_id \in {<<"url">>, <<"unsafe url">>, <<"name">>}
         /\ sent.redirect_uri \in {<<"uri">>, <<"unsafe uri">>}
         /\ sent.response_type = <<"code">>
         /\ sent.scope \in {<<"mcp">>, <<"offline_access mcp">>}
         /\ sent.code_challenge = <<"challenge">> /\ sent.code_challenge_method = <<"S256">>
         /\ handleAuthorize(query).route = "authorize"
              <=> sent.client_id # <<"name">> /\ ~ OneVerifier(sent)
<1>1. /\ sent = [query EXCEPT !.audience =
                   IF hydraAuthorizationContinuation(query) THEN query.audience ELSE <<Resource>>]
      /\ handleAuthorize(query).route = IF ByDocument(query) THEN "authorize" ELSE "plain"
  BY DEF handleAuthorize, Verdict
<1>2. sent.audience =
        IF hydraAuthorizationContinuation(query) THEN query.audience ELSE <<Resource>>
  BY <1>1, AuthorizeQuery
<1>3. /\ sent.resource = query.resource /\ sent.client_id = query.client_id
      /\ sent.redirect_uri = query.redirect_uri /\ sent.response_type = query.response_type
      /\ sent.scope = query.scope /\ sent.code_challenge = query.code_challenge
      /\ sent.code_challenge_method = query.code_challenge_method
      /\ sent.login_verifier = query.login_verifier
      /\ sent.consent_verifier = query.consent_verifier
  BY <1>1, AuthorizeQuery
<1>4. sent.audience = <<Resource>> /\ sent.resource = <<Resource>>
  BY <1>2, <1>3, AuthorizeChecks DEF AudienceAccepted, singleEquals, requireExactResource
<1>5. sent.client_id \in {<<"url">>, <<"unsafe url">>, <<"name">>}
  <2>1. query.client_id \in Authorizations.client_id /\ singleRequired(query.client_id)
    BY AuthorizeQuery, AuthorizeChecks
  <2>2. QED
    BY <1>3, <2>1, SingleValues
<1>6. sent.redirect_uri \in {<<"uri">>, <<"unsafe uri">>}
  <2>1. query.redirect_uri \in Authorizations.redirect_uri /\ singleRequired(query.redirect_uri)
    BY AuthorizeQuery, AuthorizeChecks
  <2>2. QED
    BY <1>3, <2>1, SingleValues
<1>7. sent.response_type = <<"code">> /\ sent.scope \in {<<"mcp">>, <<"offline_access mcp">>}
  BY <1>3, AuthorizeQuery, AuthorizeChecks, OurScopes DEF singleEquals
<1>8. sent.code_challenge = <<"challenge">> /\ sent.code_challenge_method = <<"S256">>
  <2>1. /\ query.code_challenge \in Authorizations.code_challenge
        /\ singleRequired(query.code_challenge) /\ query.code_challenge[1] = "challenge"
        /\ query.code_challenge_method = <<"S256">>
    BY AuthorizeQuery, AuthorizeChecks DEF ChallengeAccepted, singleEquals
  <2>2. query.code_challenge \in {<<"challenge">>, <<"short">>}
    BY <2>1, SingleValues
  <2>3. QED
    BY <1>3, <2>1, <2>2
<1>9. handleAuthorize(query).route = "authorize"
        <=> sent.client_id # <<"name">> /\ ~ OneVerifier(sent)
  <2>1. ByDocument(query)
          <=> sent.client_id # <<"name">> /\ ~ hydraAuthorizationContinuation(query)
    <3>1. \/ query.client_id = <<"url">> \/ query.client_id = <<"unsafe url">>
          \/ query.client_id = <<"name">>
      BY <1>3, <1>5
    <3>2. query.client_id[1] \in {"url", "unsafe url"} <=> query.client_id # <<"name">>
      BY <3>1, FirstOfOne
    <3>3. QED
      BY <1>3, <3>2 DEF ByDocument
  <2>2. OneVerifier(sent) <=> OneVerifier(query)
    BY <1>3 DEF OneVerifier
  <2>3. hydraAuthorizationContinuation(query) <=> OneVerifier(query)
    BY OneVerifierContinues
  <2>4. QED
    BY <1>1, <2>1, <2>2, <2>3
<1>10. QED
  BY <1>4, <1>5, <1>6, <1>7, <1>8, <1>9

-----------------------------------------------------------------------------
\* What handleToken forwards.
LEMMA TokenChecks ==
  ASSUME NEW tokenForm, handleToken(tokenForm).route # "none"
  PROVE  /\ requireExactResource(tokenForm)
         /\ tokenForm.grant_type \in GrantTypes
         /\ GrantProof(tokenForm)
         /\ tokenForm.scope # <<>> => hasMCPAuthorizationScopes(tokenForm.scope)
         /\ handleToken(tokenForm).sent = [tokenForm EXCEPT !.audience = <<Resource>>]
<1> DEFINE checks == <<
        Check(~requireExactResource(tokenForm), "invalid_target"),
        Check(tokenForm.audience # <<>>, "invalid_request"),
        Check(tokenForm.grant_type \notin GrantTypes, "unsupported_grant_type"),
        Check(~GrantProof(tokenForm), "invalid_request"),
        Check(tokenForm.scope # <<>> /\ ~hasMCPAuthorizationScopes(tokenForm.scope),
              "invalid_scope")>>
<1>1. FirstError(checks) = "none"
      /\ handleToken(tokenForm).sent = [tokenForm EXCEPT !.audience = <<Resource>>]
  BY DEF handleToken, Verdict
<1>2. DOMAIN checks = 1..5
  OBVIOUS
<1>3. \A i \in 1..5 : checks[i].error # "none"
  <2>1. /\ checks[1].error # "none" /\ checks[2].error # "none" /\ checks[3].error # "none"
        /\ checks[4].error # "none" /\ checks[5].error # "none"
    BY DEF Check
  <2> HIDE DEF checks
  <2>2. QED
    BY <2>1
<1>4. \A i \in 1..5 : ~ checks[i].fails
  <2> HIDE DEF checks
  <2> QED
    BY <1>1, <1>2, <1>3, NoCheckFailed
<1>5. ~ checks[1].fails /\ ~ checks[3].fails /\ ~ checks[4].fails /\ ~ checks[5].fails
  <2> HIDE DEF checks
  <2> QED
    BY <1>4
<1>6. QED
  BY <1>1, <1>5 DEF Check

LEMMA TokenRequest ==
  ASSUME NEW tokenForm \in Inputs.token
  PROVE  /\ DOMAIN tokenForm = {"grant_type", "code_verifier", "refresh_token", "resource",
                               "audience", "scope"}
         /\ tokenForm.code_verifier \in TokenRequests.code_verifier
         /\ tokenForm.scope \in Authorizations.scope
<1>1. Deviations + 1 \in Nat
  <2>1. Deviations \in Nat
    BY InputAssumption
  <2>2. QED
    BY <2>1
<1>2. tokenForm \in Near(CodeRedemption, TokenRequests, Deviations + 1)
  BY DEF Inputs
<1>3. /\ DOMAIN tokenForm = DOMAIN CodeRedemption
      /\ \A name \in DOMAIN CodeRedemption :
           tokenForm[name] = CodeRedemption[name] \/ tokenForm[name] \in TokenRequests[name]
  BY <1>1, <1>2, NearKeepsFields
<1>4. DOMAIN CodeRedemption = {"grant_type", "code_verifier", "refresh_token", "resource",
                               "audience", "scope"}
  BY DEF CodeRedemption
<1>5. CodeRedemption.code_verifier \in TokenRequests.code_verifier
      /\ CodeRedemption.scope \in Authorizations.scope
  BY DEF CodeRedemption, TokenRequests, Authorizations
<1>6. TokenRequests.scope = Authorizations.scope
  BY DEF TokenRequests
<1>7. QED
  BY <1>3, <1>4, <1>5, <1>6

LEMMA TokenForwards ==
  ASSUME NEW tokenForm \in Inputs.token, NEW sent, sent = handleToken(tokenForm).sent,
         handleToken(tokenForm).route # "none"
  PROVE  /\ sent.audience = <<Resource>> /\ sent.resource = <<Resource>>
         /\ sent.grant_type \in {<<"authorization_code">>, <<"refresh_token">>}
         /\ sent.scope \in {<<>>, <<"mcp">>, <<"offline_access mcp">>}
         /\ sent.grant_type = <<"authorization_code">> => sent.code_verifier = <<"verifier">>
<1>1. sent = [tokenForm EXCEPT !.audience = <<Resource>>]
  BY TokenChecks
<1>2. /\ sent.audience = <<Resource>> /\ sent.resource = tokenForm.resource
      /\ sent.grant_type = tokenForm.grant_type /\ sent.scope = tokenForm.scope
      /\ sent.code_verifier = tokenForm.code_verifier
  BY <1>1, TokenRequest
<1>3. sent.resource = <<Resource>> /\ sent.grant_type \in GrantTypes
  BY <1>2, TokenChecks DEF requireExactResource
<1>4. sent.scope \in {<<>>, <<"mcp">>, <<"offline_access mcp">>}
  BY <1>2, TokenChecks, TokenRequest, OurScopes
<1>5. ASSUME sent.grant_type = <<"authorization_code">>
      PROVE  sent.code_verifier = <<"verifier">>
  <2>1. tokenForm.code_verifier[1] = "verifier" /\ Len(tokenForm.code_verifier) = 1
    BY <1>2, <1>5, TokenChecks DEF GrantProof, singleRequired
  <2>2. \/ tokenForm.code_verifier = <<>> \/ tokenForm.code_verifier = <<"verifier">>
        \/ tokenForm.code_verifier = <<"short">>
        \/ tokenForm.code_verifier = <<"verifier", "short">>
    BY TokenRequest, Zenon DEF TokenRequests
  <2>3. Len(<<>>) = 0 /\ Len(<<"verifier", "short">>) = 2
    OBVIOUS
  <2>4. QED
    BY <1>2, <2>1, <2>2, <2>3, FirstOfOne
<1>6. QED
  BY <1>2, <1>3, <1>4, <1>5 DEF GrantTypes

-----------------------------------------------------------------------------
\* What the state says of the request being served.
Judged ==
  endpoint # "none" =>
    /\ endpoint \in DOMAIN Inputs
    /\ \E input \in Inputs[endpoint], readable \in BOOLEAN :
         verdict = Handled(endpoint, input, readable)

Called ==
  request # <<>> =>
    /\ endpoint # "none" /\ verdict.route # "none"
    /\ request = Forwarding(endpoint, verdict.sent)

Answered ==
  reply # <<>> =>
    /\ request # <<>>
    /\ \E response \in Responses : reply = proxy(response, rewriteRegistration(endpoint))

InputInv == Judged /\ Called /\ Answered

LEMMA InputInductive == Spec => []InputInv
<1>1. Init => InputInv
  BY DEF Init, InputInv, Judged, Called, Answered
<1>2. InputInv /\ [Next]_vars => InputInv'
  <2> SUFFICES ASSUME InputInv, [Next]_vars
               PROVE  InputInv'
    OBVIOUS
  <2>1. ASSUME NEW where \in DOMAIN Inputs, Serve(where)
        PROVE  InputInv'
    <3>1. request' = <<>> /\ reply' = <<>>
      BY <2>1 DEF Serve, InputInv, Called, Answered
    <3>2. Judged'
      BY <2>1 DEF Serve, Judged
    <3>3. Called'
      BY <3>1 DEF Called
    <3>4. Answered'
      BY <3>1 DEF Answered
    <3>5. QED
      BY <3>2, <3>3, <3>4 DEF InputInv
  <2>2. CASE Forward
    BY <2>2 DEF Forward, InputInv, Judged, Called, Answered
  <2>3. CASE Answer
    BY <2>3 DEF Answer, InputInv, Judged, Called, Answered
  <2>4. CASE Return
    BY <2>4 DEF Return, InputInv, Judged, Called, Answered
  <2>5. CASE UNCHANGED vars
    BY <2>5 DEF vars, InputInv, Judged, Called, Answered
  <2>6. QED
    BY <2>1, <2>2, <2>3, <2>4, <2>5 DEF Next
<1>3. QED
  BY <1>1, <1>2, PTL DEF Spec

-----------------------------------------------------------------------------
\* The verdict on a request that is forwarded.
LEMMA ForwardedMeans ==
  ASSUME InputInv
  PROVE  /\ Forwarded("authorize") =>
              \E query \in Inputs.authorize :
                /\ verdict.sent = handleAuthorize(query).sent
                /\ verdict.route = handleAuthorize(query).route
                /\ handleAuthorize(query).route # "none"
         /\ Forwarded("token") =>
              \E tokenForm \in Inputs.token :
                /\ verdict.sent = handleToken(tokenForm).sent
                /\ handleToken(tokenForm).route # "none"
         /\ Forwarded("revoke") => Len(verdict.sent.token) = 1 /\ verdict.sent.token # <<"">>
<1>1. ASSUME Forwarded("authorize")
      PROVE  \E query \in Inputs.authorize : verdict = handleAuthorize(query)
  BY <1>1 DEF InputInv, Judged, Forwarded, Handled
<1>2. ASSUME Forwarded("token")
      PROVE  \E tokenForm \in Inputs.token : verdict = handleToken(tokenForm)
  <2>1. PICK input \in Inputs.token, readable \in BOOLEAN :
          verdict = Handled("token", input, readable)
    BY <1>2 DEF InputInv, Judged, Forwarded
  <2>2. readable
    BY <1>2, <2>1 DEF Handled, Verdict, Forwarded
  <2>3. QED
    BY <2>1, <2>2 DEF Handled
<1>3. ASSUME Forwarded("revoke")
      PROVE  Len(verdict.sent.token) = 1 /\ verdict.sent.token # <<"">>
  <2>1. PICK input \in Inputs.revoke, readable \in BOOLEAN :
          verdict = Handled("revoke", input, readable)
    BY <1>3 DEF InputInv, Judged, Forwarded
  <2>2. readable
    BY <1>3, <2>1 DEF Handled, Verdict, Forwarded
  <2>3. verdict = handleRevoke(input)
    BY <2>1, <2>2 DEF Handled
  <2>4. verdict.sent = input /\ singleRequired(input.token)
    BY <1>3, <2>3 DEF handleRevoke, Verdict, Forwarded
  <2>5. QED
    BY <2>4, FirstOfOne DEF singleRequired
<1>4. QED
  BY <1>1, <1>2, <1>3 DEF Forwarded

\* Whatever the caller asks for, Hydra is sent one audience and one resource and both
\* are the contract's (handleAuthorize, handleToken).
THEOREM OneAudience == Spec => []AudienceIsOurs
<1>1. InputInv => AudienceIsOurs
  BY ForwardedMeans, AuthorizeForwards, TokenForwards DEF AudienceIsOurs
<1>2. QED
  BY <1>1, InputInductive, PTL

\* What the checks have read is sent as it was read: once and not empty
\* (singleRequired, singleEquals in every handler that forwards).
THEOREM OneMeaning == Spec => []SentOnce
<1>1. ASSUME InputInv PROVE SentOnce
  <2> DEFINE Once(values) == Len(values) = 1 /\ values # <<"">>
  <2>1. \A value : Len(<<value>>) = 1 /\ (value # "" => Once(<<value>>))
    BY FirstOfOne
  <2> HIDE DEF Once
  <2>2. ASSUME Forwarded("authorize")
        PROVE  \A name \in {"client_id", "redirect_uri", "response_type", "scope",
                            "code_challenge", "code_challenge_method"} :
                 Once(verdict.sent[name])
    <3>1. PICK query \in Inputs.authorize :
            /\ verdict.sent = handleAuthorize(query).sent
            /\ handleAuthorize(query).route # "none"
      BY <1>1, <2>2, ForwardedMeans
    <3> DEFINE sent == verdict.sent
    <3>2. /\ sent.client_id \in {<<"url">>, <<"unsafe url">>, <<"name">>}
          /\ sent.redirect_uri \in {<<"uri">>, <<"unsafe uri">>}
          /\ sent.response_type = <<"code">>
          /\ sent.scope \in {<<"mcp">>, <<"offline_access mcp">>}
          /\ sent.code_challenge = <<"challenge">> /\ sent.code_challenge_method = <<"S256">>
      BY <3>1, AuthorizeForwards
    <3> HIDE DEF sent
    <3>3. /\ Once(<<"url">>) /\ Once(<<"unsafe url">>) /\ Once(<<"name">>)
          /\ Once(<<"uri">>) /\ Once(<<"unsafe uri">>) /\ Once(<<"code">>)
          /\ Once(<<"mcp">>) /\ Once(<<"offline_access mcp">>)
          /\ Once(<<"challenge">>) /\ Once(<<"S256">>)
      BY <2>1
    <3>4. /\ Once(sent.client_id) /\ Once(sent.redirect_uri) /\ Once(sent.response_type)
          /\ Once(sent.scope) /\ Once(sent.code_challenge) /\ Once(sent.code_challenge_method)
      BY <3>2, <3>3
    <3>5. QED
      BY <3>4 DEF sent
  <2>3. ASSUME Forwarded("token")
        PROVE  Len(verdict.sent.grant_type) = 1 /\ Len(verdict.sent.scope) <= 1
    <3>1. Len(<<>>) = 0
      OBVIOUS
    <3>2. PICK tokenForm \in Inputs.token :
            /\ verdict.sent = handleToken(tokenForm).sent
            /\ handleToken(tokenForm).route # "none"
      BY <1>1, <2>3, ForwardedMeans
    <3>3. /\ verdict.sent.grant_type \in {<<"authorization_code">>, <<"refresh_token">>}
          /\ verdict.sent.scope \in {<<>>, <<"mcp">>, <<"offline_access mcp">>}
      BY <3>2, TokenForwards
    <3>4. Len(<<"authorization_code">>) = 1 /\ Len(<<"refresh_token">>) = 1
          /\ Len(<<"mcp">>) = 1 /\ Len(<<"offline_access mcp">>) = 1
      OBVIOUS
    <3>5. Len(verdict.sent.grant_type) = 1
      BY <3>3, <3>4
    <3>6. Len(verdict.sent.scope) = 0 \/ Len(verdict.sent.scope) = 1
      BY <3>1, <3>3, <3>4
    <3>7. \A n : n = 0 \/ n = 1 => n =< 1
      OBVIOUS
    <3>8. QED
      BY <3>5, <3>6, <3>7, Zenon
  <2>4. QED
    BY <1>1, <2>2, <2>3, ForwardedMeans DEF SentOnce, Once
<1>2. QED
  BY <1>1, InputInductive, PTL

\* The document of a URL-form client is resolved exactly when the request does not name
\* one verifier, once, neither empty nor too long (hydraAuthorizationContinuation).
THEOREM DocumentsAreResolved == Spec => []OnlyVerifiersSkipTheDocument
<1>1. InputInv => OnlyVerifiersSkipTheDocument
  BY ForwardedMeans, AuthorizeForwards DEF OnlyVerifiersSkipTheDocument
<1>2. QED
  BY <1>1, InputInductive, PTL

\* No authorization without a challenge, no code without a verifier (handleAuthorize,
\* handleToken).
THEOREM ProofOfPossession == Spec => []PKCEOnBothEnds
<1>1. InputInv => PKCEOnBothEnds
  BY ForwardedMeans, AuthorizeForwards, TokenForwards DEF PKCEOnBothEnds
<1>2. QED
  BY <1>1, InputInductive, PTL

\* Only mcp, alone or with offline_access, is ever asked of Hydra
\* (hasMCPAuthorizationScopes).
THEOREM NoOtherScope == Spec => []ScopeIsOurs
<1>1. InputInv => ScopeIsOurs
  BY ForwardedMeans, AuthorizeForwards, TokenForwards DEF ScopeIsOurs
<1>2. QED
  BY <1>1, InputInductive, PTL

-----------------------------------------------------------------------------
\* The headers of a request to Hydra are what the facade sets and what it may copy.
LEMMA HeadersToHydra ==
  ASSUME NEW path, NEW content, NEW credentials \in SUBSET {"Authorization", "Cookie"}
  PROVE  LET sent == RequestToHydra(path, content, credentials)
         IN /\ sent.host = Issuer
            /\ sent # <<>>
            /\ DOMAIN sent.headers =
                 {"X-Forwarded-Host", "X-Forwarded-Proto", "Accept", "User-Agent"} \cup credentials
                   \cup (IF content = "none" THEN {} ELSE {"Content-Type"})
            /\ sent.headers["X-Forwarded-Host"] = <<Issuer>>
            /\ sent.headers["X-Forwarded-Proto"] = <<"https">>
            /\ content # "none" => sent.headers["Content-Type"] = <<content>>
<1> DEFINE names == {"X-Forwarded-Host", "X-Forwarded-Proto"} \cup
                      (IF content = "none" THEN {} ELSE {"Content-Type"})
           set == [name \in names |->
                     CASE name = "X-Forwarded-Host" -> <<Issuer>>
                       [] name = "X-Forwarded-Proto" -> <<"https">>
                       [] name = "Content-Type" -> <<content>>]
           copied == copyProxyRequestHeaders(ClientHeaders, credentials)
           sent == RequestToHydra(path, content, credentials)
<1>1. DOMAIN copied = {"Accept", "User-Agent"} \cup credentials
  BY DEF copyProxyRequestHeaders, Restrict, ClientHeaders
<1>2. sent.host = Issuer /\ sent.headers = Set(set, copied)
  BY DEF RequestToHydra
<1>3. DOMAIN set = names
  OBVIOUS
<1>4. /\ set["X-Forwarded-Host"] = <<Issuer>> /\ set["X-Forwarded-Proto"] = <<"https">>
      /\ content # "none" => set["Content-Type"] = <<content>>
  OBVIOUS
<1> HIDE DEF copied, set, sent
<1>5. DOMAIN sent.headers = names \cup DOMAIN copied
      /\ \A name \in names : sent.headers[name] = set[name]
  BY <1>2, <1>3 DEF Set
<1>6. sent # <<>>
  <2>1. "host" \in DOMAIN sent
    BY DEF sent, RequestToHydra
  <2>2. DOMAIN <<>> = {}
    OBVIOUS
  <2>3. QED
    BY <2>1, <2>2
<1>7. QED
  BY <1>1, <1>2, <1>4, <1>5, <1>6 DEF sent

\* Hydra is given the caller's credentials where the endpoint authenticates with them
\* and nowhere else, and never the host the caller claims (copyProxyRequestHeaders).
THEOREM CredentialsStayHome == Spec => []CredentialsOnlyWhereNeeded
<1> DEFINE Credentials ==
             CASE endpoint = "authorize" -> {"Cookie"}
               [] endpoint \in {"token", "revoke", "manage"} -> {"Authorization"}
               [] OTHER -> {}
<1>1. ASSUME InputInv, request # <<>>
      PROVE  /\ endpoint \in {"authorize", "token", "revoke", "jwks", "fallback", "register", "manage"}
             /\ \E path, content :
                  /\ content # "client"
                  /\ request = RequestToHydra(path, content, Credentials)
  <2>1. /\ endpoint \in DOMAIN Inputs /\ verdict.route # "none"
        /\ request = Forwarding(endpoint, verdict.sent)
    BY <1>1 DEF InputInv, Judged, Called
  <2>2. endpoint \notin {"ready", "resource", "discovery"}
    <3>1. PICK input \in Inputs[endpoint], readable \in BOOLEAN :
            verdict = Handled(endpoint, input, readable)
      BY <1>1 DEF InputInv, Judged, Called
    <3>2. endpoint \in {"ready", "resource", "discovery"} => verdict.route = "none"
      BY <3>1 DEF Handled, Verdict
    <3>3. QED
      BY <2>1, <3>2
  <2>3. endpoint \in {"authorize", "token", "revoke", "jwks", "fallback", "register", "manage"}
    BY <2>1, <2>2 DEF Inputs
  <2> DEFINE Fits(path, content) ==
               content # "client" /\ request = RequestToHydra(path, content, Credentials)
  <2>4. \E path, content : Fits(path, content)
    <3> SUFFICES ASSUME NEW content, NEW path, request = RequestToHydra(path, content, Credentials),
                        content \in {"none", "form", "json"}
                 PROVE  \E path1, content1 : Fits(path1, content1)
      BY <2>1, <2>3 DEF Forwarding
    <3>1. content # "client"
      OBVIOUS
    <3>2. Fits(path, content)
      BY <3>1
    <3>3. QED
      BY <3>2
  <2>5. QED
    BY <2>3, <2>4
<1>2. ASSUME InputInv PROVE CredentialsOnlyWhereNeeded
  <2>1. SUFFICES ASSUME request # <<>>
                 PROVE  /\ Sent("Cookie") <=> endpoint = "authorize"
                        /\ Sent("Authorization") <=> endpoint \in {"token", "revoke", "manage"}
                        /\ request.host = Issuer
                        /\ \A name \in {"X-Forwarded-Host", "X-Forwarded-Proto", "Content-Type"} :
                             Sent(name) => request.headers[name] # <<"client">>
    BY DEF CredentialsOnlyWhereNeeded
  <2>2. PICK path, content :
          content # "client" /\ request = RequestToHydra(path, content, Credentials)
    BY <1>1, <1>2, <2>1
  <2>3. QED
    <3>1. Credentials \in SUBSET {"Authorization", "Cookie"}
      BY <1>1, <1>2, <2>1
    <3>2. /\ request.host = Issuer
          /\ DOMAIN request.headers =
               {"X-Forwarded-Host", "X-Forwarded-Proto", "Accept", "User-Agent"} \cup Credentials
                 \cup (IF content = "none" THEN {} ELSE {"Content-Type"})
          /\ request.headers["X-Forwarded-Host"] = <<Issuer>>
          /\ request.headers["X-Forwarded-Proto"] = <<"https">>
          /\ content # "none" => request.headers["Content-Type"] = <<content>>
      <4> HIDE DEF Credentials
      <4> QED
        BY <2>2, <3>1, HeadersToHydra
    <3>3. /\ "Cookie" \in Credentials <=> endpoint = "authorize"
          /\ "Authorization" \in Credentials <=> endpoint \in {"token", "revoke", "manage"}
      BY <1>1, <1>2, <2>1
    <3>4. Issuer # "client"
      BY InputAssumption
    <3> HIDE DEF Credentials
    <3>5. /\ Sent("Cookie") <=> endpoint = "authorize"
          /\ Sent("Authorization") <=> endpoint \in {"token", "revoke", "manage"}
      BY <2>1, <3>2, <3>3 DEF Sent
    <3>6. ASSUME NEW name \in {"X-Forwarded-Host", "X-Forwarded-Proto", "Content-Type"}, Sent(name)
          PROVE  request.headers[name] # <<"client">>
      <4>1. <<Issuer>> # <<"client">> /\ <<"https">> # <<"client">> /\ <<content>> # <<"client">>
        BY <2>2, <3>4, FirstOfOne
      <4>2. CASE name = "X-Forwarded-Host"
        BY <3>2, <4>1, <4>2
      <4>3. CASE name = "X-Forwarded-Proto"
        BY <3>2, <4>1, <4>3
      <4>4. CASE name = "Content-Type"
        <5>1. content # "none"
          BY <3>1, <3>2, <3>6, <4>4 DEF Sent
        <5>2. QED
          BY <3>2, <4>1, <4>4, <5>1
      <4>5. QED
        BY <4>2, <4>3, <4>4
    <3>7. QED
      BY <3>2, <3>5, <3>6
<1>3. QED
  BY <1>2, InputInductive, PTL

\* An error of the facade's own carries nothing of what Hydra has answered
\* (clearHeaders before writeProtocolError in proxy).
THEOREM NothingLeaks == Spec => []NothingOfARefusedAnswer
<1>1. ASSUME NEW response \in Responses, NEW rewrite \in BOOLEAN,
             proxy(response, rewrite).status = 502
      PROVE  proxy(response, rewrite) = Unavailable(NoHeaders)
  <2>1. CASE response = NoResponse
    BY <2>1 DEF proxy
  <2>2. CASE response # NoResponse
    <3>1. response.status # 502
      <4>1. response \in [status : {200, 201, 204, 302, 400}, headers : {HydraHeaders},
                          body : Bodies]
        BY <2>2 DEF Responses
      <4>2. QED
        BY <4>1
    <3>2. DOMAIN response = {"status", "headers", "body"}
      BY DEF Responses, NoResponse
    <3> DEFINE headers == copyProxyResponseHeaders(response.headers)
    <3>3. [response EXCEPT !.headers = headers].status # 502
      BY <3>1, <3>2
    <3>4. rewriteRegistrationResponse(response, headers).status # 502
      BY <3>1 DEF rewriteRegistrationResponse
    <3>5. \/ proxy(response, rewrite) = [response EXCEPT !.headers = headers]
          \/ proxy(response, rewrite) = rewriteRegistrationResponse(response, headers)
          \/ proxy(response, rewrite) = Unavailable(clearHeaders(headers))
      BY <2>2 DEF proxy
    <3>6. QED
      BY <1>1, <3>3, <3>4, <3>5 DEF clearHeaders
  <2>3. QED
    BY <2>1, <2>2
<1>2. LET answer == Unavailable(NoHeaders)
      IN /\ \A name \in DOMAIN answer.headers : answer.headers[name] = << <<"facade">> >>
         /\ answer.body.client_id = "none"
  <2>1. DOMAIN NoHeaders = {}
    BY DEF NoHeaders
  <2>2. QED
    BY <2>1 DEF Unavailable, ProtocolError, Set, Body
<1>3. ASSUME InputInv PROVE NothingOfARefusedAnswer
  <2>1. SUFFICES ASSUME reply # <<>>, reply.status = 502
                 PROVE  reply = Unavailable(NoHeaders)
    BY <1>2 DEF NothingOfARefusedAnswer
  <2>2. PICK response \in Responses : reply = proxy(response, rewriteRegistration(endpoint))
    BY <1>3, <2>1 DEF InputInv, Answered
  <2>3. rewriteRegistration(endpoint) \in BOOLEAN
    BY DEF rewriteRegistration
  <2>4. QED
    BY <1>1, <2>1, <2>2, <2>3
<1>4. QED
  BY <1>3, InputInductive, PTL

-----------------------------------------------------------------------------
\* Tuples are equal when their elements are.
LEMMA Pairs ==
  ASSUME NEW a, NEW b, NEW c, NEW d
  PROVE  <<a, b>> = <<c, d>> <=> a = c /\ b = d
OBVIOUS

\* No route's path is another's: they differ in length or in a segment.
LEMMA PathsDiffer ==
  ASSUME NEW a, NEW b, NEW c, NEW d, NEW e
  PROVE  /\ <<a, b>> # <<c, d, e>>
         /\ Len(<<a, b>>) = 2 /\ Len(<<c, d, e>>) = 3
         /\ <<c, d, e>>[3] = e
OBVIOUS

LEMMA Triples ==
  ASSUME NEW a, NEW b, NEW c, NEW d, NEW e, NEW f, <<a, b, c>> = <<d, e, f>>
  PROVE  a = d /\ b = e /\ c = f
OBVIOUS

\* The routes of the endpoints that are advertised.
LEMMA ServedRoutes ==
  /\ RouteOf("GET", <<"oauth2", "auth">>) = "authorize"
  /\ RouteOf("POST", <<"oauth2", "token">>) = "token"
  /\ RouteOf("POST", <<"oauth2", "revoke">>) = "revoke"
  /\ RouteOf("GET", <<".well-known", "jwks.json">>) = "jwks"
  /\ RouteOf("POST", <<"oauth2", "register">>) = "register"
BY Pairs, PathsDiffer DEF RouteOf, RegistrationPath

\* The route of a registration.
LEMMA ManagedRoute ==
  ASSUME NEW id
  PROVE  RouteOf("GET", RegistrationPath(id)) = IF id \in DotSegments THEN "none" ELSE "manage"
<1>1. /\ <<"GET", RegistrationPath(id)>> # <<"GET", <<".well-known", "oauth-authorization-server">>>>
      /\ <<"GET", RegistrationPath(id)>> # <<"GET", <<".well-known", "oauth-protected-resource", "mcp">>>>
      /\ <<"GET", RegistrationPath(id)>> # <<"GET", <<"health", "ready">>>>
      /\ <<"GET", RegistrationPath(id)>> # <<"GET", <<"oauth2", "fallbacks", "error">>>>
      /\ <<"GET", RegistrationPath(id)>> # <<"GET", <<".well-known", "jwks.json">>>>
      /\ <<"GET", RegistrationPath(id)>> # <<"GET", <<"oauth2", "auth">>>>
      /\ <<"GET", RegistrationPath(id)>> # <<"POST", <<"oauth2", "token">>>>
      /\ <<"GET", RegistrationPath(id)>> # <<"POST", <<"oauth2", "revoke">>>>
      /\ <<"GET", RegistrationPath(id)>> # <<"POST", <<"oauth2", "register">>>>
  BY Pairs, PathsDiffer, Triples DEF RegistrationPath
<1>2. Len(RegistrationPath(id)) = 3 /\ RegistrationPath(id)[3] = id
  BY PathsDiffer DEF RegistrationPath
<1>3. QED
  BY <1>1, <1>2, Zenon DEF RouteOf

\* The path of a URL is what follows the issuer.
LEMMA TailOfUrl ==
  ASSUME NEW a, NEW b, NEW c, NEW d
  PROVE  /\ Tail(<<a, b, c>>) = <<b, c>>
         /\ Tail(<<a, b, c, d>>) = <<b, c, d>>
         /\ <<a, b, c, d>>[1] = a
OBVIOUS

\* The answers that may hold a registration.
Registers(status) == status \in {200, 201, 204}

\* No error of the facade's own is among them.
LEMMA ErrorsRegisterNothing ==
  /\ \A headers : ~ Registers(Unavailable(headers).status)
  /\ \A status : Registers(status) => Succeeded(status)
<1>1. \A headers : Unavailable(headers).status = 502
  BY DEF Unavailable, ProtocolError
<1>2. QED
  BY <1>1 DEF Registers, Succeeded

\* A registration that Hydra has answered with has the id and the place of a client
\* that the facade manages (rewriteRegistrationResponse).
LEMMA RegistrationAnswers ==
  ASSUME NEW response \in Responses, NEW answer, answer = proxy(response, TRUE),
         Registers(answer.status), answer.body # Empty,
         NEW id, id = response.body.client_id
  PROVE  /\ answer.body.client_id = id /\ IsDynamicClientID(id)
         /\ answer.body.registration_client_uri = RegistrationURI(id)
         /\ answer.headers["Location"] = <<RegistrationURI(id)>>
<1> DEFINE headers == copyProxyResponseHeaders(response.headers)
           rewritten == rewriteRegistrationResponse(response, headers)
<1>1. answer # Unavailable(NoHeaders) /\ answer # Unavailable(clearHeaders(headers))
  BY ErrorsRegisterNothing, Zenon
<1>2. response # NoResponse
  BY <1>1 DEF proxy
<1>3. /\ DOMAIN response = {"status", "headers", "body"} /\ response.body \in Bodies
  BY <1>2 DEF Responses
<1>4. \/ /\ response.body # Empty /\ Succeeded(response.status)
         /\ Rewritable(response.body) /\ answer = rewritten
      \/ /\ response.body = Empty \/ ~ Succeeded(response.status)
         /\ answer = [response EXCEPT !.headers = headers]
  <2> HIDE DEF headers, rewritten
  <2>1. CASE response.body = Empty \/ ~ Succeeded(response.status)
    BY <1>2, <2>1, Zenon DEF proxy, headers
  <2>2. CASE response.body # Empty /\ Succeeded(response.status)
    <3>1. answer = IF Rewritable(response.body) THEN rewritten
                                                ELSE Unavailable(clearHeaders(headers))
      BY <1>2, <2>2 DEF proxy, headers, rewritten
    <3>2. QED
      BY <1>1, <2>2, <3>1
  <2>3. QED
    BY <2>1, <2>2
<1> HIDE DEF headers
<1>5. Rewritable(response.body) /\ answer = rewritten
  <2>1. ASSUME answer = [response EXCEPT !.headers = headers]
        PROVE  response.body # Empty /\ Succeeded(response.status)
    <3>1. \A answered : answered = [response EXCEPT !.headers = headers] =>
            answered.status = response.status /\ answered.body = response.body
      BY <1>3
    <3>2. answer.status = response.status /\ answer.body = response.body
      BY <2>1, <3>1, Zenon
    <3>3. QED
      BY <1>4, <3>2, ErrorsRegisterNothing, Zenon
  <2>2. QED
    BY <1>4, <2>1
<1>6. response.body.client_id = id /\ IsDynamicClientID(id)
  BY <1>5 DEF Rewritable
<1>7. \E f, c, u : response.body = Body(f, c, u)
  <2>1. response.body \in {Empty, Body("text", "none", <<>>), Body("object", "none", <<>>)}
          \/ \E c \in {"id", ".", "..", "unsafe id"} : response.body = Body("object", c, <<"hydra">>)
    BY <1>3 DEF Bodies
  <2>2. Empty = Body("empty", "none", <<>>)
    BY DEF Empty
  <2>3. CASE \E c \in {"id", ".", "..", "unsafe id"} : response.body = Body("object", c, <<"hydra">>)
    BY <2>3, Zenon
  <2>4. CASE response.body = Empty
    BY <2>2, <2>4, Zenon
  <2>5. CASE response.body = Body("text", "none", <<>>) \/ response.body = Body("object", "none", <<>>)
    BY <2>5, Zenon
  <2>6. QED
    BY <2>1, <2>3, <2>4, <2>5, Zenon
<1>8. DOMAIN response.body = {"form", "client_id", "registration_client_uri"}
  BY <1>7 DEF Body
<1> HIDE DEF rewritten
<1>9. /\ answer.body = [response.body EXCEPT !.registration_client_uri = RegistrationURI(id)]
      /\ answer.headers = Set([name \in {"Location"} |-> <<RegistrationURI(id)>>], headers)
  <2>1. answer = rewriteRegistrationResponse(response, headers)
    BY <1>5 DEF rewritten
  <2>2. /\ rewriteRegistrationResponse(response, headers).body
             = [response.body EXCEPT !.registration_client_uri = RegistrationURI(id)]
        /\ rewriteRegistrationResponse(response, headers).headers
             = Set([name \in {"Location"} |-> <<RegistrationURI(id)>>], headers)
    BY <1>6 DEF rewriteRegistrationResponse
  <2>3. QED
    BY <2>1, <2>2, Zenon
<1>10. answer.headers["Location"] = <<RegistrationURI(id)>>
  BY <1>9 DEF Set
<1>11. QED
  BY <1>6, <1>8, <1>9, <1>10

\* Whatever Hydra answers, a registration that reaches the client names the place at
\* the issuer where the facade manages that same registration, unless Hydra has made
\* its id a dot segment, whose place has no route (rewriteRegistrationResponse, routes).
THEOREM RegistrationsAreManageable == Spec => []RegistrationCanBeManaged
<1>1. ASSUME InputInv PROVE RegistrationCanBeManaged
  <2> DEFINE id == reply.body.client_id
             uri == RegistrationURI(id)
             get == [method |-> "GET", client_id |-> id, body |-> "accepted"]
  <2>1. SUFFICES ASSUME reply # <<>>, endpoint \in {"register", "manage"},
                        Registers(reply.status), reply.body # Empty
                 PROVE  /\ IsDynamicClientID(id)
                        /\ reply.body.registration_client_uri = uri
                        /\ reply.headers["Location"] = <<uri>>
                        /\ uri[1] = Issuer
                        /\ RouteOf("GET", Tail(uri))
                             = IF id \in DotSegments THEN "none" ELSE "manage"
                        /\ handleRegistrationManagement(get).route = "plain"
                        /\ Forwarding("manage", get).path = Tail(uri)
    BY DEF RegistrationCanBeManaged, Registers
  <2>2. PICK response \in Responses : reply = proxy(response, rewriteRegistration(endpoint))
    BY <1>1, <2>1 DEF InputInv, Answered
  <2>3. rewriteRegistration(endpoint) = TRUE
    BY <2>1 DEF rewriteRegistration
  <2>4. /\ IsDynamicClientID(id) /\ reply.body.registration_client_uri = uri
        /\ reply.headers["Location"] = <<uri>>
    <3>1. reply = proxy(response, TRUE)
      BY <2>2, <2>3
    <3> DEFINE registered == response.body.client_id
    <3>2. /\ reply.body.client_id = registered /\ IsDynamicClientID(registered)
          /\ reply.body.registration_client_uri = RegistrationURI(registered)
          /\ reply.headers["Location"] = <<RegistrationURI(registered)>>
      BY <2>1, <3>1, RegistrationAnswers, Zenon
    <3> HIDE DEF registered
    <3>3. QED
      BY <3>2
  <2>5. uri[1] = Issuer /\ Tail(uri) = RegistrationPath(id)
    BY TailOfUrl DEF RegistrationURI, RegistrationPath
  <2>6. RouteOf("GET", Tail(uri)) = IF id \in DotSegments THEN "none" ELSE "manage"
    BY <2>5, ManagedRoute
  <2>7. handleRegistrationManagement(get).route = "plain"
    <3> DEFINE checks == <<
        Check(~IsDynamicClientID(get.client_id), "invalid_client"),
        Check(get.method = "PUT" /\ get.body # "accepted", "invalid_client_metadata")>>
    <3>1. ~ checks[1].fails /\ ~ checks[2].fails /\ DOMAIN checks = 1..2
      <4>1. ~ (get.method = "PUT" /\ get.body # "accepted")
        OBVIOUS
      <4>2. IsDynamicClientID(get.client_id)
        BY <2>4
      <4> HIDE DEF get
      <4>3. ~ checks[1].fails
        BY <4>2 DEF Check
      <4>4. ~ checks[2].fails
        BY <4>1 DEF Check
      <4>5. QED
        BY <4>3, <4>4
    <3>2. FirstError(checks) = "none"
      <4> HIDE DEF checks
      <4>1. \A i \in DOMAIN checks : ~ checks[i].fails
        BY <3>1
      <4>2. QED
        BY <4>1, NoErrorFound
    <3>3. QED
      BY <3>2 DEF handleRegistrationManagement, Verdict
  <2>8. Forwarding("manage", get).path = Tail(uri)
    BY <2>5 DEF Forwarding, RequestToHydra
  <2>9. QED
    BY <2>4, <2>5, <2>6, <2>7, <2>8
<1>2. QED
  BY <1>1, InputInductive, PTL

-----------------------------------------------------------------------------
\* A query without a verifier whose parameters are right is forwarded.
LEMMA AuthorizeServes ==
  ASSUME NEW query, VerifiersOf(query) = {},
         query.client_id = <<"url">>, query.redirect_uri = <<"uri">>,
         query.response_type = <<"code">>, hasMCPAuthorizationScopes(query.scope),
         query.resource = <<Resource>>, query.request = <<>>, query.request_uri = <<>>,
         query.audience = <<>>, query.code_challenge = <<"challenge">>,
         query.code_challenge_method = <<"S256">>
  PROVE  handleAuthorize(query).route # "none"
<1> DEFINE continued == hydraAuthorizationContinuation(query)
           checks == <<
        Check(VerifiersOf(query) # {} /\ ~hydraAuthorizationContinuation(query),
              "invalid_request"),
        Check(~singleRequired(query.client_id), "invalid_request"),
        Check(~singleRequired(query.redirect_uri), "invalid_request"),
        Check(query.redirect_uri = <<"unsafe uri">>, "invalid_request"),
        Check(~singleEquals(query.response_type, "code"), "unsupported_response_type"),
        Check(~hasMCPAuthorizationScopes(query.scope), "invalid_scope"),
        Check(~requireExactResource(query), "invalid_target"),
        Check(query.request # <<>> \/ query.request_uri # <<>>, "invalid_request"),
        Check(~AudienceAccepted(query), "invalid_request"),
        Check(~ChallengeAccepted(query), "invalid_request"),
        Check(query.client_id = <<"unsafe url">> /\ ~hydraAuthorizationContinuation(query),
              "invalid_request")>>
<1>1. ~ hydraAuthorizationContinuation(query)
  BY DEF hydraAuthorizationContinuation
<1>2. /\ singleRequired(<<"url">>) /\ singleRequired(<<"uri">>) /\ singleRequired(<<"challenge">>)
      /\ <<"uri">> # <<"unsafe uri">> /\ <<"url">> # <<"unsafe url">>
      /\ <<"challenge">>[1] = "challenge"
  BY DEF singleRequired
<1>3. /\ singleRequired(query.client_id) /\ singleRequired(query.redirect_uri)
      /\ query.redirect_uri # <<"unsafe uri">> /\ query.client_id # <<"unsafe url">>
  BY <1>2
<1>4. /\ singleEquals(query.response_type, "code") /\ requireExactResource(query)
      /\ AudienceAccepted(query) /\ ChallengeAccepted(query)
  BY <1>1, <1>2 DEF singleEquals, requireExactResource, AudienceAccepted, ChallengeAccepted
<1>5. ~ checks[1].fails /\ ~ checks[2].fails /\ ~ checks[3].fails /\ ~ checks[4].fails
  BY <1>1, <1>3 DEF Check
<1>6. ~ checks[5].fails /\ ~ checks[6].fails /\ ~ checks[7].fails /\ ~ checks[8].fails
  BY <1>4 DEF Check
<1>7. ~ checks[9].fails /\ ~ checks[10].fails /\ ~ checks[11].fails /\ DOMAIN checks = 1..11
  <2>1. ~ checks[9].fails /\ ~ checks[10].fails
    BY <1>4 DEF Check
  <2>2. ~ checks[11].fails
    BY <1>3 DEF Check
  <2>3. DOMAIN checks = 1..11
    OBVIOUS
  <2>4. QED
    BY <2>1, <2>2, <2>3
<1>8. FirstError(checks) = "none"
  <2> HIDE DEF checks
  <2>1. \A i \in DOMAIN checks : ~ checks[i].fails
    BY <1>5, <1>6, <1>7
  <2>2. QED
    BY <2>1, NoErrorFound
<1>9. QED
  BY <1>8 DEF handleAuthorize, Verdict

LEMMA TokenServes ==
  ASSUME NEW tokens, tokens.resource = <<Resource>>, tokens.audience = <<>>,
         tokens.grant_type \in GrantTypes, GrantProof(tokens), tokens.scope = <<>>
  PROVE  handleToken(tokens).route # "none"
<1> DEFINE checks == <<
        Check(~requireExactResource(tokens), "invalid_target"),
        Check(tokens.audience # <<>>, "invalid_request"),
        Check(tokens.grant_type \notin GrantTypes, "unsupported_grant_type"),
        Check(~GrantProof(tokens), "invalid_request"),
        Check(tokens.scope # <<>> /\ ~hasMCPAuthorizationScopes(tokens.scope),
              "invalid_scope")>>
<1>1. ~ checks[1].fails /\ ~ checks[2].fails /\ ~ checks[3].fails
  BY DEF Check, requireExactResource
<1>2. ~ checks[4].fails /\ ~ checks[5].fails /\ DOMAIN checks = 1..5
  <2>1. ~ checks[4].fails
    BY DEF Check
  <2>2. ~ checks[5].fails
    BY DEF Check
  <2>3. DOMAIN checks = 1..5
    OBVIOUS
  <2>4. QED
    BY <2>1, <2>2, <2>3
<1>3. FirstError(checks) = "none"
  <2> HIDE DEF checks
  <2>1. \A i \in DOMAIN checks : ~ checks[i].fails
    BY <1>1, <1>2
  <2>2. QED
    BY <2>1, NoErrorFound
<1>4. QED
  BY <1>3 DEF handleToken, Verdict

\* Both scopes that are advertised are accepted.
LEMMA ScopesAccepted ==
  /\ hasMCPAuthorizationScopes(<<"mcp">>) /\ hasMCPAuthorizationScopes(<<"offline_access mcp">>)
  /\ ToSet(WordsOf("mcp")) = {"mcp"}
  /\ ToSet(WordsOf("offline_access mcp")) = {"mcp", "offline_access"}
<1>1. WordsOf("mcp") = <<"mcp">> /\ WordsOf("offline_access mcp") = <<"offline_access", "mcp">>
  BY DEF WordsOf
<1>2. ToSet(<<"mcp">>) = {"mcp"} /\ ToSet(<<"offline_access", "mcp">>) = {"mcp", "offline_access"}
      /\ ToSet(<<"mcp", "offline_access">>) = {"mcp", "offline_access"}
  BY DEF ToSet
<1>3. sameStringSet(<<"mcp">>, <<"mcp">>)
  BY SameAsItself DEF IsInjective
<1>4. sameStringSet(<<"offline_access", "mcp">>, <<"mcp", "offline_access">>)
  <2>1. IsInjective(<<"offline_access", "mcp">>)
    BY ShortLists
  <2>2. Len(<<"offline_access", "mcp">>) = Len(<<"mcp", "offline_access">>)
    OBVIOUS
  <2>3. QED
    BY <1>2, <2>1, <2>2 DEF sameStringSet
<1>5. IsOurScope("mcp") /\ IsOurScope("offline_access mcp")
  BY <1>1, <1>3, <1>4 DEF IsOurScope
<1>6. Len(<<"mcp">>) = 1 /\ <<"mcp">>[1] = "mcp" /\ Len(<<"offline_access mcp">>) = 1
      /\ <<"offline_access mcp">>[1] = "offline_access mcp"
  OBVIOUS
<1>7. QED
  BY <1>1, <1>2, <1>5, <1>6 DEF hasMCPAuthorizationScopes

\* Among the requests there is one for each scope and each grant that is advertised.
\* The inputs reach two parameters of a token request.
LEMMA SomeDeviate == Deviations \in Nat /\ Deviations >= 1 /\ Deviations + 1 >= 2
<1>1. Deviations \in Nat \ {0}
  BY InputAssumption, Zenon
<1>2. QED
  BY <1>1

LEMMA AuthorizationsServed ==
  \A scope \in {<<"mcp">>, <<"offline_access mcp">>} :
    \E query \in Inputs.authorize :
      /\ query.scope = scope /\ query.resource = <<Resource>> /\ query.response_type = <<"code">>
      /\ query.code_challenge_method = <<"S256">>
      /\ handleAuthorize(query).route # "none"
<1> SUFFICES ASSUME NEW scope \in {<<"mcp">>, <<"offline_access mcp">>}
             PROVE  \E query \in Inputs.authorize :
                      /\ query.scope = scope /\ query.resource = <<Resource>>
                      /\ query.response_type = <<"code">>
                      /\ query.code_challenge_method = <<"S256">>
                      /\ handleAuthorize(query).route # "none"
  OBVIOUS
<1> DEFINE query == [NewAuthorization EXCEPT !["scope"] = scope]
<1>1. query \in Near(NewAuthorization, Authorizations, Deviations)
  <2>1. "scope" \in DOMAIN NewAuthorization /\ scope \in Authorizations.scope
    BY DEF NewAuthorization, Authorizations
  <2>2. Deviations \in Nat /\ Deviations >= 1
    BY SomeDeviate
  <2>3. QED
    BY <2>1, <2>2, NearHas
<1>2. query \in Inputs.authorize
  BY <1>1 DEF Inputs
<1>3. /\ query.login_verifier = <<>> /\ query.consent_verifier = <<>>
      /\ query.client_id = <<"url">> /\ query.redirect_uri = <<"uri">>
      /\ query.response_type = <<"code">> /\ query.scope = scope
      /\ query.resource = <<Resource>> /\ query.request = <<>> /\ query.request_uri = <<>>
      /\ query.audience = <<>> /\ query.code_challenge = <<"challenge">>
      /\ query.code_challenge_method = <<"S256">>
  BY DEF NewAuthorization
<1> HIDE DEF query
<1>4. VerifiersOf(query) = {}
  BY <1>3 DEF VerifiersOf
<1>5. hasMCPAuthorizationScopes(query.scope)
  BY <1>3, ScopesAccepted
<1>6. handleAuthorize(query).route # "none"
  BY <1>3, <1>4, <1>5, AuthorizeServes
<1>7. QED
  BY <1>2, <1>3, <1>6

LEMMA TokensServed ==
  \A grant \in {"authorization_code", "refresh_token"} :
    \E tokens \in Inputs.token :
      tokens.grant_type = <<grant>> /\ handleToken(tokens).route # "none"
<1>1. /\ singleRequired(<<"verifier">>) /\ singleRequired(<<"token">>)
      /\ <<"verifier">>[1] = "verifier" /\ <<"refresh_token">> # <<"authorization_code">>
  BY DEF singleRequired
<1>2. Deviations + 1 \in Nat /\ Deviations + 1 >= 2
  BY SomeDeviate
<1>3. \E tokens \in Inputs.token :
        tokens.grant_type = <<"authorization_code">> /\ handleToken(tokens).route # "none"
  <2>1. CodeRedemption \in Inputs.token
    BY <1>2, NearHas DEF Inputs
  <2>2. /\ CodeRedemption.resource = <<Resource>> /\ CodeRedemption.audience = <<>>
        /\ CodeRedemption.grant_type = <<"authorization_code">> /\ CodeRedemption.scope = <<>>
        /\ CodeRedemption.code_verifier = <<"verifier">>
    BY DEF CodeRedemption
  <2>3. CodeRedemption.grant_type \in GrantTypes /\ GrantProof(CodeRedemption)
    BY <1>1, <2>2 DEF GrantTypes, GrantProof
  <2>4. handleToken(CodeRedemption).route # "none"
    BY <2>2, <2>3, TokenServes
  <2>5. QED
    BY <2>1, <2>2, <2>4
<1>4. \E tokens \in Inputs.token :
        tokens.grant_type = <<"refresh_token">> /\ handleToken(tokens).route # "none"
  <2> DEFINE tokens == [[CodeRedemption EXCEPT !["grant_type"] = <<"refresh_token">>]
                          EXCEPT !["refresh_token"] = <<"token">>]
  <2>1. /\ "grant_type" \in DOMAIN CodeRedemption /\ "refresh_token" \in DOMAIN CodeRedemption
        /\ <<"refresh_token">> \in TokenRequests["grant_type"]
        /\ <<"token">> \in TokenRequests["refresh_token"]
    BY DEF CodeRedemption, TokenRequests
  <2>2. tokens \in Near(CodeRedemption, TokenRequests, Deviations + 1)
    BY <1>2, <2>1, NearHas
  <2>3. tokens \in Inputs.token
    BY <2>2 DEF Inputs
  <2>4. /\ tokens.resource = <<Resource>> /\ tokens.audience = <<>>
        /\ tokens.grant_type = <<"refresh_token">> /\ tokens.scope = <<>>
        /\ tokens.refresh_token = <<"token">>
    BY DEF CodeRedemption
  <2> HIDE DEF tokens
  <2>5. tokens.grant_type \in GrantTypes /\ GrantProof(tokens)
    BY <1>1, <2>4 DEF GrantTypes, GrantProof
  <2>6. handleToken(tokens).route # "none"
    BY <2>4, <2>5, TokenServes
  <2>7. QED
    BY <2>3, <2>4, <2>6
<1>5. QED
  BY <1>3, <1>4

\* What the discovery documents name is there: every endpoint has its handler at the
\* issuer, and every scope, type, grant and method some request that is forwarded;
\* and nothing else is forwarded, whatever deviates
\* (handleAuthorizationServerMetadata, routes).
THEOREM AdvertisementIsTrue == Spec => []AdvertisedIsServed
<1> DEFINE metadata == AuthorizationServerMetadata
           protected == ProtectedResourceMetadata
           At(method, name) == RouteOf(method, Tail(metadata[name]))
           Authorized(parameter, value) ==
             \E query \in Inputs.authorize :
               query[parameter] = <<value>> /\ handleAuthorize(query).route # "none"
<1>1. /\ At("GET", "authorization_endpoint") = "authorize"
      /\ At("POST", "token_endpoint") = "token"
      /\ At("POST", "revocation_endpoint") = "revoke"
      /\ At("GET", "jwks_uri") = "jwks"
      /\ At("POST", "registration_endpoint") = "register"
  <2>1. /\ metadata["authorization_endpoint"] = <<Issuer, "oauth2", "auth">>
        /\ metadata["token_endpoint"] = <<Issuer, "oauth2", "token">>
        /\ metadata["revocation_endpoint"] = <<Issuer, "oauth2", "revoke">>
        /\ metadata["jwks_uri"] = <<Issuer, ".well-known", "jwks.json">>
        /\ metadata["registration_endpoint"] = <<Issuer, "oauth2", "register">>
    BY DEF AuthorizationServerMetadata
  <2> HIDE DEF metadata
  <2>2. QED
    BY <2>1, TailOfUrl, ServedRoutes
<1>2. /\ metadata.issuer = Issuer /\ metadata.scopes_supported = {"mcp", "offline_access"}
      /\ metadata.response_types_supported = {"code"}
      /\ metadata.grant_types_supported = {"authorization_code", "refresh_token"}
      /\ metadata.code_challenge_methods_supported = {"S256"}
      /\ protected.resource = Resource /\ protected.authorization_servers = {Issuer}
      /\ protected.scopes_supported = {"mcp"}
  BY DEF AuthorizationServerMetadata, ProtectedResourceMetadata
<1> HIDE DEF metadata, protected
<1>3. /\ Authorized("resource", Resource) /\ Authorized("response_type", "code")
      /\ Authorized("code_challenge_method", "S256")
  BY AuthorizationsServed
<1>4. \A scope \in {"mcp", "offline_access"} :
        \E query \in Inputs.authorize :
          /\ handleAuthorize(query).route # "none"
          /\ scope \in ToSet(WordsOf(query.scope[1]))
  <2>1. PICK query \in Inputs.authorize :
          query.scope = <<"offline_access mcp">> /\ handleAuthorize(query).route # "none"
    BY AuthorizationsServed
  <2>2. query.scope[1] = "offline_access mcp"
    BY <2>1, FirstOfOne
  <2>3. QED
    BY <2>1, <2>2, ScopesAccepted
<1>5. ASSUME InputInv, Forwarded("token")
      PROVE  verdict.sent.grant_type[1] \in metadata.grant_types_supported
  <2>1. verdict.sent.grant_type \in {<<"authorization_code">>, <<"refresh_token">>}
    BY <1>5, ForwardedMeans, TokenForwards
  <2>2. QED
    BY <1>2, <2>1, FirstOfOne
<1>6. ASSUME InputInv, Forwarded("authorize")
      PROVE  ToSet(WordsOf(verdict.sent.scope[1])) \subseteq metadata.scopes_supported
  <2>1. verdict.sent.scope \in {<<"mcp">>, <<"offline_access mcp">>}
    BY <1>6, ForwardedMeans, AuthorizeForwards
  <2>2. verdict.sent.scope[1] \in {"mcp", "offline_access mcp"}
    BY <2>1, FirstOfOne
  <2>3. QED
    BY <1>2, <2>2, ScopesAccepted
<1>7. ASSUME InputInv PROVE AdvertisedIsServed
  <2> HIDE DEF At, Authorized
  <2>1. /\ protected.authorization_servers = {metadata.issuer}
        /\ Authorized("resource", protected.resource)
        /\ \A type \in metadata.response_types_supported : Authorized("response_type", type)
        /\ \A method \in metadata.code_challenge_methods_supported :
             Authorized("code_challenge_method", method)
    BY <1>2, <1>3
  <2>2. \A scope \in metadata.scopes_supported \cup protected.scopes_supported :
          \E query \in Inputs.authorize :
            /\ handleAuthorize(query).route # "none"
            /\ scope \in ToSet(WordsOf(query.scope[1]))
    BY <1>2, <1>4
  <2>3. \A grant \in metadata.grant_types_supported :
          \E token \in Inputs.token :
            token.grant_type = <<grant>> /\ handleToken(token).route # "none"
    BY <1>2, TokensServed
  <2>4. QED
    BY <1>1, <1>5, <1>6, <1>7, <2>1, <2>2, <2>3, Zenon
       DEF AdvertisedIsServed, At, Authorized, metadata, protected
<1>8. QED
  BY <1>7, InputInductive, PTL

=============================================================================
