---------------------------- MODULE GatewayRules ----------------------------
(***************************************************************************)
(* The access rules of the gateway                                         *)
(* (src/internal/oathkeeperrules/generator.go): what routes.yml and the    *)
(* access roles of the contract's methods must be, and the rules that are  *)
(* generated from them.                                                    *)
(*                                                                         *)
(* A path is the sequence of its segments; the segment of a procedure      *)
(* "api.manage.v1.Service" stands as two, the package and the service.     *)
(* The text of the generated file, with its comments, versions and         *)
(* templates, is abstracted to the sequence of its rules.                  *)
(***************************************************************************)
EXTENDS Checks

-----------------------------------------------------------------------------
\* The sources.  routes.yml gives the origins and upstreams; a value stands for
\* the strings validateAbsoluteURL tells apart.

PublicOrigins == {"https site", "https other"}
AbsoluteURLs == PublicOrigins \cup {"http gateway", "http api", "http collab"}

validate(routes) ==
  /\ {routes.api, routes.auth, routes.collab} \subseteq PublicOrigins
  /\ {routes.apiInternal, routes.apiUpstream, routes.collabUpstream} \subseteq AbsoluteURLs

\* The contract maps the methods, pairs of service and method name, to the role
\* their access option declares: one of Roles, or one of the values that are
\* refused ("missing", "UNSPECIFIED", "ANON", "unsupported").  A pair that is no
\* method is "absent".
Roles == {"USER", "AUTHOR", "ADMIN"}

MethodsOf(contract) == {method \in DOMAIN contract : contract[method] # "absent"}

\* Mutant: a method without a usable role is left out of the rules.
LeftOut(contract) == TRUE

RolesAreDeclared(contract) ==
  \A method \in MethodsOf(contract) : contract[method] \in Roles

collectManageAuthorizationRoles(contract) ==
  [role \in Roles |-> {method \in MethodsOf(contract) : contract[method] = role}]

-----------------------------------------------------------------------------
\* Patterns and rules.

\* One segment, whichever.
OneSegment == "[^/]+"

\* What ends here, and what goes on ("/.*").
Exact(origin, path) == [origin |-> origin, path |-> path, open |-> FALSE]
Below(origin, path) == [origin |-> origin, path |-> path, open |-> TRUE]

ExactlyOneOf(origin, paths) == {Exact(origin, path) : path \in paths}

Rule(id, match, methods, authenticators, authorizer, mutator, upstream, strip) ==
  [id |-> id, match |-> match, methods |-> methods, authenticators |-> authenticators,
   authorizer |-> authorizer, mutator |-> mutator, upstream |-> upstream, strip |-> strip]

\* Authorizers; remote_json asks whether the subject has a role.
Allow == [handler |-> "allow", role |-> "none"]
Deny == [handler |-> "deny", role |-> "none"]
Ask(role) == [handler |-> "remote_json", role |-> role]

Session == <<"cookie_session">>
Anonymous == <<"anonymous">>

RPC == <<"api", "rpc">>
Auth == <<"api", "auth">>

apiRPCPathPattern(routes, package) ==
  {Below(origin, RPC \o <<package>>) : origin \in {routes.api, routes.apiInternal}}

ApiRules(routes) ==
  LET OpenToAll(id, path, method) ==
        Rule(id, {Exact(routes.api, path)}, {method}, Anonymous, Allow, "header",
             routes.apiUpstream, <<>>)
  IN << OpenToAll("api-health", <<"health">>, "GET"),
        OpenToAll("api-ses-callback", <<"callbacks", "ses">>, "POST") >>

\* The types of documents stand for two: one anybody may join, one for admins.
CollabRules(routes) ==
  LET WebSocket(id, type, authorizer) ==
        Rule(id, {Exact(routes.collab, <<"collab", type, OneSegment, OneSegment>>)}, {"GET"}, Session,
             authorizer, "header", routes.collabUpstream, <<"collab">>)
  IN << WebSocket("collab-websocket", "post", Allow),
        WebSocket("collab-websocket-admin", "menu", Ask("ADMIN")) >>

\* Mutant: the preflight rule takes the pattern of both origins, as its neighbours do.
OnBothOrigins(routes, package) == apiRPCPathPattern(routes, package)

OnPublicOrigin(routes, package) == {Below(routes.api, RPC \o <<package>>)}

PreflightRules(routes) ==
  LET Preflight(id, match, strip) ==
        Rule(id, match, {"OPTIONS"}, Anonymous, Allow, "header", routes.apiUpstream, strip)
  IN << Preflight("api-rpc-preflight",
          UNION {OnPublicOrigin(routes, package) : package \in {"api.open.v1", "api.manage.v1"}},
          RPC),
        Preflight("upload-preflight", {Below(routes.api, <<"api", "upload">>)}, <<"api">>) >>

InternalRules(routes) ==
  << Rule("block-internal-api", apiRPCPathPattern(routes, "api.intra.v1"),
          {"GET", "HEAD", "POST", "PUT", "PATCH", "DELETE", "OPTIONS"},
          <<"unauthorized">>, Deny, "noop", routes.apiUpstream, RPC) >>

-----------------------------------------------------------------------------
\* The authentication routes.  The preflight rule repeats, in one expression of its
\* own, what the other rules match.

AuthRule(routes, id, match, methods) ==
  Rule(id, match, methods, Anonymous, Allow, "noop", routes.apiUpstream, Auth)

\* self-service/(?:(?:verification|settings)/(?:browser|flows)|logout(?:/browser)?|
\* errors|methods/oidc/callback/[^/]+)
SelfServiceReads ==
  {Auth \o <<"self-service">> \o path : path \in
     ({"verification", "settings"} \X {"browser", "flows"})
       \cup {<<"logout">>, <<"logout", "browser">>, <<"errors">>,
             <<"methods", "oidc", "callback", OneSegment>>}}

SelfServiceForms ==
  {Auth \o <<"self-service", form>> : form \in {"verification", "settings"}}

Webauthn == Auth \o <<".well-known", "ory", "webauthn.js">>

\* Mutant: the optional /browser and /flows of the preflight's expression are forgotten.
PreflightWithoutFlows == {<<"verification">>, <<"settings">>}

\* (?:verification|settings)(?:/(?:browser|flows))?
PreflightedForms ==
  {<<"verification">>, <<"settings">>} \cup ({"verification", "settings"} \X {"browser", "flows"})

AuthPreflight(routes) ==
  ExactlyOneOf(routes.auth,
    {Auth \o <<"login">>, Auth \o <<"login", "flows">>, Webauthn}
      \cup {Auth \o <<"self-service">> \o path : path \in PreflightedForms \cup
              {<<"logout">>, <<"logout", "browser">>, <<"errors">>,
               <<"methods", "oidc", "callback", OneSegment>>}})
  \cup {Below(routes.auth, Auth \o <<family>>) : family \in {"sessions", "schemas", "health"}}

\* Mutant: everything below the authentication prefix passes.
AnyFamily(routes, family) == {Below(routes.auth, <<"api">>)}

AuthFamily(routes, family) == {Below(routes.auth, Auth \o <<family>>)}

AuthRules(routes) ==
  LET At(paths) == ExactlyOneOf(routes.auth, paths)
  IN << AuthRule(routes, "auth-preflight", AuthPreflight(routes), {"OPTIONS"}),
        AuthRule(routes, "auth-login", At({Auth \o <<"login">>}), {"GET", "POST"}),
        AuthRule(routes, "auth-login-flows", At({Auth \o <<"login", "flows">>}), {"GET"}),
        AuthRule(routes, "auth-self-service-read", At(SelfServiceReads), {"GET"}),
        AuthRule(routes, "auth-self-service-submit", At(SelfServiceForms), {"POST"}),
        AuthRule(routes, "auth-sessions", AuthFamily(routes, "sessions"), {"GET", "DELETE"}),
        AuthRule(routes, "auth-schemas", AuthFamily(routes, "schemas"), {"GET"}),
        AuthRule(routes, "auth-health", AuthFamily(routes, "health"), {"GET"}),
        AuthRule(routes, "auth-webauthn-runtime", At({Webauthn}), {"GET"}) >>

-----------------------------------------------------------------------------
\* The rules of the manage API, from the contract.

\* Mutant: authors need no more than a session.
AuthorsAllowed(role) == IF role = "ADMIN" THEN Ask(role) ELSE Allow

writeRoleAuthorizer(role) == IF role = "USER" THEN Allow ELSE Ask(role)

\* Mutant: the services and the methods of a role are grouped separately.
AnyServiceAnyMethod(methods) ==
  {method[1] : method \in methods} \X {method[2] : method \in methods}

serviceMethodRegexGroup(methods) == methods

roleID(role) ==
  CASE role = "USER" -> "manage-auth"
    [] role = "AUTHOR" -> "manage-author"
    [] role = "ADMIN" -> "manage-admin"

writeRoleRule(routes, role, methods) ==
  Rule(roleID(role),
       UNION {ExactlyOneOf(origin, {RPC \o <<"api.manage.v1">> \o method :
                                      method \in serviceMethodRegexGroup(methods)}) :
                origin \in {routes.api, routes.apiInternal}},
       {"POST"}, Session, writeRoleAuthorizer(role), "header", routes.apiUpstream, RPC)

\* A role that no method declares has no rule.
RoleRules(routes, role, methods) ==
  IF methods = {} THEN <<>> ELSE <<writeRoleRule(routes, role, methods)>>

ManageRules(routes, methodsOf) ==
  RoleRules(routes, "ADMIN", methodsOf["ADMIN"])
    \o RoleRules(routes, "AUTHOR", methodsOf["AUTHOR"])
    \o RoleRules(routes, "USER", methodsOf["USER"])

-----------------------------------------------------------------------------
\* The rules after them.

MCPRules(routes) ==
  << Rule("mcp-preflight", {Exact(routes.api, <<"mcp">>)}, {"OPTIONS"},
          Anonymous, Allow, "header", routes.apiUpstream, <<>>),
     Rule("mcp", {Exact(routes.api, <<"mcp">>)}, {"GET", "POST"},
          <<"oauth2_introspection">>, Ask("MCP author"), "mcp header", routes.apiUpstream, <<>>) >>

OpenRules(routes) ==
  << Rule("open-api", apiRPCPathPattern(routes, "api.open.v1"), {"POST"},
          Session \o Anonymous, Allow, "header", routes.apiUpstream, RPC) >>

\* Mutant: uploads are passed on with the headers they came with.
UnmutatedUpload(routes, id, match, methods) ==
  Rule(id, {match}, methods, Session, Allow, "noop", routes.apiUpstream, <<"api">>)

UploadRule(routes, id, match, methods) ==
  Rule(id, {match}, methods, Session, Allow, "header", routes.apiUpstream, <<"api">>)

UploadRules(routes) ==
  << UploadRule(routes, "upload-source",
                Exact(routes.api, <<"api", "upload", "source">>), {"GET"}),
     UploadRule(routes, "upload-endpoint",
                Below(routes.api, <<"api", "upload">>), {"POST", "PUT"}) >>

staticBaseRules(routes) ==
  ApiRules(routes) \o CollabRules(routes) \o PreflightRules(routes)
    \o InternalRules(routes) \o AuthRules(routes)

staticTailRules(routes) == MCPRules(routes) \o OpenRules(routes) \o UploadRules(routes)

\* What is generated from sources that are accepted.
generateRules(sources) ==
  staticBaseRules(sources.routes)
    \o ManageRules(sources.routes, collectManageAuthorizationRoles(sources.contract))
    \o staticTailRules(sources.routes)

Accepted(sources) == validate(sources.routes) /\ RolesAreDeclared(sources.contract)

=============================================================================
