------------------------------ MODULE MCGateway ------------------------------
(***************************************************************************)
(* An instance of Gateway for TLC: two services, of which one has a method *)
(* of the other's name, and paths on and next to every rule.               *)
(***************************************************************************)
EXTENDS Gateway

InitialRoutes ==
  [api |-> "https site", apiInternal |-> "http gateway", auth |-> "https site",
   collab |-> "https site", apiUpstream |-> "http api", collabUpstream |-> "http collab"]

\* Another origin, one origin for two, an upstream that is the gateway, and no URL.
OtherRoutes ==
  [api |-> {"https other", "http api", ""},
   apiInternal |-> {"https site", "https other", "with path"},
   auth |-> {"https other", "http api"},
   collab |-> {"https other", "with path"},
   apiUpstream |-> {"http gateway", ""},
   collabUpstream |-> {"http api", ""}]

InitialContract ==
  [method \in {"s1", "s2"} \X {"m1", "m2"} |->
     CASE method = <<"s1", "m1">> -> "USER"
       [] method = <<"s1", "m2">> -> "ADMIN"
       [] method = <<"s2", "m1">> -> "AUTHOR"
       [] OTHER -> "absent"]

OtherRoles == [method \in DOMAIN InitialContract |-> Roles \cup {"absent"}]

\* What makes a contract unusable.
Unusable == [method \in DOMAIN InitialContract |->
               {"missing", "UNSPECIFIED", "ANON", "unsupported"}]

InitialSources == [contract |-> InitialContract, routes |-> InitialRoutes]

\* The authentication routes at the origin of internal calls.
AuthIsInternal == [InitialRoutes EXCEPT !.auth = "https other", !.apiInternal = "https other"]

\* Contracts with other roles for two methods, and contracts that cannot be used.
ContractSources ==
  {[InitialSources EXCEPT !.contract = contract] :
     contract \in Near(InitialContract, OtherRoles, 2) \cup Near(InitialContract, Unusable, 1)}

\* Other routes that differ from the repository's in one value.
RouteSources ==
  {[InitialSources EXCEPT !.routes = routes] :
     routes \in Near(InitialRoutes, OtherRoutes, 1) \cup {AuthIsInternal}}

AllSources == ContractSources \cup RouteSources

ManagePaths == {RPC \o <<"api.manage.v1">> \o method :
                  method \in {"s1", "s2", "s3"} \X {"m1", "m2"}}

AuthPaths ==
  {Auth \o path : path \in
     {<<"login">>, <<"login", "flows">>, <<"self-service", "login">>,
      <<"self-service", "settings">>, <<"self-service", "settings", "browser">>,
      <<"self-service", "verification", "flows">>, <<"self-service", "logout">>,
      <<"self-service", "logout", "browser">>, <<"self-service", "errors">>,
      <<"self-service", "methods", "oidc", "callback", "x">>,
      <<"self-service", "methods", "oidc", "callback", "">>,
      <<"sessions", "x">>, <<"sessions">>, <<"schemas", "x">>, <<"health", "x">>,
      <<".well-known", "ory", "webauthn.js">>, <<"upload", "source">>}}

OtherPaths ==
  {<<"health">>, <<"callbacks", "ses">>, <<"mcp">>, <<"mcp", "x">>,
   <<"collab", "post", "x", "y">>, <<"collab", "menu", "x", "y">>, <<"collab", "post", "x">>,
   RPC \o <<"api.open.v1", "s1", "m1">>, RPC \o <<"api.intra.v1", "s1", "m1">>,
   <<"api", "upload", "source">>, <<"api", "upload", "x", "y">>, <<"api", "upload">>}

AllPaths == ManagePaths \cup AuthPaths \cup OtherPaths

=============================================================================
