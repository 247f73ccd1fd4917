------------------------------ MODULE Discovery ------------------------------
(***************************************************************************)
(* What the MCP OAuth facade serves and what it says of itself             *)
(* (src/internal/mcpoauth/handler.go, contract.go): the routes, and the    *)
(* two discovery documents, without the client authentication methods,     *)
(* which Hydra alone decides on.                                           *)
(***************************************************************************)
EXTENDS Proxy

CONSTANT Resource     \* Contract.ResourceURL

RegistrationPath(id) == <<"oauth2", "register", id>>

\* The handler of a method and a path.  A path with a dot segment has none: the server
\* redirects it to the path it comes to (net/http, ServeMux).
RouteOf(method, path) ==
  CASE <<method, path>> = <<"GET", <<".well-known", "oauth-authorization-server">>>> -> "discovery"
    [] <<method, path>> = <<"GET", <<".well-known", "oauth-protected-resource", "mcp">>>> -> "resource"
    [] <<method, path>> = <<"GET", <<"health", "ready">>>> -> "ready"
    [] <<method, path>> = <<"GET", <<"oauth2", "fallbacks", "error">>>> -> "fallback"
    [] <<method, path>> = <<"GET", <<".well-known", "jwks.json">>>> -> "jwks"
    [] <<method, path>> = <<"GET", <<"oauth2", "auth">>>> -> "authorize"
    [] <<method, path>> = <<"POST", <<"oauth2", "token">>>> -> "token"
    [] <<method, path>> = <<"POST", <<"oauth2", "revoke">>>> -> "revoke"
    [] <<method, path>> = <<"POST", <<"oauth2", "register">>>> -> "register"
    [] method \in {"GET", "PUT", "DELETE"} /\ Len(path) = 3
         /\ path = RegistrationPath(path[3]) /\ path[3] \notin DotSegments -> "manage"
    [] OTHER -> "none"

AuthorizationServerMetadata ==
  [issuer |-> Issuer,
   authorization_endpoint |-> <<Issuer, "oauth2", "auth">>,
   token_endpoint |-> <<Issuer, "oauth2", "token">>,
   revocation_endpoint |-> <<Issuer, "oauth2", "revoke">>,
   jwks_uri |-> <<Issuer, ".well-known", "jwks.json">>,
   registration_endpoint |-> <<Issuer, "oauth2", "register">>,
   scopes_supported |-> {"mcp", "offline_access"},
   response_types_supported |-> {"code"},
   grant_types_supported |-> {"authorization_code", "refresh_token"},
   code_challenge_methods_supported |-> {"S256"}]

ProtectedResourceMetadata ==
  [resource |-> Resource, authorization_servers |-> {Issuer}, scopes_supported |-> {"mcp"}]

=============================================================================
