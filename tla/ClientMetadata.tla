--------------------------- MODULE ClientMetadata ---------------------------
(***************************************************************************)
(* OAuth client metadata as the MCP OAuth facade understands it            *)
(* (src/internal/mcpoauth/client_metadata.go): the same checks and         *)
(* defaults for the metadata document of a URL-form client                 *)
(* (requireClientID) and for a dynamic registration.                       *)
(*                                                                         *)
(* A value is a token for the strings the code tells apart.  A JSON field  *)
(* whose absence differs from its zero value (client_id, the supported     *)
(* authentication methods) is the sequence of the values it was given.     *)
(***************************************************************************)
EXTENDS Checks, FiniteSets

CONSTANT MaxRedirectURIs

ASSUME MetadataAssumption == MaxRedirectURIs \in Nat \ {0}

-----------------------------------------------------------------------------
\* A valid document and what its fields may be instead.  "presentation" stands for
\* the seven fields from logo_uri to software_version, "extra" for the fields that
\* are not in the struct, which may be on the list of unsafe ones.

Document ==
  [client_id |-> <<"own">>, client_name |-> "name", redirect_uris |-> <<"a">>,
   grant_types |-> <<"authorization_code">>, response_types |-> <<"code">>,
   token_endpoint_auth_method |-> "none", token_endpoint_auth_methods_supported |-> <<>>,
   token_endpoint_auth_signing_alg |-> "", jwks_uri |-> "", scope |-> "mcp",
   presentation |-> "", extra |-> "none"]

SignedDocument ==
  [Document EXCEPT !.token_endpoint_auth_methods_supported = << <<"none", "private_key_jwt">> >>,
                   !.token_endpoint_auth_method = "private_key_jwt",
                   !.token_endpoint_auth_signing_alg = "RS256", !.jwks_uri = "https uri"]

Fields ==
  [client_id |-> {<<>>, <<"">>, <<"own">>, <<"other">>},
   client_name |-> {"name", "unsafe name"},
   redirect_uris |-> {<<>>, <<"a">>, <<"a", "b">>, <<"a", "a">>, <<"a", "unsafe uri">>,
                      <<"a", "b", "c">>},
   grant_types |-> {<<>>, <<"authorization_code">>, <<"refresh_token">>,
                    <<"refresh_token", "authorization_code">>,
                    <<"authorization_code", "authorization_code">>},
   response_types |-> {<<>>, <<"code">>, <<"code", "token">>},
   token_endpoint_auth_method |-> {"", "none", "private_key_jwt", "tls_client_auth",
                                   "client_secret_basic"},
   token_endpoint_auth_methods_supported |->
     {<<>>, << <<>> >>, << <<"none">> >>, << <<"private_key_jwt">> >>,
      << <<"private_key_jwt", "none">> >>, << <<"none", "none">> >>,
      << <<"none", "client_secret_basic">> >>, << <<"tls_client_auth">> >>,
      << <<"tls_client_auth", "private_key_jwt">> >>},
   token_endpoint_auth_signing_alg |-> {"", "RS256", "ES256"},
   jwks_uri |-> {"", "https uri", "unsafe uri"},
   scope |-> {"", "mcp", "offline_access mcp", "mcp openid"},
   presentation |-> {"", "text"},
   extra |-> {"none", "extension", "unsafe"}]

OrDefault(value, zero, default) == IF value = zero THEN default ELSE value

-----------------------------------------------------------------------------
\* selectTokenEndpointAuthMethod: the set of the one method selected, empty for an
\* error.

Preferences == {"none", "private_key_jwt"}
SymmetricMethods == {"client_secret_basic", "client_secret_post", "client_secret_jwt"}

FromSingular(metadata) ==
  {OrDefault(metadata.token_endpoint_auth_method, "", "none")} \cap Preferences

FromSupported(metadata) ==
  LET listed == metadata.token_endpoint_auth_methods_supported[1]
      singular == metadata.token_endpoint_auth_method
      intersection == ToSet(listed) \cap Preferences
  IN IF \/ listed = <<>> \/ ~IsInjective(listed)
        \/ ToSet(listed) \cap (SymmetricMethods \cup {""}) # {}
        \/ singular \notin ToSet(listed) \cup {""}
       THEN {}
       ELSE IF singular \in intersection THEN {singular}
       ELSE IF Cardinality(intersection) = 1 THEN intersection ELSE {}

\* Mutant: the list of supported methods is not looked at.
SingularOnly(metadata, requireClientID) == FromSingular(metadata)

selectTokenEndpointAuthMethod(metadata, requireClientID) ==
  IF ~requireClientID \/ metadata.token_endpoint_auth_methods_supported = <<>>
    THEN FromSingular(metadata)
    ELSE FromSupported(metadata)

-----------------------------------------------------------------------------
\* normalizeClientMetadata.

\* Whether signing metadata next to the method "none" is overlooked.
SupportsPrivateKeyJWT(metadata, requireClientID) ==
  /\ requireClientID
  /\ metadata.token_endpoint_auth_methods_supported # <<>>
  /\ "private_key_jwt" \in ToSet(metadata.token_endpoint_auth_methods_supported[1])

SigningAccepted(metadata, requireClientID, method) ==
  IF method = "none"
    THEN \/ SupportsPrivateKeyJWT(metadata, requireClientID)
         \/ metadata.token_endpoint_auth_signing_alg = "" /\ metadata.jwks_uri = ""
    ELSE /\ requireClientID
         /\ metadata.token_endpoint_auth_signing_alg = "RS256"
         /\ metadata.jwks_uri = "https uri"

GrantsOf(metadata) == OrDefault(metadata.grant_types, <<>>, <<"authorization_code">>)

\* The client id of the struct: empty when the field is.
ClientIDOf(metadata) == IF metadata.client_id = <<>> THEN "" ELSE metadata.client_id[1]

MetadataError(metadata, requireClientID) ==
  LET method == selectTokenEndpointAuthMethod(metadata, requireClientID)
  IN FirstError(<<
       Check(requireClientID /\ ClientIDOf(metadata) = "", "invalid_client_metadata"),
       Check(metadata.client_name # "name", "invalid_client_metadata"),
       Check(Len(metadata.redirect_uris) \notin 1..MaxRedirectURIs, "invalid_redirect_uri"),
       Check(\/ "unsafe uri" \in ToSet(metadata.redirect_uris)
             \/ ~IsInjective(metadata.redirect_uris), "invalid_redirect_uri"),
       Check(/\ ~sameStringSet(GrantsOf(metadata), <<"authorization_code">>)
             /\ ~sameStringSet(GrantsOf(metadata), <<"authorization_code", "refresh_token">>),
             "invalid_client_metadata"),
       Check(~sameStringSet(OrDefault(metadata.response_types, <<>>, <<"code">>), <<"code">>),
             "invalid_client_metadata"),
       Check(method = {}, "invalid_client_metadata"),
       Check(\E m \in method : ~SigningAccepted(metadata, requireClientID, m),
             "invalid_client_metadata"),
       Check(~IsOurScope(OrDefault(metadata.scope, "", "mcp")), "invalid_client_metadata")>>)

\* Mutant: a public client keeps the signing metadata it does not use.
KeysKept(metadata, method) ==
  [metadata EXCEPT !.token_endpoint_auth_method = method,
                   !.token_endpoint_auth_methods_supported = <<>>]

WithMethod(metadata, method) ==
  LET selected == [metadata EXCEPT !.token_endpoint_auth_method = method,
                                   !.token_endpoint_auth_methods_supported = <<>>]
  IN IF method = "none"
       THEN [selected EXCEPT !.token_endpoint_auth_signing_alg = "", !.jwks_uri = ""]
       ELSE selected

Normalized(metadata, requireClientID) ==
  LET method == CHOOSE m \in selectTokenEndpointAuthMethod(metadata, requireClientID) : TRUE
      grants == IF sameStringSet(GrantsOf(metadata), <<"authorization_code">>)
                  THEN <<"authorization_code">>
                  ELSE <<"authorization_code", "refresh_token">>
  IN [WithMethod(metadata, method) EXCEPT
        !.grant_types = grants,
        !.response_types = <<"code">>,
        !.scope = OrDefault(metadata.scope, "", "mcp"),
        !.presentation = "",
        !.extra = "none"]

\* rejectUnsafeRegistrationFields.
UnsafeFields(metadata, allowClientID) ==
  metadata.extra = "unsafe" \/ (~allowClientID /\ metadata.client_id # <<>>)

=============================================================================
