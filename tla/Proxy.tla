-------------------------------- MODULE Proxy --------------------------------
(***************************************************************************)
(* How the MCP OAuth facade passes a request on to Hydra and Hydra's       *)
(* answer back (src/internal/mcpoauth/proxy_transport.go), with the        *)
(* rewriting of a registration's answer (handler.go).                      *)
(*                                                                         *)
(* Headers are a function from the names that are present to the sequence  *)
(* of their values; a value is a token for whoever has set it.             *)
(***************************************************************************)
EXTENDS Naturals, Sequences, SequencesExt

CONSTANT Issuer    \* Contract.IssuerURL, and its host

\* Everything a client may try to pass on.
ClientHeaders ==
  [name \in {"Accept", "User-Agent", "Authorization", "Cookie", "X-Forwarded-Host",
             "X-Forwarded-Proto", "Content-Type"} |-> <<"client">>]

NoHeaders == <<>>

\* The ids that are a path of their own, not a name within one.
DotSegments == {".", ".."}

\* What Hydra may answer: nothing, text that is no object, an object without a client
\* id, or a registration, of which the id and the place where it is managed count.
Body(form, id, uri) == [form |-> form, client_id |-> id, registration_client_uri |-> uri]

Empty == Body("empty", "none", <<>>)

Bodies ==
  {Empty, Body("text", "none", <<>>), Body("object", "none", <<>>)}
    \cup {Body("object", id, <<"hydra">>) : id \in {"id", ".", "..", "unsafe id"}}

Hop == {"Connection", "Keep-Alive", "Proxy-Authenticate", "Proxy-Authorization", "Te", "Trailer",
        "Transfer-Encoding", "Upgrade"}

HydraHeaders ==
  [name \in {"Content-Type", "Location", "Set-Cookie", "Cache-Control", "Content-Length", "Server",
             "Connection"} |-> << <<"hydra">> >>]

\* The call fails, or its answer cannot be read or is too long.
NoResponse == [status |-> 0, headers |-> NoHeaders, body |-> Empty]

Responses ==
  {NoResponse} \cup [status : {200, 201, 204, 302, 400}, headers : {HydraHeaders}, body : Bodies]

-----------------------------------------------------------------------------
\* Mutant: the caller's headers go on as they are.
CopyEverything(source, credentials) == source

copyProxyRequestHeaders(source, credentials) ==
  Restrict(source, DOMAIN source \cap ({"Accept", "User-Agent"} \cup credentials))

\* Set replaces the values of its names and leaves the other headers where they are.
Set(names, headers) ==
  [name \in DOMAIN names \cup DOMAIN headers |->
     IF name \in DOMAIN names THEN names[name] ELSE headers[name]]

\* The request to Hydra.  content is the media type of its body, if it has one.
RequestToHydra(path, content, credentials) ==
  LET set == [name \in {"X-Forwarded-Host", "X-Forwarded-Proto"} \cup
                         (IF content = "none" THEN {} ELSE {"Content-Type"}) |->
                CASE name = "X-Forwarded-Host" -> <<Issuer>>
                  [] name = "X-Forwarded-Proto" -> <<"https">>
                  [] name = "Content-Type" -> <<content>>]
  IN [path |-> path, host |-> Issuer,
      headers |-> Set(set, copyProxyRequestHeaders(ClientHeaders, credentials))]

copyProxyResponseHeaders(source) ==
  Restrict(source, DOMAIN source \ (Hop \cup {"Content-Length", "Server"}))

ProtocolError(headers, status, code) ==
  [status |-> status, body |-> Body(code, "none", <<>>),
   headers |-> Set([name \in {"Content-Type", "Cache-Control", "X-Content-Type-Options"} |->
                      << <<"facade">> >>], headers)]

\* Mutant: the headers copied before the failure stay.
HeadersKept(headers) == headers

clearHeaders(headers) == NoHeaders

Unavailable(headers) == ProtocolError(headers, 502, "temporarily_unavailable")

\* Mutant: any id will do.
AnyClientID(body) == body.client_id # "none"

\* Dots are among the characters of an id, wherever they are.
IsDynamicClientID(id) == id \in {"id"} \cup DotSegments

Rewritable(body) == IsDynamicClientID(body.client_id)

RegistrationURI(id) == <<Issuer, "oauth2", "register", id>>

rewriteRegistrationResponse(response, headers) ==
  LET uri == RegistrationURI(response.body.client_id)
  IN [status |-> response.status,
      headers |-> Set([name \in {"Location"} |-> <<uri>>], headers),
      body |-> [response.body EXCEPT !.registration_client_uri = uri]]

Succeeded(status) == status \in 200..299

proxy(response, rewriteRegistration) ==
  LET headers == copyProxyResponseHeaders(response.headers)
  IN CASE response = NoResponse -> Unavailable(NoHeaders)
       [] response # NoResponse /\
            ~(rewriteRegistration /\ response.body # Empty /\ Succeeded(response.status)) ->
            [response EXCEPT !.headers = headers]
       [] OTHER -> IF Rewritable(response.body)
                     THEN rewriteRegistrationResponse(response, headers)
                     ELSE Unavailable(clearHeaders(headers))

=============================================================================
