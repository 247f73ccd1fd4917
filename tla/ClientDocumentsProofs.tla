------------------------- MODULE ClientDocumentsProofs -------------------------
(***************************************************************************)
(* Proofs about ClientDocuments, for any number of addresses and           *)
(* deviations and any integer width.                                       *)
(***************************************************************************)
EXTENDS ClientDocuments, ChecksProofs, FiniteSetTheorems

\* Once dialling has begun every address is public; what was dialled are the first
\* of them.
DialInv ==
  /\ connection \in {"none", "dialling", "made", "failed"}
  /\ addresses \in Seq(Addresses) /\ tried \in Seq(Addresses)
  /\ connection = "none" => tried = <<>>
  /\ connection \in {"dialling", "made"} \/ tried # <<>> =>
       \A i \in 1..Len(addresses) : addresses[i].class = "global"
  /\ Len(tried) <= Len(addresses)
  /\ connection = "dialling" => Len(tried) < Len(addresses)
  /\ \A i \in 1..Len(tried) : tried[i] = addresses[i]

-----------------------------------------------------------------------------
\* After Unmap only global addresses are public.
LEMMA OnlyGlobalIsPublic ==
  ASSUME NEW address \in Addresses
  PROVE  /\ Unmap(address) \in Addresses
         /\ isPublicMetadataAddress(Unmap(address)) => address.class = "global"
<1>1. Unmap(address).mapped = FALSE /\ Unmap(address).class = address.class
  BY DEF Addresses, Unmap
<1>2. QED
  BY <1>1 DEF Addresses, Unmap, isPublicMetadataAddress

LEMMA ResolvedKeeps ==
  ASSUME DialInv, NEW found \in Seq(Addresses), Resolved(found)
  PROVE  DialInv'
<1>1. tried' = <<>> /\ addresses' = found /\ connection' \in {"failed", "dialling"}
  BY DEF Resolved, DialInv
<1>2. CASE connection' = "failed"
  BY <1>1, <1>2 DEF DialInv
<1>3. CASE connection' = "dialling"
  <2>1. found # <<>> /\ \A i \in DOMAIN found : isPublicMetadataAddress(Unmap(found[i]))
    BY <1>3 DEF Resolved
  <2>2. \A i \in 1..Len(found) : found[i].class = "global"
    BY <2>1, OnlyGlobalIsPublic
  <2>3. QED
    BY <1>1, <1>3, <2>1, <2>2 DEF DialInv
<1>4. QED
  BY <1>1, <1>2, <1>3

LEMMA DialKeeps ==
  ASSUME DialInv, DialNext
  PROVE  DialInv'
<1>1. CASE DialLiteral
  <2>1. PICK literal \in Addresses : Resolved(<<Unmap(literal)>>)
    BY <1>1 DEF DialLiteral
  <2>2. <<Unmap(literal)>> \in Seq(Addresses)
    BY OnlyGlobalIsPublic
  <2>3. QED
    BY <2>1, <2>2, ResolvedKeeps
<1>2. CASE DialName
  <2>1. PICK n \in 0..MaxAddresses : \E found \in [1..n -> Addresses] : Resolved(found)
    BY <1>2 DEF DialName
  <2>2. PICK found \in [1..n -> Addresses] : Resolved(found)
    BY <2>1
  <2>3. found \in Seq(Addresses)
    BY DialAssumption
  <2>4. QED
    BY <2>2, <2>3, ResolvedKeeps
<1>3. CASE Undialled
  BY <1>3 DEF Undialled, DialInv
<1>4. CASE Dial
  <2>1. PICK address \in Target, answers \in BOOLEAN :
          /\ tried' = Append(tried, address)
          /\ connection' = IF answers THEN "made"
                             ELSE IF Len(tried') = Len(addresses) THEN "failed" ELSE "dialling"
    BY <1>4 DEF Dial
  <2>2. connection = "dialling" /\ addresses' = addresses /\ address = addresses[Len(tried) + 1]
    BY <1>4 DEF Dial, Target
  <2>3. address \in Addresses
    BY <2>2 DEF DialInv
  <2>4. /\ tried' \in Seq(Addresses) /\ Len(tried') = Len(tried) + 1
        /\ \A i \in 1..Len(tried') : tried'[i] = addresses[i]
    BY <2>1, <2>2, <2>3 DEF DialInv
  <2>5. connection' \in {"made", "failed", "dialling"}
        /\ (connection' = "dialling" => Len(tried') # Len(addresses))
    BY <2>1
  <2>6. QED
    BY <2>2, <2>4, <2>5 DEF DialInv
<1>5. QED
  BY <1>1, <1>2, <1>3, <1>4 DEF DialNext

LEMMA NextDial == DialInv /\ [Next]_vars => DialInv'
<1> SUFFICES ASSUME DialInv, [Next]_vars PROVE DialInv'
  OBVIOUS
<1>1. CASE UNCHANGED dial
  BY <1>1 DEF dial, DialInv
<1>2. CASE Connect
  BY <1>2, DialKeeps DEF Connect
<1>3. CASE Return
  BY <1>3 DEF Return, NoDialNext, DialInv
<1>4. CASE Register \/ Update \/ NotFetched \/ Fetch \/ Synchronise \/ UNCHANGED vars
  BY <1>4, <1>1 DEF Register, Update, Supply, NotFetched, Fetch, Synchronise, vars
<1>5. QED
  BY <1>2, <1>3, <1>4 DEF Next

\* No host is contacted that is not public, however many addresses a name resolves
\* to and in whatever form they are written.
THEOREM DialsOnlyPublic == Spec => []ContactsOnlyPublic
<1>1. Init => DialInv
  BY DEF Init, Idle, NoDial, DialInv
<1>2. DialInv => ContactsOnlyPublic
  BY DEF DialInv, ContactsOnlyPublic
<1>3. QED
  BY <1>1, <1>2, NextDial, PTL DEF Spec

-----------------------------------------------------------------------------
\* A product that wraps around never becomes larger.
LEMMA WrappedIsLess ==
  ASSUME NEW n \in Nat
  PROVE  Wrapped(n) \in Int /\ Wrapped(n) <= n
<1>1. Modulus \in Nat /\ Modulus > 0
  BY CacheControlAssumption
<1>2. n % Modulus \in Nat /\ n % Modulus <= n
  BY <1>1
<1>3. QED
  BY <1>1, <1>2 DEF Wrapped

\* What metadataCacheTTL returns keeps to what the header says.
LEMMA TTLAsStated ==
  ASSUME NEW header_ \in Headers, metadataCacheTTL(header_) > 0
  PROVE  /\ metadataCacheTTL(header_) <= MaximumTTL
         /\ \A i \in DOMAIN header_ : ~ Forbids(header_[i])
         /\ \A i \in DOMAIN header_ :
              Limits(header_[i]) /\ (\A j \in 1..(i - 1) : ~ Limits(header_[j])) =>
                metadataCacheTTL(header_) <= header_[i].argument[1] * Second
<1> DEFINE limits == {i \in DOMAIN header_ : Limits(header_[i])}
           ttl == metadataCacheTTL(header_)
<1>1. PICK n \in Nat : header_ \in [1..n -> Directives]
  BY DocumentsAssumption DEF Headers
<1>2. DOMAIN header_ = 1..n
  BY <1>1
<1>3. \A i \in DOMAIN header_ : ~ Forbids(header_[i])
  BY DEF metadataCacheTTL
<1>4. CASE limits = {}
  <2>1. ttl = DefaultTTL
    BY <1>3, <1>4 DEF metadataCacheTTL
  <2>2. QED
    BY <1>3, <1>4, <2>1, CacheControlAssumption
<1>5. CASE limits # {}
  <2> DEFINE seconds == header_[Min(limits)].argument[1]
  <2>1. Min(limits) \in limits /\ \A i \in limits : Min(limits) <= i
    BY <1>2, <1>5, MinIsLeast
  <2>2. ttl = LifetimeOf(seconds)
    BY <1>3, <1>5 DEF metadataCacheTTL
  <2>3. seconds \in Int
    BY <1>1, <2>1, DocumentsAssumption DEF Directives, Limits
  <2>4. seconds > 0
    BY <2>2, <2>3 DEF LifetimeOf
  <2> HIDE DEF seconds
  <2>5. seconds * Second \in Nat /\ MaximumTTL \in Nat
    BY <2>3, <2>4, CacheControlAssumption
  <2>6. ttl <= MaximumTTL /\ ttl <= seconds * Second
    BY <2>2, <2>3, <2>4, <2>5, WrappedIsLess DEF LifetimeOf
  <2>7. ASSUME NEW i \in DOMAIN header_, Limits(header_[i]),
               \A j \in 1..(i - 1) : ~ Limits(header_[j])
        PROVE  i = Min(limits)
    <3>1. i \in limits /\ Min(limits) \in limits /\ Min(limits) <= i
      BY <2>1, <2>7
    <3> DEFINE least == Min(limits)
    <3>2. least \in 1..n /\ i \in 1..n /\ Limits(header_[least]) /\ least <= i
      BY <1>2, <3>1
    <3> HIDE DEF least
    <3>3. QED
      BY <2>7, <3>2 DEF least
  <2>8. QED
    BY <1>3, <2>6, <2>7 DEF seconds
<1>6. QED
  BY <1>4, <1>5

\* The lifetime belongs to the header, and outside a fetched document there is none.
LifetimeInv ==
  /\ header \in Headers
  /\ stage \in {"none", "register", "update"} => lifetime = 0
  /\ lifetime \in {0, metadataCacheTTL(header)}

LEMMA NoHeader == <<>> \in Headers
<1>1. <<>> \in [1..0 -> Directives]
  OBVIOUS
<1>2. QED
  BY <1>1, DocumentsAssumption DEF Headers

LEMMA NextLifetime == LifetimeInv /\ [Next]_vars => LifetimeInv'
<1> SUFFICES ASSUME LifetimeInv, [Next]_vars PROVE LifetimeInv'
  OBVIOUS
<1>1. CASE Register \/ Update
  BY <1>1 DEF Register, Update, Supply, LifetimeInv
<1>2. CASE Connect \/ UNCHANGED vars
  BY <1>2 DEF Connect, vars, LifetimeInv
<1>3. CASE NotFetched \/ Synchronise
  BY <1>3 DEF NotFetched, Synchronise, LifetimeInv
<1>4. CASE Fetch
  BY <1>4, NoHeader DEF Fetch, LifetimeInv
<1>5. CASE Return
  BY <1>5, NoHeader DEF Return, LifetimeInv
<1>6. QED
  BY <1>1, <1>2, <1>3, <1>4, <1>5 DEF Next

\* A document is kept no longer than its origin has said, whatever the header and
\* however large the number of seconds.
THEOREM KeptAsStated == Spec => []LifetimeAsStated
<1>1. Init => LifetimeInv
  BY NoHeader DEF Init, Idle, LifetimeInv
<1>2. LifetimeInv => LifetimeAsStated
  <2> SUFFICES ASSUME LifetimeInv, lifetime > 0 PROVE LifetimeAsStated
    BY DEF LifetimeAsStated
  <2>1. lifetime = metadataCacheTTL(header) /\ header \in Headers
    BY DEF LifetimeInv
  <2>2. /\ lifetime <= MaximumTTL
        /\ \A i \in DOMAIN header : ~ Forbids(header[i])
        /\ \A i \in DOMAIN header :
             Limits(header[i]) /\ (\A j \in 1..(i - 1) : ~ Limits(header[j])) =>
               lifetime <= header[i].argument[1] * Second
    BY <2>1, TTLAsStated
  <2>3. QED
    BY <2>2 DEF LifetimeAsStated, Forbids, Limits
<1>3. QED
  BY <1>1, <1>2, NextLifetime, PTL DEF Spec

-----------------------------------------------------------------------------
FieldNames ==
  {"client_id", "client_name", "redirect_uris", "grant_types", "response_types",
   "token_endpoint_auth_method", "token_endpoint_auth_methods_supported",
   "token_endpoint_auth_signing_alg", "jwks_uri", "scope", "presentation", "extra"}

Grants == {"authorization_code", "refresh_token"}

WellFormed(metadata) ==
  DOMAIN metadata = FieldNames /\ metadata.grant_types \in Seq(Grants)

\* Every document has the same fields, and its grants are a list.
LEMMA DocumentFields ==
  ASSUME NEW metadata \in Documents \cup {Document, SignedDocument}
  PROVE  WellFormed(metadata)
<1>1. DOMAIN Document = FieldNames /\ DOMAIN SignedDocument = FieldNames
  BY DEF Document, SignedDocument, FieldNames
<1>2. Document.grant_types = <<"authorization_code">> /\ SignedDocument.grant_types = <<"authorization_code">>
  BY DEF Document, SignedDocument
<1>3. \A grants \in Fields.grant_types : grants \in Seq(Grants)
  <2>1. /\ <<>> \in Seq(Grants) /\ <<"authorization_code">> \in Seq(Grants)
        /\ <<"refresh_token">> \in Seq(Grants)
        /\ <<"refresh_token", "authorization_code">> \in Seq(Grants)
        /\ <<"authorization_code", "authorization_code">> \in Seq(Grants)
    BY DEF Grants
  <2>2. QED
    BY <2>1 DEF Fields
<1>4. "grant_types" \in FieldNames
  BY DEF FieldNames
<1>5. <<"authorization_code">> \in Seq(Grants)
  BY DEF Grants
<1>6. CASE metadata \in Near(Document, Fields, Deviations)
  <2>1. /\ DOMAIN metadata = FieldNames
        /\ \/ metadata.grant_types = Document.grant_types
           \/ metadata.grant_types \in Fields.grant_types
    BY <1>1, <1>4, <1>6, NearKeepsFields, DocumentsAssumption, Zenon
  <2>2. QED
    BY <1>2, <1>3, <1>5, <2>1 DEF WellFormed
<1>7. CASE metadata \in Near(SignedDocument, Fields, Deviations)
  <2>1. /\ DOMAIN metadata = FieldNames
        /\ \/ metadata.grant_types = SignedDocument.grant_types
           \/ metadata.grant_types \in Fields.grant_types
    BY <1>1, <1>4, <1>7, NearKeepsFields, DocumentsAssumption, Zenon
  <2>2. QED
    BY <1>2, <1>3, <1>5, <2>1 DEF WellFormed
<1>8. CASE metadata \in {Document, SignedDocument}
  BY <1>1, <1>2, <1>5, <1>8 DEF WellFormed
<1>9. QED
  BY <1>6, <1>7, <1>8 DEF Documents

\* At most one method is selected, and it is one that is supported and declared.
LEMMA SelectedIsDeclared ==
  ASSUME NEW metadata, NEW requireClientID \in BOOLEAN,
         NEW method \in selectTokenEndpointAuthMethod(metadata, requireClientID)
  PROVE  /\ selectTokenEndpointAuthMethod(metadata, requireClientID) = {method}
         /\ method \in Preferences
         /\ metadata.token_endpoint_auth_method \in Preferences =>
              method = metadata.token_endpoint_auth_method
         /\ requireClientID /\ metadata.token_endpoint_auth_methods_supported # <<>> =>
              method \in ToSet(metadata.token_endpoint_auth_methods_supported[1])
<1>1. CASE ~ requireClientID \/ metadata.token_endpoint_auth_methods_supported = <<>>
  BY <1>1 DEF selectTokenEndpointAuthMethod, FromSingular, OrDefault, Preferences
<1>2. CASE requireClientID /\ metadata.token_endpoint_auth_methods_supported # <<>>
  <2> DEFINE listed == metadata.token_endpoint_auth_methods_supported[1]
             singular == metadata.token_endpoint_auth_method
             intersection == ToSet(listed) \cap Preferences
  <2>1. method \in FromSupported(metadata)
    BY <1>2 DEF selectTokenEndpointAuthMethod
  <2>2. /\ singular \in ToSet(listed) \cup {""}
        /\ FromSupported(metadata) =
             IF singular \in intersection THEN {singular}
               ELSE IF Cardinality(intersection) = 1 THEN intersection ELSE {}
    BY <2>1 DEF FromSupported
  <2>3. Cardinality(intersection) = 1 /\ method \in intersection => intersection = {method}
    <3>1. SUFFICES ASSUME Cardinality(intersection) = 1, method \in intersection
                   PROVE  intersection = {method}
      OBVIOUS
    <3>2. IsFiniteSet(Preferences)
      <4>1. IsFiniteSet({"none"})
        BY FS_Singleton
      <4>2. IsFiniteSet({"none"} \cup {"private_key_jwt"})
        BY <4>1, FS_AddElement
      <4>3. Preferences = {"none"} \cup {"private_key_jwt"}
        BY DEF Preferences
      <4>4. QED
        BY <4>2, <4>3
    <3>3. IsFiniteSet(intersection)
      BY <3>2, FS_Subset
    <3>4. \E x : intersection = {x}
      BY <3>1, <3>3, FS_Singleton
    <3>5. QED
      BY <3>1, <3>4
  <2>4. FromSupported(metadata) = selectTokenEndpointAuthMethod(metadata, requireClientID)
    BY <1>2 DEF selectTokenEndpointAuthMethod
  <2> HIDE DEF intersection
  <2>5. FromSupported(metadata) = {method} /\ method \in intersection
    BY <2>1, <2>2, <2>3
  <2>6. singular \in Preferences => singular \in intersection
    BY <2>2 DEF intersection, Preferences
  <2>7. singular \in Preferences => method = singular
    BY <2>1, <2>2, <2>6
  <2>8. QED
    BY <1>2, <2>4, <2>5, <2>7 DEF intersection
<1>3. QED
  BY <1>1, <1>2

-----------------------------------------------------------------------------
\* No check of the metadata fails.
Sound(metadata, requireClientID) ==
  /\ ~ (requireClientID /\ ClientIDOf(metadata) = "")
  /\ metadata.client_name = "name"
  /\ Len(metadata.redirect_uris) \in 1..MaxRedirectURIs
  /\ "unsafe uri" \notin ToSet(metadata.redirect_uris)
  /\ IsInjective(metadata.redirect_uris)
  /\ \/ sameStringSet(GrantsOf(metadata), <<"authorization_code">>)
     \/ sameStringSet(GrantsOf(metadata), <<"authorization_code", "refresh_token">>)
  /\ sameStringSet(OrDefault(metadata.response_types, <<>>, <<"code">>), <<"code">>)
  /\ selectTokenEndpointAuthMethod(metadata, requireClientID) # {}
  /\ \A method \in selectTokenEndpointAuthMethod(metadata, requireClientID) :
       SigningAccepted(metadata, requireClientID, method)
  /\ IsOurScope(OrDefault(metadata.scope, "", "mcp"))

\* Metadata without an error is sound, and sound metadata has none.
LEMMA WithoutError ==
  ASSUME NEW metadata, NEW requireClientID \in BOOLEAN,
         MetadataError(metadata, requireClientID) = "none"
  PROVE  Sound(metadata, requireClientID)
<1> DEFINE method == selectTokenEndpointAuthMethod(metadata, requireClientID)
           checks == <<
       Check(requireClientID /\ ClientIDOf(metadata) = "", "invalid_client_metadata"),
       Check(metadata.client_name # "name", "invalid_client_metadata"),
       Check(Len(metadata.redirect_uris) \notin 1..MaxRedirectURIs, "invalid_redirect_uri"),
       Check(\/ "unsafe uri" \in ToSet(metadata.redirect_uris)
             \/ ~IsInjective(metadata.redirect_uris), "invalid_redirect_uri"),
       Check(/\ ~sameStringSet(GrantsOf(metadata), <<"authorization_code">>)
             /\ ~sameStringSet(GrantsOf(metadata), <<"authorization_code", "refresh_token">>),
             "invalid_client_metadata"),
       Check(~sameStringSet(OrDefault(metadata.response_types, <<>>, <<"code">>), <<"code">>),
             "invalid_client_metadata"),
       Check(method = {}, "invalid_client_metadata"),
       Check(\E m \in method : ~SigningAccepted(metadata, requireClientID, m),
             "invalid_client_metadata"),
       Check(~IsOurScope(OrDefault(metadata.scope, "", "mcp")), "invalid_client_metadata")>>
<1>1. FirstError(checks) = "none"
  BY DEF MetadataError
<1>2. DOMAIN checks = 1..9 /\ \A i \in 1..9 : checks[i].error # "none"
  <2>1. DOMAIN checks = 1..9
    OBVIOUS
  <2>2. /\ checks[1].error # "none" /\ checks[2].error # "none" /\ checks[3].error # "none"
        /\ checks[4].error # "none" /\ checks[5].error # "none" /\ checks[6].error # "none"
        /\ checks[7].error # "none" /\ checks[8].error # "none" /\ checks[9].error # "none"
    BY DEF Check
  <2> HIDE DEF checks
  <2>3. QED
    BY <2>1, <2>2
<1>3. \A i \in 1..9 : ~ checks[i].fails
  <2> HIDE DEF checks
  <2>1. QED
    BY <1>1, <1>2, NoCheckFailed
<1>4. /\ ~ checks[1].fails /\ ~ checks[2].fails /\ ~ checks[3].fails /\ ~ checks[4].fails
      /\ ~ checks[5].fails /\ ~ checks[6].fails /\ ~ checks[7].fails /\ ~ checks[8].fails
      /\ ~ checks[9].fails
  <2> HIDE DEF checks
  <2>1. QED
    BY <1>3
<1>5. ~ (requireClientID /\ ClientIDOf(metadata) = "") /\ metadata.client_name = "name"
  BY <1>4 DEF Check
<1>6. Len(metadata.redirect_uris) \in 1..MaxRedirectURIs
  BY <1>4 DEF Check
<1>7. "unsafe uri" \notin ToSet(metadata.redirect_uris) /\ IsInjective(metadata.redirect_uris)
  BY <1>4 DEF Check
<1>8. \/ sameStringSet(GrantsOf(metadata), <<"authorization_code">>)
      \/ sameStringSet(GrantsOf(metadata), <<"authorization_code", "refresh_token">>)
  BY <1>4 DEF Check
<1>9. method # {} /\ \A m \in method : SigningAccepted(metadata, requireClientID, m)
  <2> HIDE DEF method
  <2>1. QED
    BY <1>4 DEF Check
<1>10. /\ sameStringSet(OrDefault(metadata.response_types, <<>>, <<"code">>), <<"code">>)
       /\ IsOurScope(OrDefault(metadata.scope, "", "mcp"))
  BY <1>4 DEF Check
<1>11. QED
  BY <1>5, <1>6, <1>7, <1>8, <1>9, <1>10 DEF Sound

LEMMA NoneFails ==
  ASSUME NEW metadata, NEW requireClientID \in BOOLEAN, Sound(metadata, requireClientID)
  PROVE  MetadataError(metadata, requireClientID) = "none"
<1> DEFINE method == selectTokenEndpointAuthMethod(metadata, requireClientID)
           checks == <<
       Check(requireClientID /\ ClientIDOf(metadata) = "", "invalid_client_metadata"),
       Check(metadata.client_name # "name", "invalid_client_metadata"),
       Check(Len(metadata.redirect_uris) \notin 1..MaxRedirectURIs, "invalid_redirect_uri"),
       Check(\/ "unsafe uri" \in ToSet(metadata.redirect_uris)
             \/ ~IsInjective(metadata.redirect_uris), "invalid_redirect_uri"),
       Check(/\ ~sameStringSet(GrantsOf(metadata), <<"authorization_code">>)
             /\ ~sameStringSet(GrantsOf(metadata), <<"authorization_code", "refresh_token">>),
             "invalid_client_metadata"),
       Check(~sameStringSet(OrDefault(metadata.response_types, <<>>, <<"code">>), <<"code">>),
             "invalid_client_metadata"),
       Check(method = {}, "invalid_client_metadata"),
       Check(\E m \in method : ~SigningAccepted(metadata, requireClientID, m),
             "invalid_client_metadata"),
       Check(~IsOurScope(OrDefault(metadata.scope, "", "mcp")), "invalid_client_metadata")>>
<1>1. /\ ~ checks[1].fails /\ ~ checks[2].fails
  BY DEF Check, Sound
<1>2. ~ checks[3].fails /\ ~ checks[4].fails
  BY DEF Check, Sound
<1>3. ~ checks[5].fails /\ ~ checks[6].fails
  BY DEF Check, Sound
<1>4. ~ checks[7].fails /\ ~ checks[8].fails
  <2>1. method # {} /\ \A m \in method : SigningAccepted(metadata, requireClientID, m)
    BY DEF Sound
  <2> HIDE DEF method
  <2>2. QED
    BY <2>1 DEF Check
<1>5. ~ checks[9].fails
  BY DEF Check, Sound
<1>6. DOMAIN checks = 1..9 /\ MetadataError(metadata, requireClientID) = FirstError(checks)
  BY DEF MetadataError
<1>7. QED
  <2> HIDE DEF checks
  <2>1. \A i \in DOMAIN checks : ~ checks[i].fails
    BY <1>1, <1>2, <1>3, <1>4, <1>5, <1>6
  <2>2. QED
    BY <1>6, <2>1, NoErrorFound

\* A list of two grants that stands for both of them has each.
LEMMA BothGrants ==
  ASSUME NEW grants \in Seq(Grants),
         sameStringSet(grants, <<"authorization_code", "refresh_token">>)
  PROVE  "refresh_token" \in ToSet(grants)
<1>1. Len(grants) = 2 /\ IsInjective(grants)
  BY DEF sameStringSet
<1>2. DOMAIN grants = 1..2
  BY <1>1
<1>3. 1 \in DOMAIN grants /\ 2 \in DOMAIN grants /\ grants[1] # grants[2]
  BY <1>1, <1>2 DEF IsInjective
<1>4. grants[1] \in Grants /\ grants[2] \in Grants
  <2>1. 1 \in 1..Len(grants) /\ 2 \in 1..Len(grants)
    BY <1>1
  <2>2. QED
    BY <2>1
<1>5. grants[1] = "refresh_token" \/ grants[2] = "refresh_token"
  BY <1>3, <1>4 DEF Grants
<1>6. QED
  BY <1>3, <1>5 DEF ToSet

\* What normalisation leaves of metadata.
NormalForm(metadata, method, normalized) ==
  /\ DOMAIN normalized = FieldNames
  /\ normalized.client_id = metadata.client_id
  /\ normalized.client_name = metadata.client_name
  /\ normalized.redirect_uris = metadata.redirect_uris
  /\ normalized.grant_types =
       IF sameStringSet(GrantsOf(metadata), <<"authorization_code">>)
         THEN <<"authorization_code">> ELSE <<"authorization_code", "refresh_token">>
  /\ normalized.response_types = <<"code">>
  /\ normalized.token_endpoint_auth_method = method
  /\ normalized.token_endpoint_auth_methods_supported = <<>>
  /\ normalized.token_endpoint_auth_signing_alg =
       IF method = "none" THEN "" ELSE metadata.token_endpoint_auth_signing_alg
  /\ normalized.jwks_uri = IF method = "none" THEN "" ELSE metadata.jwks_uri
  /\ normalized.scope = OrDefault(metadata.scope, "", "mcp")

LEMMA NormalizedFields ==
  ASSUME NEW metadata, DOMAIN metadata = FieldNames,
         NEW requireClientID \in BOOLEAN,
         NEW method, selectTokenEndpointAuthMethod(metadata, requireClientID) = {method},
         NEW normalized, normalized = Normalized(metadata, requireClientID)
  PROVE  NormalForm(metadata, method, normalized)
<1> DEFINE grants == IF sameStringSet(GrantsOf(metadata), <<"authorization_code">>)
                       THEN <<"authorization_code">>
                       ELSE <<"authorization_code", "refresh_token">>
           scope == OrDefault(metadata.scope, "", "mcp")
           with == WithMethod(metadata, method)
<1>1. /\ DOMAIN with = FieldNames
      /\ with.client_id = metadata.client_id
      /\ with.client_name = metadata.client_name
      /\ with.redirect_uris = metadata.redirect_uris
      /\ with.token_endpoint_auth_method = method
      /\ with.token_endpoint_auth_methods_supported = <<>>
      /\ with.token_endpoint_auth_signing_alg =
           IF method = "none" THEN "" ELSE metadata.token_endpoint_auth_signing_alg
      /\ with.jwks_uri = IF method = "none" THEN "" ELSE metadata.jwks_uri
  <2>1. CASE method = "none"
    BY <2>1 DEF WithMethod, FieldNames
  <2>2. CASE method # "none"
    BY <2>2 DEF WithMethod, FieldNames
  <2>3. QED
    BY <2>1, <2>2
<1>2. (CHOOSE m \in selectTokenEndpointAuthMethod(metadata, requireClientID) : TRUE) = method
  OBVIOUS
<1>3. normalized = [with EXCEPT !.grant_types = grants, !.response_types = <<"code">>,
                                !.scope = scope, !.presentation = "", !.extra = "none"]
  BY <1>2 DEF Normalized
<1> HIDE DEF with, grants, scope
<1>4. /\ DOMAIN normalized = FieldNames
      /\ normalized.client_id = with.client_id
      /\ normalized.client_name = with.client_name
      /\ normalized.redirect_uris = with.redirect_uris
      /\ normalized.grant_types = grants
      /\ normalized.response_types = <<"code">>
      /\ normalized.token_endpoint_auth_method = with.token_endpoint_auth_method
      /\ normalized.token_endpoint_auth_methods_supported =
           with.token_endpoint_auth_methods_supported
      /\ normalized.token_endpoint_auth_signing_alg = with.token_endpoint_auth_signing_alg
      /\ normalized.jwks_uri = with.jwks_uri
      /\ normalized.scope = scope
  BY <1>1, <1>3 DEF FieldNames
<1>5. QED
  BY <1>1, <1>4 DEF grants, scope, NormalForm

SentFields ==
  {"redirect_uris", "grant_types", "token_endpoint_auth_method",
   "token_endpoint_auth_signing_alg", "jwks_uri"}

\* What has been normalised without an error has none and is normalised to itself,
\* as far as Hydra is told.
LEMMA NormalizedTwice ==
  ASSUME NEW metadata, DOMAIN metadata = FieldNames,
         MetadataError(metadata, TRUE) = "none",
         NEW once, once = Normalized(metadata, TRUE),
         NEW twice, twice = Normalized(once, TRUE)
  PROVE  /\ MetadataError(once, TRUE) = "none"
         /\ \A name \in SentFields : twice[name] = once[name]
<1>1. PICK method : selectTokenEndpointAuthMethod(metadata, TRUE) = {method}
  <2>1. PICK method \in selectTokenEndpointAuthMethod(metadata, TRUE) : TRUE
    BY WithoutError DEF Sound
  <2>2. QED
    BY <2>1, SelectedIsDeclared
<1>2. method \in Preferences /\ SigningAccepted(metadata, TRUE, method)
  BY <1>1, WithoutError, SelectedIsDeclared DEF Sound
<1>3. NormalForm(metadata, method, once)
  BY <1>1, NormalizedFields
<1>4. selectTokenEndpointAuthMethod(once, TRUE) = {method}
  BY <1>2, <1>3 DEF NormalForm, selectTokenEndpointAuthMethod, FromSingular,
    OrDefault, Preferences
<1>5. SigningAccepted(once, TRUE, method)
  BY <1>2, <1>3 DEF SigningAccepted, NormalForm
<1>6. GrantsOf(once) = once.grant_types
  <2>1. <<"authorization_code">> # <<>> /\ <<"authorization_code", "refresh_token">> # <<>>
    OBVIOUS
  <2>2. once.grant_types # <<>>
    BY <1>3, <2>1 DEF NormalForm
  <2>3. QED
    BY <2>2 DEF GrantsOf, OrDefault
<1>7. /\ once.grant_types = <<"authorization_code">> =>
           sameStringSet(GrantsOf(once), <<"authorization_code">>)
      /\ once.grant_types = <<"authorization_code", "refresh_token">> =>
           /\ sameStringSet(GrantsOf(once), <<"authorization_code", "refresh_token">>)
           /\ ~ sameStringSet(GrantsOf(once), <<"authorization_code">>)
  BY <1>6, ShortLists, SameAsItself
<1>8. MetadataError(once, TRUE) = "none"
  <2>1. ~ (ClientIDOf(once) = "") /\ once.client_name = "name"
    BY <1>3, WithoutError DEF Sound, ClientIDOf, NormalForm
  <2>2. /\ Len(once.redirect_uris) \in 1..MaxRedirectURIs
        /\ "unsafe uri" \notin ToSet(once.redirect_uris) /\ IsInjective(once.redirect_uris)
    BY <1>3, WithoutError DEF Sound, NormalForm
  <2>3. \/ sameStringSet(GrantsOf(once), <<"authorization_code">>)
        \/ sameStringSet(GrantsOf(once), <<"authorization_code", "refresh_token">>)
    BY <1>3, <1>7 DEF NormalForm
  <2>4. sameStringSet(OrDefault(once.response_types, <<>>, <<"code">>), <<"code">>)
    <3>1. once.response_types = <<"code">>
      BY <1>3 DEF NormalForm
    <3>2. <<"code">> # <<>> /\ sameStringSet(<<"code">>, <<"code">>)
      BY SameAsItself DEF IsInjective
    <3>3. QED
      BY <3>1, <3>2 DEF OrDefault
  <2>5. /\ selectTokenEndpointAuthMethod(once, TRUE) # {}
        /\ ~ \E m \in selectTokenEndpointAuthMethod(once, TRUE) : ~ SigningAccepted(once, TRUE, m)
    BY <1>4, <1>5
  <2>6. IsOurScope(OrDefault(once.scope, "", "mcp"))
    BY <1>3, WithoutError DEF Sound, OrDefault, NormalForm
  <2>7. QED
    BY <2>1, <2>2, <2>3, <2>4, <2>5, <2>6, NoneFails DEF Sound
<1>9. NormalForm(once, method, twice)
  <2>1. DOMAIN once = FieldNames
    BY <1>3 DEF NormalForm
  <2>2. QED
    BY <1>4, <2>1, NormalizedFields
<1>10. twice.grant_types = once.grant_types
  BY <1>3, <1>7, <1>9 DEF NormalForm
<1>11. QED
  BY <1>3, <1>8, <1>9, <1>10 DEF SentFields, NormalForm

-----------------------------------------------------------------------------
\* The metadata of an update without its client id, which the path gives.
Anonymous(metadata) == [metadata EXCEPT !.client_id = <<>>]

\* What the outcome of each stage says of the metadata supplied.
Registered(metadata) ==
  /\ MetadataError(metadata, FALSE) = "none"
  /\ outcome.sent = hydraDynamicRegistration(Normalized(metadata, FALSE))

Fetched == MetadataError(supplied, TRUE) = "none"

OutcomeInv ==
  stage # "none" /\ outcome.error = "none" =>
    /\ WellFormed(supplied)
    /\ stage = "register" => Registered(supplied)
    /\ stage = "update" => Registered(Anonymous(supplied))
    /\ stage = "document" => Fetched /\ outcome.sent = Normalized(supplied, TRUE)
    /\ stage = "client" =>
         LET normalized == Normalized(Normalized(supplied, TRUE), TRUE)
         IN /\ Fetched
            /\ outcome.sent = SentOf(normalized, normalized.token_endpoint_auth_method)

LEMMA NextOutcome == OutcomeInv /\ [Next]_vars => OutcomeInv'
<1> SUFFICES ASSUME OutcomeInv, [Next]_vars PROVE OutcomeInv'
  OBVIOUS
<1> USE DEF OutcomeInv
<1>1. CASE Register
  <2>1. PICK metadata \in Documents, readable \in BOOLEAN :
          Supply("register", metadata, handleRegister(metadata, readable))
    BY <1>1 DEF Register
  <2>2. stage' = "register" /\ supplied' = metadata /\ outcome' = handleRegister(metadata, readable)
    BY <2>1 DEF Supply
  <2>3. handleRegister(metadata, readable).error = "none" =>
          /\ MetadataError(metadata, FALSE) = "none"
          /\ handleRegister(metadata, readable).sent
               = hydraDynamicRegistration(Normalized(metadata, FALSE))
    BY DEF handleRegister, Refused, Accepted
  <2>4. QED
    BY <2>2, <2>3, DocumentFields DEF Registered
<1>2. CASE Update
  <2>1. PICK metadata \in Documents, readable \in BOOLEAN :
          Supply("update", metadata, handleUpdate(metadata, readable))
    BY <1>2 DEF Update
  <2>2. stage' = "update" /\ supplied' = metadata /\ outcome' = handleUpdate(metadata, readable)
    BY <2>1 DEF Supply
  <2>3. handleUpdate(metadata, readable).error = "none" =>
          /\ MetadataError(Anonymous(metadata), FALSE) = "none"
          /\ handleUpdate(metadata, readable).sent
               = hydraDynamicRegistration(Normalized(Anonymous(metadata), FALSE))
    BY DEF handleUpdate, Refused, Accepted, Anonymous
  <2>4. QED
    BY <2>2, <2>3, DocumentFields DEF Registered
<1>3. CASE Connect \/ UNCHANGED vars
  BY <1>3 DEF Connect, vars, Registered, Fetched
<1>4. CASE NotFetched
  BY <1>4 DEF NotFetched, Refused
<1>5. CASE Fetch
  <2>1. stage' = "document" /\ supplied' \in Documents \cup {Document, SignedDocument}
    BY <1>5 DEF Fetch
  <2>2. PICK readable \in BOOLEAN : outcome' = fetch(supplied', readable)
    BY <1>5 DEF Fetch
  <2>3. fetch(supplied', readable).error = "none" =>
          /\ MetadataError(supplied', TRUE) = "none"
          /\ fetch(supplied', readable).sent = Normalized(supplied', TRUE)
    BY DEF fetch, Refused, Accepted
  <2>4. QED
    BY <2>1, <2>2, <2>3, DocumentFields DEF Fetched
<1>6. CASE Synchronise
  <2>1. /\ stage = "document" /\ outcome.error = "none" /\ stage' = "client"
        /\ outcome' = EnsureCIMDClient(outcome.sent) /\ supplied' = supplied
    BY <1>6 DEF Synchronise
  <2>2. WellFormed(supplied) /\ Fetched /\ outcome.sent = Normalized(supplied, TRUE)
    BY <2>1
  <2> DEFINE normalized == Normalized(Normalized(supplied, TRUE), TRUE)
  <2>3. outcome'.error = "none" =>
          outcome'.sent = SentOf(normalized, normalized.token_endpoint_auth_method)
    BY <2>1, <2>2 DEF EnsureCIMDClient, Refused, Accepted
  <2> HIDE DEF normalized
  <2>4. QED
    BY <2>1, <2>2, <2>3 DEF Fetched, normalized
<1>7. CASE Return
  BY <1>7 DEF Return
<1>8. QED
  BY <1>1, <1>2, <1>3, <1>4, <1>5, <1>6, <1>7 DEF Next

LEMMA OutcomeAlways == Spec => []OutcomeInv
<1>1. Init => OutcomeInv
  BY DEF Init, Idle, OutcomeInv
<1>2. QED
  BY <1>1, NextOutcome, PTL DEF Spec

\* The method, the keys and the grants of what is sent, with the metadata they come
\* from.
Declared(metadata, sent) ==
  /\ sent.token_endpoint_auth_method \in Preferences
  /\ metadata.token_endpoint_auth_method \in Preferences =>
       sent.token_endpoint_auth_method = metadata.token_endpoint_auth_method
  /\ (sent.token_endpoint_auth_method = "private_key_jwt") <=> (sent.jwks_uri = "https uri")
  /\ (sent.token_endpoint_auth_method = "none") <=> (sent.jwks_uri = "")
  /\ "refresh_token" \in ToSet(sent.grant_types) =>
       "refresh_token" \in ToSet(metadata.grant_types)

LEMMA NormalizedIsDeclared ==
  ASSUME NEW metadata, WellFormed(metadata), NEW requireClientID \in BOOLEAN,
         MetadataError(metadata, requireClientID) = "none"
  PROVE  /\ Declared(metadata, Normalized(metadata, requireClientID))
         /\ ~ requireClientID =>
              Normalized(metadata, requireClientID).token_endpoint_auth_method = "none"
         /\ requireClientID /\ metadata.token_endpoint_auth_methods_supported # <<>> =>
              Normalized(metadata, requireClientID).token_endpoint_auth_method
                \in ToSet(metadata.token_endpoint_auth_methods_supported[1])
<1> DEFINE normalized == Normalized(metadata, requireClientID)
<1>1. Sound(metadata, requireClientID)
  BY WithoutError
<1>2. PICK method \in selectTokenEndpointAuthMethod(metadata, requireClientID) : TRUE
  BY <1>1 DEF Sound
<1>3. selectTokenEndpointAuthMethod(metadata, requireClientID) = {method}
  BY <1>2, SelectedIsDeclared
<1>4. NormalForm(metadata, method, normalized)
  BY <1>3, NormalizedFields DEF WellFormed
<1>5. SigningAccepted(metadata, requireClientID, method)
  BY <1>1, <1>2 DEF Sound
<1> HIDE DEF normalized
<1>6. normalized.token_endpoint_auth_method = method
  BY <1>4 DEF NormalForm
<1>7. /\ method \in Preferences
      /\ metadata.token_endpoint_auth_method \in Preferences =>
           method = metadata.token_endpoint_auth_method
      /\ requireClientID /\ metadata.token_endpoint_auth_methods_supported # <<>> =>
           method \in ToSet(metadata.token_endpoint_auth_methods_supported[1])
  BY <1>2, SelectedIsDeclared
<1>8. /\ (method = "private_key_jwt") <=> (normalized.jwks_uri = "https uri")
      /\ (method = "none") <=> (normalized.jwks_uri = "")
      /\ ~ requireClientID => method = "none"
  BY <1>4, <1>5, <1>7 DEF NormalForm, SigningAccepted, Preferences
<1>9. ASSUME "refresh_token" \in ToSet(normalized.grant_types)
      PROVE  "refresh_token" \in ToSet(metadata.grant_types)
  <2>1. ToSet(<<"authorization_code">>) = {"authorization_code"}
    BY DEF ToSet
  <2>2. normalized.grant_types # <<"authorization_code">>
    BY <1>9, <2>1
  <2>3. ~ sameStringSet(GrantsOf(metadata), <<"authorization_code">>)
    BY <1>4, <2>2 DEF NormalForm
  <2>4. sameStringSet(GrantsOf(metadata), <<"authorization_code", "refresh_token">>)
    BY <1>1, <2>3 DEF Sound
  <2>5. GrantsOf(metadata) = metadata.grant_types
    <3>1. "authorization_code" # "refresh_token"
      OBVIOUS
    <3>2. sameStringSet(<<"authorization_code">>, <<"authorization_code">>)
      BY <3>1, ShortLists, SameAsItself
    <3>3. QED
      BY <2>3, <3>2 DEF GrantsOf, OrDefault
  <2>6. QED
    BY <2>4, <2>5, BothGrants DEF WellFormed
<1>10. QED
  BY <1>6, <1>7, <1>8, <1>9 DEF Declared, normalized

\* A document that was accepted when it was fetched is not refused when it is
\* synchronised, and means the same, whatever its fields.
THEOREM SecondPassIsIdle == Spec => SecondPassChangesNothing
<1>1. OutcomeInv /\ [Next]_vars =>
        [Synchronise =>
           /\ outcome'.error = "none"
           /\ \A name \in DOMAIN outcome'.sent :
                outcome'.sent[name] = outcome.sent[name]]_vars
  <2>1. SUFFICES ASSUME OutcomeInv, Synchronise
                 PROVE  /\ outcome'.error = "none"
                        /\ \A name \in DOMAIN outcome'.sent :
                             outcome'.sent[name] = outcome.sent[name]
    OBVIOUS
  <2> DEFINE once == Normalized(supplied, TRUE)
             twice == Normalized(once, TRUE)
             sent == SentOf(twice, twice.token_endpoint_auth_method)
  <2>2. WellFormed(supplied) /\ MetadataError(supplied, TRUE) = "none" /\ outcome.sent = once
    BY <2>1 DEF Synchronise, OutcomeInv, Fetched
  <2>3. MetadataError(once, TRUE) = "none" /\ \A name \in SentFields : twice[name] = once[name]
    BY <2>2, NormalizedTwice DEF WellFormed
  <2>4. outcome' = Accepted(sent)
    BY <2>1, <2>2, <2>3 DEF Synchronise, EnsureCIMDClient
  <2> HIDE DEF once, twice
  <2>5. DOMAIN sent = SentFields /\ \A name \in SentFields : sent[name] = twice[name]
    BY DEF SentOf, SentFields
  <2> HIDE DEF sent
  <2>6. outcome'.error = "none" /\ outcome'.sent = sent
    BY <2>4 DEF Accepted
  <2>7. QED
    BY <2>2, <2>3, <2>5, <2>6
<1>2. QED
  BY <1>1, OutcomeAlways, PTL DEF Spec, SecondPassChangesNothing

\* What Hydra is sent of a client is what the client has declared: of a document the
\* singular method or one of its list, of a registration or update "none", whatever
\* list it comes with; keys of exactly those clients that sign; and a refresh grant
\* only if the client named it (selectTokenEndpointAuthMethod, hydraDynamicRegistration).
THEOREM SentIsDeclared == Spec => []SentAsDeclared
<1>1. OutcomeInv => SentAsDeclared
  <2>1. SUFFICES ASSUME OutcomeInv, SentToHydra
                 PROVE  /\ Declared(supplied, outcome.sent)
                        /\ stage = "client" /\ supplied.token_endpoint_auth_methods_supported # <<>> =>
                             outcome.sent.token_endpoint_auth_method
                               \in ToSet(supplied.token_endpoint_auth_methods_supported[1])
                        /\ stage # "client" => outcome.sent.token_endpoint_auth_method = "none"
    BY DEF SentAsDeclared, Declared, Preferences
  <2>2. WellFormed(supplied)
    BY <2>1 DEF OutcomeInv, SentToHydra
  <2>3. ASSUME NEW metadata, WellFormed(metadata), Registered(metadata)
        PROVE  /\ Declared(metadata, outcome.sent)
               /\ outcome.sent.token_endpoint_auth_method = "none"
    <3>1. /\ Declared(metadata, Normalized(metadata, FALSE))
          /\ Normalized(metadata, FALSE).token_endpoint_auth_method = "none"
      BY <2>3, NormalizedIsDeclared DEF Registered
    <3>2. /\ outcome.sent.token_endpoint_auth_method = "none"
          /\ outcome.sent.jwks_uri = Normalized(metadata, FALSE).jwks_uri
          /\ outcome.sent.grant_types = Normalized(metadata, FALSE).grant_types
      BY <2>3 DEF Registered, hydraDynamicRegistration, SentOf
    <3>3. QED
      BY <3>1, <3>2 DEF Declared
  <2>4. CASE stage = "register"
    BY <2>1, <2>2, <2>3, <2>4 DEF OutcomeInv, SentToHydra
  <2>5. CASE stage = "update"
    <3>1. /\ WellFormed(Anonymous(supplied))
          /\ Anonymous(supplied).grant_types = supplied.grant_types
          /\ Anonymous(supplied).token_endpoint_auth_method = supplied.token_endpoint_auth_method
      BY <2>2 DEF WellFormed, Anonymous, FieldNames
    <3>2. /\ Declared(Anonymous(supplied), outcome.sent)
          /\ outcome.sent.token_endpoint_auth_method = "none"
      BY <2>1, <2>3, <2>5, <3>1 DEF OutcomeInv, SentToHydra
    <3>3. QED
      BY <2>5, <3>1, <3>2 DEF Declared
  <2>6. CASE stage = "client"
    <3> DEFINE once == Normalized(supplied, TRUE)
               twice == Normalized(once, TRUE)
    <3>1. /\ MetadataError(supplied, TRUE) = "none"
          /\ outcome.sent = SentOf(twice, twice.token_endpoint_auth_method)
      BY <2>1, <2>6 DEF OutcomeInv, SentToHydra, Fetched
    <3>2. \A name \in SentFields : twice[name] = once[name]
      BY <2>2, <3>1, NormalizedTwice DEF WellFormed
    <3>3. /\ Declared(supplied, once)
          /\ supplied.token_endpoint_auth_methods_supported # <<>> =>
               once.token_endpoint_auth_method
                 \in ToSet(supplied.token_endpoint_auth_methods_supported[1])
      BY <2>2, <3>1, NormalizedIsDeclared
    <3> HIDE DEF once, twice
    <3>4. /\ outcome.sent.token_endpoint_auth_method = once.token_endpoint_auth_method
          /\ outcome.sent.jwks_uri = once.jwks_uri
          /\ outcome.sent.grant_types = once.grant_types
      BY <3>1, <3>2 DEF SentOf, SentFields
    <3>5. QED
      BY <2>6, <3>3, <3>4 DEF Declared
  <2>7. QED
    BY <2>1, <2>4, <2>5, <2>6 DEF SentToHydra
<1>2. QED
  BY <1>1, OutcomeAlways, PTL

=============================================================================
