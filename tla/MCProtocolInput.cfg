\* Authorizations that differ in at most three parameters from a new one or from
\* a continuation, tokens in four, every revocation and registration, and every answer.
CONSTANTS
  Issuer = "https://id.example"
  Resource = "https://mcp.example"
  Deviations = 3
SPECIFICATION Spec
INVARIANTS
  AudienceIsOurs
  SentOnce
  OnlyVerifiersSkipTheDocument
  CredentialsOnlyWhereNeeded
  NothingOfARefusedAnswer
  RegistrationCanBeManaged
  AdvertisedIsServed
