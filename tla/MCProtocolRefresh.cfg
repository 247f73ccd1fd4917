\* Token requests with a refresh token.
CONSTANTS
  Issuer = "https://id.example"
  Resource = "https://mcp.example"
  Deviations = 1
SPECIFICATION Spec
INVARIANTS
  RefreshTokensRejected
