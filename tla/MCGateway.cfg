\* Other roles for any two of four methods, and sources that are refused or differ from
\* the repository's in one value, or in two that coincide; they change once, before
\* or after a file is deployed, so that it may be stale.  A write may be cut off before
\* the rules that block and authenticate or before two of the manage API's three.
CONSTANTS
  None = None
  Sources <- AllSources
  Initial <- InitialSources
  HTTPMethods = {"GET", "POST", "PUT", "DELETE", "OPTIONS"}
  Origins = {"https site", "https other", "http gateway"}
  Paths <- AllPaths
  MaxEdits = 1
  Cuts = {6, 17}
SPECIFICATION Spec
INVARIANTS
  TypeOK
  OneRule
  DeclaredRole
  CutOffOnlyDenies
  InternalOriginIsRPCOnly
  PreflightForEveryRoute
  UpstreamSeesNoCredentials
  UpstreamPathTellsTheChecks
