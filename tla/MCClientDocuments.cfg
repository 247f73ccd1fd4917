\* Documents that differ in at most three fields from a public or a signing client's,
\* headers of at most two directives, and names of at most two addresses.  Integers
\* that wrap around at 64 and seconds of 4 units let max-age wrap to a negative (9),
\* a short (17) and a maximal (7) lifetime.
CONSTANTS
  MaxRedirectURIs = 2
  Deviations = 3
  MaxDirectives = 2
  MaxAddresses = 2
  Seconds = {0, 1, 3, 7, 9, 17}
  Modulus = 64
  Second = 4
  MaximumTTL = 10
  DefaultTTL = 6
SPECIFICATION Spec
INVARIANTS
  SentAsDeclared
  LifetimeAsStated
  ContactsOnlyPublic
PROPERTIES
  SecondPassChangesNothing
