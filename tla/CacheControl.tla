---------------------------- MODULE CacheControl ----------------------------
(***************************************************************************)
(* How long the metadata resolver may keep a document: metadataCacheTTL    *)
(* of src/internal/mcpoauth/metadata_resolver.go.                          *)
(*                                                                         *)
(* A header is the sequence of the directives of its first line: further   *)
(* lines of that name are not read (http.Header.Get).  The argument of a   *)
(* directive is <<>> if it has none, and <<-1>> if strconv.ParseInt        *)
(* refuses it, which the code treats like a number that is not positive.   *)
(* Integers wrap around at Modulus, which is 2^64; time.Duration counts    *)
(* in nanoseconds, of which a second has Second.                           *)
(***************************************************************************)
EXTENDS Integers, Sequences, SequencesExt

CONSTANTS Modulus, Second, MaximumTTL, DefaultTTL

ASSUME CacheControlAssumption ==
  /\ {Modulus, Second, MaximumTTL, DefaultTTL} \subseteq Nat \ {0}
  /\ DefaultTTL <= MaximumTTL

-----------------------------------------------------------------------------
\* The product of two integers as the processor computes it.
Wrapped(n) ==
  LET low == n % Modulus IN IF 2 * low < Modulus THEN low ELSE low - Modulus

Forbids(directive) == directive.name \in {"no-store", "no-cache"}

\* A max-age without "=" is passed over.
Limits(directive) == directive.name = "max-age" /\ directive.argument # <<>>

LifetimeOf(seconds) ==
  IF seconds <= 0 THEN 0
    ELSE LET ttl == Wrapped(seconds * Second)
         IN IF ttl > MaximumTTL THEN MaximumTTL ELSE ttl

\* Mutant: one loop over the directives, in which the first decides.
FirstDirectiveDecides(header) ==
  LET deciding == {i \in DOMAIN header : Forbids(header[i]) \/ Limits(header[i])}
  IN IF deciding = {} THEN DefaultTTL
       ELSE IF Forbids(header[Min(deciding)]) THEN 0
       ELSE LifetimeOf(header[Min(deciding)].argument[1])

metadataCacheTTL(header) ==
  LET limits == {i \in DOMAIN header : Limits(header[i])}
  IN IF \E i \in DOMAIN header : Forbids(header[i]) THEN 0
       ELSE IF limits = {} THEN DefaultTTL
       ELSE LifetimeOf(header[Min(limits)].argument[1])

=============================================================================
