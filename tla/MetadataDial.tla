---------------------------- MODULE MetadataDial ----------------------------
(***************************************************************************)
(* How the HTTP client for metadata documents connects                     *)
(* (safeDialContext in src/internal/mcpoauth/metadata_resolver.go): the    *)
(* host is resolved once, every address is checked, and then the addresses *)
(* are tried in order.                                                     *)
(*                                                                         *)
(* Of an address the model keeps whether it is written as an IPv4-mapped   *)
(* IPv6 address and of which class the host behind it is: "global",        *)
(* "special" (loopback, private, link-local, multicast, unspecified: what  *)
(* net/netip itself tells, mapped or not), or "reserved" (one of           *)
(* disallowedMetadataPrefixes).                                            *)
(***************************************************************************)
EXTENDS Naturals, Sequences

CONSTANT MaxAddresses     \* bound of the model: the addresses a name resolves to

ASSUME DialAssumption == MaxAddresses \in Nat

Addresses == [class : {"global", "special", "reserved"}, mapped : BOOLEAN]

\* Mutant: addresses are looked at as they are written.
AsWritten(address) == address

Unmap(address) == [address EXCEPT !.mapped = FALSE]

\* A mapped address is in no IPv4 prefix.
isPublicMetadataAddress(address) ==
  CASE address.class = "global" -> TRUE
    [] address.class = "special" -> FALSE
    [] address.class = "reserved" -> address.mapped

VARIABLES
  connection,   \* "none", "dialling", "made" or "failed"
  addresses,    \* what the host resolved to
  tried         \* the addresses that were dialled, in order

dial == <<connection, addresses, tried>>

NoDial == connection = "none" /\ addresses = <<>> /\ tried = <<>>

NoDialNext == connection' = "none" /\ addresses' = <<>> /\ tried' = <<>>

\* Every address has to be public before one of them is dialled.
Resolved(found) ==
  /\ connection = "none"
  /\ addresses' = found
  /\ connection' =
       IF found = <<>> \/ \E i \in DOMAIN found : ~isPublicMetadataAddress(Unmap(found[i]))
         THEN "failed"
         ELSE "dialling"
  /\ UNCHANGED tried

DialLiteral == \E literal \in Addresses : Resolved(<<Unmap(literal)>>)

DialName == \E n \in 0..MaxAddresses : \E found \in [1..n -> Addresses] : Resolved(found)

\* A destination that cannot be split or has a zone, or a lookup that fails.
Undialled ==
  /\ connection = "none"
  /\ connection' = "failed"
  /\ UNCHANGED <<addresses, tried>>

\* Mutant: the dialer is given the name and looks it up again.
LookedUpAgain == Addresses

Target == {addresses[Len(tried) + 1]}

Dial ==
  /\ connection = "dialling"
  /\ \E address \in Target, answers \in BOOLEAN :
       /\ tried' = Append(tried, address)
       /\ connection' = IF answers THEN "made"
                          ELSE IF Len(tried') = Len(addresses) THEN "failed" ELSE "dialling"
  /\ UNCHANGED addresses

DialNext == DialLiteral \/ DialName \/ Undialled \/ Dial

\* Fetching a document never contacts a host that is not public, however its address
\* is written and whatever the name resolves to afterwards; and no host at all if
\* one of the addresses of the name is not public.
ContactsOnlyPublic ==
  tried # <<>> =>
    \A address \in {tried[i] : i \in DOMAIN tried} \cup {addresses[i] : i \in DOMAIN addresses} :
      address.class = "global"

=============================================================================
