---------------------------- MODULE GatewayProofs ----------------------------
(***************************************************************************)
(* Proofs about Gateway, for all contracts, routes, requests and           *)
(* credentials and any number of changes.                                  *)
(*                                                                         *)
(* The rules are read first, without a state: what a path must begin with  *)
(* to match a pattern, which rule of a group it then is (the lemmas named  *)
(* Fires), that it is the only one of all that are generated (OnlyTheRule) *)
(* and where it takes the request (Destinations).  The inductive invariant *)
(* GatewayInv ties the request and its answer to the deployed file, which  *)
(* has the first rules of accepted sources (PartOfTheRules), and each      *)
(* property follows from it and those lemmas.                              *)
(***************************************************************************)
EXTENDS Gateway, SequenceTheorems, FiniteSetTheorems, TLAPS

-----------------------------------------------------------------------------
\* Sequences.

Sequence(s) == s \in Seq(ToSet(s))

LEMMA SequenceLen ==
  ASSUME NEW s, Sequence(s)
  PROVE  /\ Len(s) \in Nat /\ DOMAIN s = 1..Len(s)
         /\ \A x : x \in ToSet(s) <=> \E i \in 1..Len(s) : x = s[i]
BY DEF Sequence, ToSet

LEMMA SequenceConcat ==
  ASSUME NEW s, NEW t, Sequence(s), Sequence(t)
  PROVE  /\ Sequence(s \o t)
         /\ ToSet(s \o t) = ToSet(s) \cup ToSet(t)
         /\ Len(s \o t) = Len(s) + Len(t)
         /\ \A i \in 1..Len(s) : (s \o t)[i] = s[i]
         /\ \A i \in 1..Len(t) : (s \o t)[Len(s) + i] = t[i]
<1> DEFINE S == ToSet(s) \cup ToSet(t)
<1>1. s \in Seq(S) /\ t \in Seq(S)
  BY SeqMonotonic DEF Sequence
<1>2. /\ s \o t \in Seq(S)
      /\ Len(s \o t) = Len(s) + Len(t)
      /\ \A i \in 1..(Len(s) + Len(t)) :
           (s \o t)[i] = IF i <= Len(s) THEN s[i] ELSE t[i - Len(s)]
  BY <1>1, ConcatProperties
<1>3. Len(s) \in Nat /\ Len(t) \in Nat
  BY <1>1
<1>4. /\ \A i \in 1..Len(s) : (s \o t)[i] = s[i]
      /\ \A i \in 1..Len(t) : (s \o t)[Len(s) + i] = t[i]
  <2>1. ASSUME NEW i \in 1..Len(s) PROVE (s \o t)[i] = s[i]
    BY <1>2, <1>3
  <2>2. ASSUME NEW i \in 1..Len(t) PROVE (s \o t)[Len(s) + i] = t[i]
    <3>1. Len(s) + i \in 1..(Len(s) + Len(t)) /\ ~(Len(s) + i <= Len(s)) /\ Len(s) + i - Len(s) = i
      BY <1>3
    <3>2. QED
      BY <1>2, <3>1
  <2>3. QED
    BY <2>1, <2>2
<1>5. ToSet(s \o t) = S
  <2>1. ASSUME NEW x \in ToSet(s) PROVE x \in ToSet(s \o t)
    <3>1. PICK i \in 1..Len(s) : x = s[i]
      BY SequenceLen
    <3>2. i \in 1..Len(s \o t) /\ x = (s \o t)[i]
      BY <1>2, <1>3, <1>4, <3>1
    <3>3. QED
      BY <1>2, <3>2 DEF ToSet
  <2>2. ASSUME NEW x \in ToSet(t) PROVE x \in ToSet(s \o t)
    <3>1. PICK i \in 1..Len(t) : x = t[i]
      BY SequenceLen
    <3>2. Len(s) + i \in 1..Len(s \o t) /\ x = (s \o t)[Len(s) + i]
      BY <1>2, <1>3, <1>4, <3>1
    <3>3. QED
      BY <1>2, <3>2 DEF ToSet
  <2>3. ToSet(s \o t) \subseteq S
    BY <1>2 DEF ToSet
  <2>4. QED
    BY <2>1, <2>2, <2>3
<1>6. QED
  BY <1>2, <1>4, <1>5 DEF Sequence

LEMMA Tuples ==
  /\ Sequence(<<>>) /\ ToSet(<<>>) = {}
  /\ \A a : Sequence(<<a>>) /\ ToSet(<<a>>) = {a} /\ Len(<<a>>) = 1 /\ <<a>>[1] = a
  /\ \A a, b : /\ Sequence(<<a, b>>) /\ ToSet(<<a, b>>) = {a, b} /\ Len(<<a, b>>) = 2
               /\ <<a, b>>[1] = a /\ <<a, b>>[2] = b
  /\ \A a, b, c : /\ Sequence(<<a, b, c>>) /\ Len(<<a, b, c>>) = 3
                  /\ <<a, b, c>>[1] = a /\ <<a, b, c>>[2] = b /\ <<a, b, c>>[3] = c
  /\ \A a, b, c, d : /\ Sequence(<<a, b, c, d>>) /\ Len(<<a, b, c, d>>) = 4
                     /\ <<a, b, c, d>>[1] = a /\ <<a, b, c, d>>[2] = b
                     /\ <<a, b, c, d>>[3] = c /\ <<a, b, c, d>>[4] = d
<1>1. Sequence(<<>>) /\ ToSet(<<>>) = {}
  BY DEF Sequence, ToSet
<1>2. ASSUME NEW a PROVE Sequence(<<a>>) /\ ToSet(<<a>>) = {a} /\ Len(<<a>>) = 1 /\ <<a>>[1] = a
  BY DEF Sequence, ToSet
<1>3. ASSUME NEW a, NEW b
      PROVE  /\ Sequence(<<a, b>>) /\ ToSet(<<a, b>>) = {a, b} /\ Len(<<a, b>>) = 2
             /\ <<a, b>>[1] = a /\ <<a, b>>[2] = b
  BY DEF Sequence, ToSet
<1>4. ASSUME NEW a, NEW b, NEW c
      PROVE  /\ Sequence(<<a, b, c>>) /\ Len(<<a, b, c>>) = 3
             /\ <<a, b, c>>[1] = a /\ <<a, b, c>>[2] = b /\ <<a, b, c>>[3] = c
  BY DEF Sequence, ToSet
<1>5. ASSUME NEW a, NEW b, NEW c, NEW d
      PROVE  /\ Sequence(<<a, b, c, d>>) /\ Len(<<a, b, c, d>>) = 4
             /\ <<a, b, c, d>>[1] = a /\ <<a, b, c, d>>[2] = b
             /\ <<a, b, c, d>>[3] = c /\ <<a, b, c, d>>[4] = d
  BY DEF Sequence, ToSet
<1>6. QED
  BY <1>1, <1>2, <1>3, <1>4, <1>5

-----------------------------------------------------------------------------
\* Paths and patterns.

\* A sequence that begins with these segments.
Begins(p, a, b, c) == Sequence(p) /\ Len(p) >= 3 /\ p[1] = a /\ p[2] = b /\ p[3] = c

LEMMA PrefixPath ==
  ASSUME NEW a, NEW b, NEW t, Sequence(t), Len(t) >= 1
  PROVE  Begins(<<a, b>> \o t, a, b, t[1]) /\ Len(<<a, b>> \o t) = 2 + Len(t)
<1>1. Sequence(<<a, b>>) /\ Len(<<a, b>>) = 2 /\ <<a, b>>[1] = a /\ <<a, b>>[2] = b
  BY Tuples
<1>2. Len(t) \in Nat /\ 1 \in 1..Len(t) /\ 1 \in 1..2 /\ 2 \in 1..2 /\ 2 + 1 = 3
  BY SequenceLen
<1>3. /\ Sequence(<<a, b>> \o t) /\ Len(<<a, b>> \o t) = 2 + Len(t)
      /\ \A i \in 1..2 : (<<a, b>> \o t)[i] = <<a, b>>[i]
      /\ \A i \in 1..Len(t) : (<<a, b>> \o t)[2 + i] = t[i]
  BY <1>1, SequenceConcat
<1>4. (<<a, b>> \o t)[3] = t[1]
  BY <1>2, <1>3
<1>5. QED
  BY <1>1, <1>2, <1>3, <1>4 DEF Begins

LEMMA LongerPath ==
  ASSUME NEW p, NEW a, NEW b, NEW c, Begins(p, a, b, c), NEW t, Sequence(t)
  PROVE  /\ Begins(p \o t, a, b, c) /\ Len(p \o t) = Len(p) + Len(t)
         /\ \A i \in 1..Len(t) : (p \o t)[Len(p) + i] = t[i]
<1>1. /\ Sequence(p \o t) /\ Len(p \o t) = Len(p) + Len(t)
      /\ \A i \in 1..Len(p) : (p \o t)[i] = p[i]
      /\ \A i \in 1..Len(t) : (p \o t)[Len(p) + i] = t[i]
  BY SequenceConcat DEF Begins
<1>2. Len(p) \in Nat /\ Len(t) \in Nat /\ Len(p) >= 3
  BY SequenceLen DEF Begins
<1>3. QED
  BY <1>1, <1>2 DEF Begins

LEMMA RPCPath ==
  \A x : Begins(RPC \o <<x>>, "api", "rpc", x) /\ Len(RPC \o <<x>>) = 3
<1> SUFFICES ASSUME NEW x PROVE Begins(RPC \o <<x>>, "api", "rpc", x) /\ Len(RPC \o <<x>>) = 3
  OBVIOUS
<1>1. Sequence(<<x>>) /\ Len(<<x>>) = 1 /\ <<x>>[1] = x
  BY Tuples
<1>2. Begins(RPC \o <<x>>, "api", "rpc", <<x>>[1]) /\ Len(RPC \o <<x>>) = 2 + Len(<<x>>)
  BY <1>1, PrefixPath DEF RPC
<1>3. QED
  BY <1>1, <1>2

\* A method is the pair of its service's name and its own.
LEMMA PairSequence ==
  ASSUME NEW m, m = <<m[1], m[2]>>
  PROVE  Sequence(m) /\ Len(m) = 2
<1>1. \A a, b : Sequence(<<a, b>>) /\ Len(<<a, b>>) = 2
  BY Tuples
<1>2. QED
  BY <1>1

LEMMA PairPath ==
  ASSUME NEW p, NEW a, NEW b, NEW c, Begins(p, a, b, c), NEW m, Sequence(m)
  PROVE  /\ Begins(p \o m, a, b, c)
         /\ Len(p) = 3 /\ Len(m) = 2 =>
              Len(p \o m) = 5 /\ (p \o m)[4] = m[1] /\ (p \o m)[5] = m[2]
<1> DEFINE q == p \o m
<1>1. Begins(q, a, b, c)
  BY LongerPath
<1>2. Len(q) = Len(p) + Len(m) /\ \A i \in 1..Len(m) : q[Len(p) + i] = m[i]
  BY LongerPath
<1> HIDE DEF q
<1>3. ASSUME Len(p) = 3, Len(m) = 2 PROVE Len(q) = 5 /\ q[4] = m[1] /\ q[5] = m[2]
  <2>1. q[3 + 1] = m[1] /\ q[3 + 2] = m[2]
    BY <1>2, <1>3
  <2>2. QED
    BY <1>2, <1>3, <2>1
<1>4. QED
  BY <1>1, <1>3 DEF q

LEMMA MethodPath ==
  ASSUME NEW x, NEW m, Sequence(m), Len(m) = 2
  PROVE  /\ Begins(RPC \o <<x>> \o m, "api", "rpc", x) /\ Len(RPC \o <<x>> \o m) = 5
         /\ (RPC \o <<x>> \o m)[4] = m[1] /\ (RPC \o <<x>> \o m)[5] = m[2]
<1> DEFINE p == RPC \o <<x>>
<1>1. Begins(p, "api", "rpc", x)
  BY RPCPath
<1>2. Len(p) = 3
  BY RPCPath
<1> HIDE DEF p
<1>3. Begins(p \o m, "api", "rpc", x)
  BY <1>1, PairPath, Zenon
<1>4. Len(p \o m) = 5 /\ (p \o m)[4] = m[1] /\ (p \o m)[5] = m[2]
  BY <1>1, <1>2, PairPath, Zenon
<1>5. QED
  BY <1>3, <1>4 DEF p

LEMMA AuthPath ==
  /\ \A x : Begins(Auth \o <<x>>, "api", "auth", x) /\ Len(Auth \o <<x>>) = 3
  /\ \A x, y : Begins(Auth \o <<x, y>>, "api", "auth", x) /\ Len(Auth \o <<x, y>>) = 4
  /\ \A x, y, z : Begins(Auth \o <<x, y, z>>, "api", "auth", x)
<1>1. ASSUME NEW x PROVE Begins(Auth \o <<x>>, "api", "auth", x) /\ Len(Auth \o <<x>>) = 3
  <2>1. Sequence(<<x>>) /\ Len(<<x>>) = 1 /\ <<x>>[1] = x
    BY Tuples
  <2>2. /\ Begins(Auth \o <<x>>, "api", "auth", <<x>>[1])
        /\ Len(Auth \o <<x>>) = 2 + Len(<<x>>)
    BY <2>1, PrefixPath DEF Auth
  <2>3. QED
    BY <2>1, <2>2
<1>2. ASSUME NEW x, NEW y
      PROVE  Begins(Auth \o <<x, y>>, "api", "auth", x) /\ Len(Auth \o <<x, y>>) = 4
  <2>1. Sequence(<<x, y>>) /\ Len(<<x, y>>) = 2 /\ <<x, y>>[1] = x
    BY Tuples
  <2>2. /\ Begins(Auth \o <<x, y>>, "api", "auth", <<x, y>>[1])
        /\ Len(Auth \o <<x, y>>) = 2 + Len(<<x, y>>)
    BY <2>1, PrefixPath DEF Auth
  <2>3. QED
    BY <2>1, <2>2
<1>3. ASSUME NEW x, NEW y, NEW z PROVE Begins(Auth \o <<x, y, z>>, "api", "auth", x)
  <2>1. Sequence(<<x, y, z>>) /\ Len(<<x, y, z>>) = 3 /\ <<x, y, z>>[1] = x
    BY Tuples
  <2>2. Begins(Auth \o <<x, y, z>>, "api", "auth", <<x, y, z>>[1])
    BY <2>1, PrefixPath DEF Auth
  <2>3. QED
    BY <2>1, <2>2
<1>4. QED
  BY <1>1, <1>2, <1>3

LEMMA SelfServicePath ==
  ASSUME NEW t, Sequence(t)
  PROVE  Begins(Auth \o <<"self-service">> \o t, "api", "auth", "self-service")
<1>1. Begins(Auth \o <<"self-service">>, "api", "auth", "self-service")
  BY AuthPath
<1>2. QED
  BY <1>1, LongerPath

\* What a pattern that matches says of the path.
LEMMA MatchTells ==
  ASSUME NEW pattern, Sequence(pattern.path), NEW origin, NEW path,
         Matches(pattern, origin, path)
  PROVE  /\ origin = pattern.origin
         /\ IF pattern.open THEN Len(path) > Len(pattern.path) ELSE Len(path) = Len(pattern.path)
         /\ \A i \in 1..Len(pattern.path) : pattern.path[i] # OneSegment =>
              path[i] = pattern.path[i]
BY SequenceLen DEF Matches, SegmentMatches

LEMMA Patterns ==
  /\ \A o, p : Exact(o, p).origin = o /\ Exact(o, p).path = p /\ ~Exact(o, p).open
  /\ \A o, p : Below(o, p).origin = o /\ Below(o, p).path = p /\ Below(o, p).open
BY DEF Exact, Below

LEMMA ExactTells ==
  ASSUME NEW o, NEW p, Sequence(p), NEW origin, NEW path, Matches(Exact(o, p), origin, path)
  PROVE  /\ origin = o /\ Len(path) = Len(p)
         /\ \A i \in 1..Len(p) : p[i] # OneSegment => path[i] = p[i]
<1> DEFINE pattern == Exact(o, p)
<1>1. pattern.path = p /\ ~pattern.open /\ pattern.origin = o
  BY Patterns
<1>2. Matches(pattern, origin, path)
  OBVIOUS
<1> HIDE DEF pattern
<1>3. Sequence(pattern.path)
  BY <1>1
<1>4. /\ origin = pattern.origin
      /\ ~pattern.open => Len(path) = Len(pattern.path)
      /\ \A i \in 1..Len(pattern.path) : pattern.path[i] # OneSegment => path[i] = pattern.path[i]
  BY <1>2, <1>3, MatchTells
<1>5. QED
  BY <1>1, <1>4

-----------------------------------------------------------------------------
\* What a rule of each group tells of a request it matches: which rule of the group
\* it is, and where the request goes.

Fires(rule, asked) ==
  /\ asked.method \in rule.methods
  /\ \E pattern \in rule.match : Matches(pattern, asked.origin, asked.path)

LEMMA SoleFires ==
  ASSUME NEW rule, NEW pattern, rule.match = {pattern}, NEW asked, Fires(rule, asked)
  PROVE  asked.method \in rule.methods /\ Matches(pattern, asked.origin, asked.path)
BY DEF Fires

LEMMA GroupSizes ==
  ASSUME NEW r
  PROVE  /\ ToSet(ApiRules(r)) = {ApiRules(r)[i] : i \in 1..2}
         /\ ToSet(CollabRules(r)) = {CollabRules(r)[i] : i \in 1..2}
         /\ ToSet(PreflightRules(r)) = {PreflightRules(r)[i] : i \in 1..2}
         /\ ToSet(InternalRules(r)) = {InternalRules(r)[i] : i \in 1..1}
         /\ ToSet(AuthRules(r)) = {AuthRules(r)[i] : i \in 1..9}
         /\ ToSet(MCPRules(r)) = {MCPRules(r)[i] : i \in 1..2}
         /\ ToSet(OpenRules(r)) = {OpenRules(r)[i] : i \in 1..1}
         /\ ToSet(UploadRules(r)) = {UploadRules(r)[i] : i \in 1..2}
<1>1. /\ ToSet(ApiRules(r)) = {ApiRules(r)[i] : i \in 1..2}
      /\ ToSet(CollabRules(r)) = {CollabRules(r)[i] : i \in 1..2}
  BY DEF ToSet, ApiRules, CollabRules
<1>2. /\ ToSet(PreflightRules(r)) = {PreflightRules(r)[i] : i \in 1..2}
      /\ ToSet(InternalRules(r)) = {InternalRules(r)[i] : i \in 1..1}
  BY DEF ToSet, PreflightRules, InternalRules
<1>3. ToSet(AuthRules(r)) = {AuthRules(r)[i] : i \in 1..9}
  BY DEF ToSet, AuthRules
<1>4. /\ ToSet(MCPRules(r)) = {MCPRules(r)[i] : i \in 1..2}
      /\ ToSet(OpenRules(r)) = {OpenRules(r)[i] : i \in 1..1}
      /\ ToSet(UploadRules(r)) = {UploadRules(r)[i] : i \in 1..2}
  BY DEF ToSet, MCPRules, OpenRules, UploadRules
<1>5. QED
  BY <1>1, <1>2, <1>3, <1>4

LEMMA GroupsAreSequences ==
  ASSUME NEW r
  PROVE  /\ Sequence(ApiRules(r)) /\ Sequence(CollabRules(r)) /\ Sequence(PreflightRules(r))
         /\ Sequence(InternalRules(r)) /\ Sequence(AuthRules(r)) /\ Sequence(MCPRules(r))
         /\ Sequence(OpenRules(r)) /\ Sequence(UploadRules(r))
<1>1. Sequence(ApiRules(r)) /\ Sequence(CollabRules(r)) /\ Sequence(PreflightRules(r))
  BY Tuples DEF ApiRules, CollabRules, PreflightRules
<1>2. Sequence(InternalRules(r)) /\ Sequence(MCPRules(r)) /\ Sequence(OpenRules(r))
  BY Tuples DEF InternalRules, MCPRules, OpenRules
<1>3. Sequence(UploadRules(r))
  BY Tuples DEF UploadRules
<1>4. \A a, b, c, d, e, f, g, h, i : Sequence(<<a, b, c, d, e, f, g, h, i>>)
  BY DEF Sequence, ToSet
<1>5. Sequence(AuthRules(r))
  BY <1>4 DEF AuthRules
<1>6. QED
  BY <1>1, <1>2, <1>3, <1>5

LEMMA ApiFires ==
  ASSUME NEW r, NEW rule \in ToSet(ApiRules(r)), NEW asked, Fires(rule, asked)
  PROVE  /\ asked.path[1] \in {"health", "callbacks"} /\ asked.origin = r.api
         /\ rule = ApiRules(r)[IF asked.path[1] = "health" THEN 1 ELSE 2]
         /\ rule.strip = <<>> /\ rule.mutator = "header" /\ Len(asked.path) >= 1
<1>1. rule = ApiRules(r)[1] \/ rule = ApiRules(r)[2]
  BY GroupSizes
<1>2. /\ rule.strip = <<>> /\ rule.mutator = "header"
      /\ rule = ApiRules(r)[1] => rule.match = {Exact(r.api, <<"health">>)}
      /\ rule = ApiRules(r)[2] => rule.match = {Exact(r.api, <<"callbacks", "ses">>)}
  BY <1>1 DEF ApiRules, Rule
<1>3. /\ Sequence(<<"health">>) /\ Len(<<"health">>) = 1 /\ <<"health">>[1] = "health"
      /\ Sequence(<<"callbacks", "ses">>) /\ Len(<<"callbacks", "ses">>) = 2
      /\ <<"callbacks", "ses">>[1] = "callbacks"
  BY Tuples
<1>4. CASE rule = ApiRules(r)[1]
  <2>1. Matches(Exact(r.api, <<"health">>), asked.origin, asked.path)
    BY <1>2, <1>4, SoleFires
  <2>2. asked.origin = r.api /\ asked.path[1] = "health" /\ Len(asked.path) = 1
    BY <1>3, <2>1, Patterns, MatchTells DEF OneSegment
  <2>3. QED
    BY <1>2, <1>4, <2>2
<1>5. CASE rule = ApiRules(r)[2]
  <2>1. Matches(Exact(r.api, <<"callbacks", "ses">>), asked.origin, asked.path)
    BY <1>2, <1>5, SoleFires
  <2>2. asked.origin = r.api /\ asked.path[1] = "callbacks" /\ Len(asked.path) = 2
    BY <1>3, <2>1, Patterns, MatchTells DEF OneSegment
  <2>3. QED
    BY <1>2, <1>5, <2>2
<1>6. QED
  BY <1>1, <1>4, <1>5

LEMMA CollabFires ==
  ASSUME NEW r, NEW rule \in ToSet(CollabRules(r)), NEW asked, Fires(rule, asked)
  PROVE  /\ asked.path[1] = "collab" /\ asked.origin = r.collab
         /\ rule = CollabRules(r)[IF asked.path[2] = "post" THEN 1 ELSE 2]
         /\ rule.strip = <<"collab">> /\ rule.mutator = "header"
         /\ asked.method = "GET" /\ asked.path[2] \in {"post", "menu"}
         /\ Len(asked.path) = 4
<1>1. ASSUME NEW i \in 1..2, NEW type \in {"post", "menu"}, rule = CollabRules(r)[i],
             rule.match = {Exact(r.collab, <<"collab", type, OneSegment, OneSegment>>)}
      PROVE  /\ asked.path[1] = "collab" /\ asked.path[2] = type /\ asked.origin = r.collab
             /\ Len(asked.path) = 4
  <2> DEFINE p == <<"collab", type, OneSegment, OneSegment>>
  <2>1. Matches(Exact(r.collab, p), asked.origin, asked.path)
    BY <1>1, SoleFires
  <2>2. Sequence(p) /\ Len(p) = 4 /\ p[1] = "collab" /\ p[2] = type
    BY Tuples
  <2> HIDE DEF p
  <2>3. QED
    BY <2>1, <2>2, Patterns, MatchTells DEF OneSegment
<1>2. rule = CollabRules(r)[1] \/ rule = CollabRules(r)[2]
  BY GroupSizes
<1>3. /\ rule.strip = <<"collab">> /\ rule.mutator = "header" /\ rule.methods = {"GET"}
      /\ rule = CollabRules(r)[1] =>
           rule.match = {Exact(r.collab, <<"collab", "post", OneSegment, OneSegment>>)}
      /\ rule = CollabRules(r)[2] =>
           rule.match = {Exact(r.collab, <<"collab", "menu", OneSegment, OneSegment>>)}
  BY <1>2 DEF CollabRules, Rule
<1>4. asked.method = "GET"
  BY <1>3 DEF Fires
<1>5. QED
  BY <1>1, <1>2, <1>3, <1>4

LEMMA BelowTells ==
  ASSUME NEW o, NEW p, NEW a, NEW b, NEW c, Begins(p, a, b, c),
         a # OneSegment, b # OneSegment, c # OneSegment,
         NEW origin, NEW path, Matches(Below(o, p), origin, path)
  PROVE  /\ origin = o /\ Len(path) > Len(p)
         /\ path[1] = a /\ path[2] = b /\ path[3] = c
<1> DEFINE pattern == Below(o, p)
<1>1. pattern.path = p /\ pattern.open /\ pattern.origin = o
  BY Patterns
<1>2. Matches(pattern, origin, path)
  OBVIOUS
<1> HIDE DEF pattern
<1>3. Sequence(pattern.path)
  BY <1>1 DEF Begins
<1>4. /\ origin = pattern.origin
      /\ pattern.open => Len(path) > Len(pattern.path)
      /\ \A i \in 1..Len(pattern.path) : pattern.path[i] # OneSegment => path[i] = pattern.path[i]
  BY <1>2, <1>3, MatchTells
<1>5. 1 \in 1..Len(p) /\ 2 \in 1..Len(p) /\ 3 \in 1..Len(p)
  BY SequenceLen DEF Begins
<1>6. QED
  BY <1>1, <1>4, <1>5 DEF Begins

LEMMA BelowRPCTells ==
  ASSUME NEW o, NEW package \in {"api.open.v1", "api.manage.v1", "api.intra.v1"}, NEW origin,
         NEW path, Matches(Below(o, RPC \o <<package>>), origin, path)
  PROVE  /\ origin = o /\ Len(path) > 3
         /\ path[1] = "api" /\ path[2] = "rpc" /\ path[3] = package
<1> DEFINE p == RPC \o <<package>>
<1>1. Begins(p, "api", "rpc", package)
  BY RPCPath
<1>2. Len(p) = 3
  BY RPCPath
<1>3. "api" # OneSegment /\ "rpc" # OneSegment /\ package # OneSegment
  BY DEF OneSegment
<1>4. Matches(Below(o, p), origin, path)
  OBVIOUS
<1> HIDE DEF p
<1>5. /\ origin = o /\ Len(path) > Len(p)
      /\ path[1] = "api" /\ path[2] = "rpc" /\ path[3] = package
  BY <1>1, <1>3, <1>4, BelowTells
<1>6. QED
  BY <1>2, <1>5

LEMMA BelowUploadTells ==
  ASSUME NEW o, NEW origin, NEW path, Matches(Below(o, <<"api", "upload">>), origin, path)
  PROVE  origin = o /\ path[1] = "api" /\ path[2] = "upload" /\ Len(path) > 2
<1>1. /\ Sequence(<<"api", "upload">>) /\ Len(<<"api", "upload">>) = 2
      /\ <<"api", "upload">>[1] = "api" /\ <<"api", "upload">>[2] = "upload"
  BY Tuples
<1>2. QED
  BY <1>1, Patterns, MatchTells DEF OneSegment

LEMMA PreflightFires ==
  ASSUME NEW r, NEW rule \in ToSet(PreflightRules(r)), NEW asked, Fires(rule, asked)
  PROVE  /\ asked.path[1] = "api" /\ asked.origin = r.api /\ asked.method = "OPTIONS"
         /\ rule = PreflightRules(r)[IF asked.path[2] = "rpc" THEN 1 ELSE 2]
         /\ \/ /\ asked.path[2] = "rpc" /\ asked.path[3] \in {"api.open.v1", "api.manage.v1"}
               /\ rule.strip = RPC /\ Len(asked.path) > 3
            \/ asked.path[2] = "upload" /\ rule.strip = <<"api">> /\ Len(asked.path) > 2
         /\ rule.mutator = "header"
<1>1. rule = PreflightRules(r)[1] \/ rule = PreflightRules(r)[2]
  BY GroupSizes
<1>2. /\ rule.mutator = "header" /\ rule.methods = {"OPTIONS"}
      /\ rule = PreflightRules(r)[1] =>
           /\ rule.strip = RPC
           /\ rule.match = UNION {OnPublicOrigin(r, package) :
                                    package \in {"api.open.v1", "api.manage.v1"}}
      /\ rule = PreflightRules(r)[2] =>
           rule.strip = <<"api">> /\ rule.match = {Below(r.api, <<"api", "upload">>)}
  BY <1>1 DEF PreflightRules, Rule
<1>3. asked.method = "OPTIONS"
  BY <1>2 DEF Fires
<1>4. CASE rule = PreflightRules(r)[1]
  <2>1. PICK package \in {"api.open.v1", "api.manage.v1"} :
          Matches(Below(r.api, RPC \o <<package>>), asked.origin, asked.path)
    BY <1>2, <1>4 DEF Fires, OnPublicOrigin
  <2>2. /\ asked.origin = r.api /\ Len(asked.path) > 3
        /\ asked.path[1] = "api" /\ asked.path[2] = "rpc" /\ asked.path[3] = package
    BY <2>1, BelowRPCTells
  <2>3. QED
    BY <1>2, <1>3, <1>4, <2>2
<1>5. CASE rule = PreflightRules(r)[2]
  <2>1. Matches(Below(r.api, <<"api", "upload">>), asked.origin, asked.path)
    BY <1>2, <1>5, SoleFires
  <2>2. QED
    BY <1>2, <1>3, <1>5, <2>1, BelowUploadTells
<1>6. QED
  BY <1>1, <1>4, <1>5

LEMMA InternalFires ==
  ASSUME NEW r, NEW rule \in ToSet(InternalRules(r)), NEW asked, Fires(rule, asked)
  PROVE  /\ asked.path[1] = "api" /\ asked.path[2] = "rpc" /\ asked.path[3] = "api.intra.v1"
         /\ rule = InternalRules(r)[1] /\ rule.authorizer = Deny
<1>1. rule = InternalRules(r)[1]
  BY GroupSizes
<1>2. rule.match = apiRPCPathPattern(r, "api.intra.v1") /\ rule.authorizer = Deny
  BY <1>1 DEF InternalRules, Rule
<1>3. PICK o \in {r.api, r.apiInternal} :
        Matches(Below(o, RPC \o <<"api.intra.v1">>), asked.origin, asked.path)
  BY <1>2 DEF Fires, apiRPCPathPattern
<1>4. QED
  BY <1>1, <1>2, <1>3, BelowRPCTells

LEMMA OpenFires ==
  ASSUME NEW r, NEW rule \in ToSet(OpenRules(r)), NEW asked, Fires(rule, asked)
  PROVE  /\ asked.path[1] = "api" /\ asked.path[2] = "rpc" /\ asked.path[3] = "api.open.v1"
         /\ Len(asked.path) > 3 /\ asked.method = "POST"
         /\ asked.origin \in {r.api, r.apiInternal}
         /\ rule = OpenRules(r)[1] /\ rule.strip = RPC /\ rule.mutator = "header"
<1>1. rule = OpenRules(r)[1]
  BY GroupSizes
<1>2. /\ rule.match = apiRPCPathPattern(r, "api.open.v1") /\ rule.methods = {"POST"}
      /\ rule.strip = RPC /\ rule.mutator = "header"
  BY <1>1 DEF OpenRules, Rule
<1>3. PICK o \in {r.api, r.apiInternal} :
        Matches(Below(o, RPC \o <<"api.open.v1">>), asked.origin, asked.path)
  BY <1>2 DEF Fires, apiRPCPathPattern
<1>4. asked.method = "POST"
  BY <1>2 DEF Fires
<1>5. QED
  BY <1>1, <1>2, <1>3, <1>4, BelowRPCTells

LEMMA MCPFires ==
  ASSUME NEW r, NEW rule \in ToSet(MCPRules(r)), NEW asked, Fires(rule, asked)
  PROVE  /\ asked.path[1] = "mcp" /\ asked.origin = r.api /\ Len(asked.path) = 1
         /\ asked.method \in {"OPTIONS", "GET", "POST"}
         /\ rule = MCPRules(r)[IF asked.method = "OPTIONS" THEN 1 ELSE 2]
         /\ rule.strip = <<>>
         /\ asked.method = "OPTIONS" => rule.mutator = "header"
         /\ asked.method # "OPTIONS" =>
              /\ rule.authenticators = <<"oauth2_introspection">>
              /\ rule.authorizer = Ask("MCP author") /\ rule.mutator = "mcp header"
<1>1. rule = MCPRules(r)[1] \/ rule = MCPRules(r)[2]
  BY GroupSizes
<1>2. /\ rule.match = {Exact(r.api, <<"mcp">>)} /\ rule.strip = <<>>
      /\ rule = MCPRules(r)[1] => rule.methods = {"OPTIONS"} /\ rule.mutator = "header"
      /\ rule = MCPRules(r)[2] =>
           /\ rule.methods = {"GET", "POST"}
           /\ rule.authenticators = <<"oauth2_introspection">>
           /\ rule.authorizer = Ask("MCP author") /\ rule.mutator = "mcp header"
  <2>1. CASE rule = MCPRules(r)[1]
    BY <2>1 DEF MCPRules, Rule
  <2>2. CASE rule = MCPRules(r)[2]
    BY <2>2 DEF MCPRules, Rule
  <2>3. QED
    BY <1>1, <2>1, <2>2
<1>3. Matches(Exact(r.api, <<"mcp">>), asked.origin, asked.path)
  BY <1>2, SoleFires
<1>4. Sequence(<<"mcp">>) /\ Len(<<"mcp">>) = 1 /\ <<"mcp">>[1] = "mcp"
  BY Tuples
<1>5. asked.origin = r.api /\ asked.path[1] = "mcp" /\ Len(asked.path) = 1
  BY <1>3, <1>4, Patterns, MatchTells DEF OneSegment
<1>6. asked.method \in rule.methods
  BY DEF Fires
<1>7. QED
  BY <1>1, <1>2, <1>5, <1>6

LEMMA UploadFires ==
  ASSUME NEW r, NEW rule \in ToSet(UploadRules(r)), NEW asked, Fires(rule, asked)
  PROVE  /\ asked.path[1] = "api" /\ asked.path[2] = "upload" /\ asked.origin = r.api
         /\ asked.method \in {"GET", "POST", "PUT"} /\ Len(asked.path) > 2
         /\ rule = UploadRules(r)[IF asked.method = "GET" THEN 1 ELSE 2]
         /\ rule.strip = <<"api">> /\ rule.mutator = "header" /\ rule.authenticators = Session
<1>1. rule = UploadRules(r)[1] \/ rule = UploadRules(r)[2]
  BY GroupSizes
<1>2. /\ rule.strip = <<"api">> /\ rule.mutator = "header" /\ rule.authenticators = Session
      /\ rule = UploadRules(r)[1] =>
           rule.match = {Exact(r.api, <<"api", "upload", "source">>)} /\ rule.methods = {"GET"}
      /\ rule = UploadRules(r)[2] =>
           rule.match = {Below(r.api, <<"api", "upload">>)} /\ rule.methods = {"POST", "PUT"}
  BY <1>1 DEF UploadRules, UploadRule, Rule
<1>3. CASE rule = UploadRules(r)[1]
  <2> DEFINE p == <<"api", "upload", "source">>
  <2>1. Matches(Exact(r.api, p), asked.origin, asked.path)
    BY <1>2, <1>3, SoleFires
  <2>2. Sequence(p) /\ Len(p) = 3 /\ p[1] = "api" /\ p[2] = "upload"
    BY Tuples
  <2> HIDE DEF p
  <2>3. /\ asked.path[1] = "api" /\ asked.path[2] = "upload" /\ asked.origin = r.api
        /\ Len(asked.path) = 3
    BY <2>1, <2>2, Patterns, MatchTells DEF OneSegment
  <2>4. QED
    BY <1>2, <1>3, <2>3 DEF Fires
<1>4. CASE rule = UploadRules(r)[2]
  <2>1. Matches(Below(r.api, <<"api", "upload">>), asked.origin, asked.path)
    BY <1>2, <1>4, SoleFires
  <2>2. asked.method \in {"POST", "PUT"}
    BY <1>2, <1>4 DEF Fires
  <2>3. QED
    BY <1>2, <1>4, <2>1, <2>2, BelowUploadTells
<1>5. QED
  BY <1>1, <1>3, <1>4

LEMMA RoleRulesSet ==
  ASSUME NEW r, NEW role, NEW methods
  PROVE  /\ Sequence(RoleRules(r, role, methods))
         /\ ToSet(RoleRules(r, role, methods)) =
              IF methods = {} THEN {} ELSE {writeRoleRule(r, role, methods)}
<1>1. \A a : Sequence(<<a>>) /\ ToSet(<<a>>) = {a}
  BY Tuples
<1>2. Sequence(<<>>) /\ ToSet(<<>>) = {}
  BY Tuples
<1>3. QED
  BY <1>1, <1>2 DEF RoleRules

LEMMA ManageRulesSet ==
  ASSUME NEW r, NEW methodsOf
  PROVE  /\ Sequence(ManageRules(r, methodsOf))
         /\ \A rule : rule \in ToSet(ManageRules(r, methodsOf)) <=>
              \E role \in Roles :
                methodsOf[role] # {} /\ rule = writeRoleRule(r, role, methodsOf[role])
<1> DEFINE a == RoleRules(r, "ADMIN", methodsOf["ADMIN"])
           b == RoleRules(r, "AUTHOR", methodsOf["AUTHOR"])
           c == RoleRules(r, "USER", methodsOf["USER"])
<1>1. Sequence(a) /\ Sequence(b) /\ Sequence(c)
  BY RoleRulesSet
<1>2. /\ \A rule : rule \in ToSet(a) <=>
           methodsOf["ADMIN"] # {} /\ rule = writeRoleRule(r, "ADMIN", methodsOf["ADMIN"])
      /\ \A rule : rule \in ToSet(b) <=>
           methodsOf["AUTHOR"] # {} /\ rule = writeRoleRule(r, "AUTHOR", methodsOf["AUTHOR"])
      /\ \A rule : rule \in ToSet(c) <=>
           methodsOf["USER"] # {} /\ rule = writeRoleRule(r, "USER", methodsOf["USER"])
  BY RoleRulesSet
<1>3. ManageRules(r, methodsOf) = a \o b \o c
  BY DEF ManageRules
<1> HIDE DEF a, b, c
<1>4. Sequence(a \o b) /\ ToSet(a \o b) = ToSet(a) \cup ToSet(b)
  BY <1>1, SequenceConcat
<1>5. Sequence(a \o b \o c) /\ ToSet(a \o b \o c) = ToSet(a) \cup ToSet(b) \cup ToSet(c)
  BY <1>1, <1>4, SequenceConcat
<1>6. QED
  BY <1>2, <1>3, <1>5 DEF Roles

\* What the contract says of the methods of a role.
LEMMA RolesOfMethods ==
  ASSUME NEW contract, NEW role \in Roles, NEW m,
         m \in collectManageAuthorizationRoles(contract)[role]
  PROVE  m \in MethodsOf(contract) /\ contract[m] = role
BY DEF collectManageAuthorizationRoles

LEMMA MethodsAreNames ==
  ASSUME NEW s \in Sources, NEW m \in MethodsOf(s.contract)
  PROVE  /\ Sequence(m) /\ Len(m) = 2 /\ m = <<m[1], m[2]>>
         /\ m[1] # OneSegment /\ m[2] # OneSegment
<1>1. m = <<m[1], m[2]>> /\ m[1] # OneSegment /\ m[2] # OneSegment
  BY GatewayAssumption DEF MethodsOf
<1>2. QED
  BY <1>1, PairSequence

ManagePath(m) == RPC \o <<"api.manage.v1">> \o m

LEMMA WriteRoleRuleIs ==
  ASSUME NEW r, NEW role, NEW methods
  PROVE  LET rule == writeRoleRule(r, role, methods)
         IN /\ rule.methods = {"POST"} /\ rule.authenticators = Session
            /\ rule.authorizer = writeRoleAuthorizer(role) /\ rule.mutator = "header"
            /\ rule.upstream = r.apiUpstream /\ rule.strip = RPC
            /\ \A pattern : pattern \in rule.match <=>
                 \E o \in {r.api, r.apiInternal}, m \in methods : pattern = Exact(o, ManagePath(m))
<1> DEFINE match == UNION {ExactlyOneOf(origin, {RPC \o <<"api.manage.v1">> \o method :
                                 method \in methods}) : origin \in {r.api, r.apiInternal}}
           rule == writeRoleRule(r, role, methods)
<1>1. \A pattern : pattern \in match <=>
        \E o \in {r.api, r.apiInternal}, m \in methods : pattern = Exact(o, ManagePath(m))
  <2>1. \A o, pattern : pattern \in ExactlyOneOf(o, {RPC \o <<"api.manage.v1">> \o method :
                                                      method \in methods}) <=>
          \E m \in methods : pattern = Exact(o, ManagePath(m))
    BY Zenon DEF ExactlyOneOf, ManagePath
  <2>2. QED
    BY <2>1, Zenon
<1>2. rule = Rule(roleID(role), match, {"POST"}, Session, writeRoleAuthorizer(role), "header",
                  r.apiUpstream, RPC)
  BY Zenon DEF writeRoleRule, serviceMethodRegexGroup
<1> HIDE DEF match, rule
<1>3. /\ rule.methods = {"POST"} /\ rule.authenticators = Session
      /\ rule.authorizer = writeRoleAuthorizer(role) /\ rule.mutator = "header"
      /\ rule.upstream = r.apiUpstream /\ rule.strip = RPC /\ rule.match = match
  BY <1>2 DEF Rule
<1>4. QED
  BY <1>1, <1>3 DEF rule

LEMMA ManagePathIs ==
  ASSUME NEW s \in Sources, NEW m \in MethodsOf(s.contract)
  PROVE  LET p == ManagePath(m)
         IN /\ Sequence(p) /\ Len(p) = 5
            /\ p[1] = "api" /\ p[2] = "rpc" /\ p[3] = "api.manage.v1"
            /\ p[4] = m[1] /\ p[5] = m[2]
BY MethodsAreNames, MethodPath DEF Begins, ManagePath

LEMMA ManageFires ==
  ASSUME NEW s \in Sources, NEW asked,
         NEW rule \in ToSet(ManageRules(s.routes, collectManageAuthorizationRoles(s.contract))),
         Fires(rule, asked)
  PROVE  /\ asked.path[1] = "api" /\ asked.path[2] = "rpc" /\ asked.path[3] = "api.manage.v1"
         /\ Len(asked.path) = 5 /\ asked.method = "POST"
         /\ asked.origin \in {s.routes.api, s.routes.apiInternal}
         /\ rule.strip = RPC /\ rule.mutator = "header" /\ rule.authenticators = Session
         /\ \E m \in MethodsOf(s.contract) :
              /\ m = <<asked.path[4], asked.path[5]>> /\ s.contract[m] \in Roles
              /\ rule = writeRoleRule(s.routes, s.contract[m],
                          collectManageAuthorizationRoles(s.contract)[s.contract[m]])
<1> DEFINE f == collectManageAuthorizationRoles(s.contract)
<1>1. PICK role \in Roles : rule = writeRoleRule(s.routes, role, f[role])
  BY ManageRulesSet
<1>2. /\ rule.methods = {"POST"} /\ rule.strip = RPC /\ rule.mutator = "header"
      /\ rule.authenticators = Session
      /\ \A pattern : pattern \in rule.match <=>
           \E o \in {s.routes.api, s.routes.apiInternal}, m \in f[role] :
             pattern = Exact(o, ManagePath(m))
  BY <1>1, WriteRoleRuleIs
<1>3. PICK o \in {s.routes.api, s.routes.apiInternal}, m \in f[role] :
        Matches(Exact(o, ManagePath(m)), asked.origin, asked.path)
  BY <1>2 DEF Fires
<1>4. m \in MethodsOf(s.contract) /\ s.contract[m] = role
  BY <1>3, RolesOfMethods
<1>5. m = <<m[1], m[2]>> /\ m[1] # OneSegment /\ m[2] # OneSegment
  BY <1>4, MethodsAreNames
<1> DEFINE p == ManagePath(m)
<1>6. /\ Sequence(p) /\ Len(p) = 5
      /\ p[1] = "api" /\ p[2] = "rpc" /\ p[3] = "api.manage.v1"
      /\ p[4] = m[1] /\ p[5] = m[2]
  BY <1>4, ManagePathIs
<1>7. Matches(Exact(o, p), asked.origin, asked.path)
  BY <1>3
<1> HIDE DEF p
<1>8. /\ asked.origin = o /\ Len(asked.path) = 5
      /\ \A i \in 1..5 : p[i] # OneSegment => asked.path[i] = p[i]
  BY <1>6, <1>7, ExactTells
<1>9. /\ asked.path[1] = "api" /\ asked.path[2] = "rpc" /\ asked.path[3] = "api.manage.v1"
      /\ asked.path[4] = m[1] /\ asked.path[5] = m[2]
  BY <1>5, <1>6, <1>8 DEF OneSegment
<1>10. asked.method = "POST"
  BY <1>2 DEF Fires
<1>11. m = <<asked.path[4], asked.path[5]>>
  BY <1>5, <1>9
<1> HIDE DEF f
<1>12. /\ m \in MethodsOf(s.contract) /\ s.contract[m] \in Roles
       /\ rule = writeRoleRule(s.routes, s.contract[m], f[s.contract[m]])
  BY <1>1, <1>4
<1>13. QED
  BY <1>2, <1>8, <1>9, <1>10, <1>11, <1>12 DEF f

LEMMA CallsFire ==
  ASSUME NEW s \in Sources, RolesAreDeclared(s.contract), NEW asked, asked.method = "POST",
         asked.origin \in {s.routes.api, s.routes.apiInternal},
         NEW m \in MethodsOf(s.contract), asked.path = ManagePath(m)
  PROVE  \E rule \in ToSet(ManageRules(s.routes, collectManageAuthorizationRoles(s.contract))) :
           Fires(rule, asked)
<1> DEFINE f == collectManageAuthorizationRoles(s.contract)
           role == s.contract[m]
           rule == writeRoleRule(s.routes, role, f[role])
           pattern == Exact(asked.origin, asked.path)
<1>1. role \in Roles /\ m \in f[role]
  BY DEF RolesAreDeclared, collectManageAuthorizationRoles
<1>2. rule \in ToSet(ManageRules(s.routes, f))
  BY <1>1, ManageRulesSet
<1>3. rule.methods = {"POST"} /\ pattern \in rule.match
  BY <1>1, WriteRoleRuleIs
<1>4. pattern.path = asked.path /\ ~pattern.open /\ pattern.origin = asked.origin
  BY Patterns
<1>5. Sequence(asked.path)
  BY ManagePathIs
<1> HIDE DEF pattern, rule
<1>6. Matches(pattern, asked.origin, asked.path)
  BY <1>4, <1>5 DEF Matches, SegmentMatches
<1>7. Fires(rule, asked)
  BY <1>3, <1>6 DEF Fires
<1>8. QED
  BY <1>2, <1>7

\* The authentication routes.

LEMMA FiresExactly ==
  ASSUME NEW rule, NEW o, NEW paths, rule.match = ExactlyOneOf(o, paths),
         NEW asked, Fires(rule, asked)
  PROVE  \E p \in paths : Matches(Exact(o, p), asked.origin, asked.path)
BY DEF Fires, ExactlyOneOf

LEMMA ExactAuthTells ==
  ASSUME NEW o, NEW p, NEW c, Begins(p, "api", "auth", c), c # OneSegment,
         NEW origin, NEW path, Matches(Exact(o, p), origin, path)
  PROVE  /\ origin = o /\ Len(path) = Len(p) /\ Len(path) >= 3
         /\ path[1] = "api" /\ path[2] = "auth" /\ path[3] = c
<1>1. Sequence(p)
  BY DEF Begins
<1>2. /\ origin = o /\ Len(path) = Len(p)
      /\ \A i \in 1..Len(p) : p[i] # OneSegment => path[i] = p[i]
  BY <1>1, ExactTells
<1>3. 1 \in 1..Len(p) /\ 2 \in 1..Len(p) /\ 3 \in 1..Len(p)
  BY <1>1, SequenceLen DEF Begins
<1>4. QED
  BY <1>2, <1>3 DEF Begins, OneSegment

LEMMA BelowAuthTells ==
  ASSUME NEW o, NEW family, family # OneSegment, NEW origin, NEW path,
         Matches(Below(o, Auth \o <<family>>), origin, path)
  PROVE  /\ origin = o /\ Len(path) > 3
         /\ path[1] = "api" /\ path[2] = "auth" /\ path[3] = family
<1> DEFINE p == Auth \o <<family>>
<1>1. Begins(p, "api", "auth", family)
  BY AuthPath
<1>2. Len(p) = 3
  BY AuthPath
<1>3. "api" # OneSegment /\ "auth" # OneSegment
  BY DEF OneSegment
<1>4. Matches(Below(o, p), origin, path)
  OBVIOUS
<1> HIDE DEF p
<1>5. /\ origin = o /\ Len(path) > Len(p)
      /\ path[1] = "api" /\ path[2] = "auth" /\ path[3] = family
  BY <1>1, <1>3, <1>4, BelowTells
<1>6. QED
  BY <1>2, <1>5

\* The paths of self-service.
OtherForms ==
  {<<"logout">>, <<"logout", "browser">>, <<"errors">>,
   <<"methods", "oidc", "callback", OneSegment>>}

LEMMA FormsAreSequences ==
  \A t \in PreflightedForms \cup OtherForms : Sequence(t)
<1>1. \A a, b, c, d : Sequence(<<a>>) /\ Sequence(<<a, b>>) /\ Sequence(<<a, b, c, d>>)
  BY Tuples
<1>2. ASSUME NEW t \in {"verification", "settings"} \X {"browser", "flows"} PROVE Sequence(t)
  <2>1. t = <<t[1], t[2]>>
    OBVIOUS
  <2>2. QED
    BY <1>1, <2>1
<1>3. Sequence(<<"verification">>) /\ Sequence(<<"settings">>)
  BY <1>1
<1>4. \A t \in OtherForms : Sequence(t)
  BY <1>1, Zenon DEF OtherForms
<1>5. QED
  BY <1>2, <1>3, <1>4, Zenon DEF PreflightedForms

LEMMA SelfServiceTells ==
  ASSUME NEW o, NEW t \in PreflightedForms \cup OtherForms, NEW origin, NEW path,
         Matches(Exact(o, Auth \o <<"self-service">> \o t), origin, path)
  PROVE  /\ origin = o /\ Len(path) >= 3
         /\ path[1] = "api" /\ path[2] = "auth" /\ path[3] = "self-service"
<1> DEFINE p == Auth \o <<"self-service">> \o t
<1>1. Begins(p, "api", "auth", "self-service")
  BY FormsAreSequences, SelfServicePath
<1>2. "self-service" # OneSegment
  BY DEF OneSegment
<1>3. Matches(Exact(o, p), origin, path)
  OBVIOUS
<1> HIDE DEF p
<1>4. QED
  BY <1>1, <1>2, <1>3, ExactAuthTells

\* The same four segments, put together in two ways.
LEMMA SameForm ==
  \A x, y : Auth \o <<x, y>> = Auth \o <<x>> \o <<y>>
<1> SUFFICES ASSUME NEW x, NEW y PROVE Auth \o <<x, y>> = Auth \o <<x>> \o <<y>>
  OBVIOUS
<1> DEFINE u == <<x>>
           v == <<y>>
           w == <<x, y>>
           a == Auth \o w
           b == Auth \o u
           c == b \o v
<1>0. Sequence(Auth) /\ Sequence(u) /\ Sequence(v) /\ Sequence(w)
  BY Tuples DEF Auth
<1>1. /\ Len(Auth) = 2 /\ Len(u) = 1 /\ u[1] = x
      /\ Len(v) = 1 /\ v[1] = y /\ Len(w) = 2 /\ w[1] = x /\ w[2] = y
  BY Tuples DEF Auth
<1> HIDE DEF u, v, w
<1>2. /\ Sequence(a) /\ Len(a) = Len(Auth) + Len(w) /\ \A i \in 1..Len(Auth) : a[i] = Auth[i]
      /\ \A i \in 1..Len(w) : a[Len(Auth) + i] = w[i]
  BY <1>0, SequenceConcat
<1>3. /\ Sequence(b) /\ Len(b) = Len(Auth) + Len(u) /\ \A i \in 1..Len(Auth) : b[i] = Auth[i]
      /\ \A i \in 1..Len(u) : b[Len(Auth) + i] = u[i]
  BY <1>0, SequenceConcat
<1> HIDE DEF a, b
<1>4. /\ Sequence(c) /\ Len(c) = Len(b) + Len(v) /\ \A i \in 1..Len(b) : c[i] = b[i]
      /\ \A i \in 1..Len(v) : c[Len(b) + i] = v[i]
  BY <1>0, <1>3, SequenceConcat
<1> HIDE DEF c
<1>5. Len(a) = 4 /\ Len(b) = 3 /\ Len(c) = 4
  BY <1>1, <1>2, <1>3, <1>4
<1>6. /\ a[1] = Auth[1] /\ a[2] = Auth[2] /\ a[2 + 1] = x /\ a[2 + 2] = y
      /\ b[1] = Auth[1] /\ b[2] = Auth[2] /\ b[2 + 1] = x
      /\ c[1] = b[1] /\ c[2] = b[2] /\ c[3] = b[3] /\ c[3 + 1] = y
  BY <1>1, <1>2, <1>3, <1>4, <1>5
<1>7. \A i \in 1..4 : a[i] = c[i]
  BY <1>6
<1>8. a \in Seq(ToSet(a) \cup ToSet(c)) /\ c \in Seq(ToSet(a) \cup ToSet(c))
  BY <1>2, <1>4, SeqMonotonic DEF Sequence
<1>9. a = c
  BY <1>5, <1>7, <1>8, SeqEqual
<1>10. QED
  BY <1>9 DEF a, b, c, u, v, w

LEMMA AuthRulesAlike ==
  ASSUME NEW r, NEW i \in 1..9
  PROVE  /\ AuthRules(r)[i].strip = Auth /\ AuthRules(r)[i].mutator = "noop"
         /\ AuthRules(r)[i].authenticators = Anonymous /\ AuthRules(r)[i].authorizer = Allow
BY DEF AuthRules, AuthRule, Rule

LEMMA AuthMethods ==
  ASSUME NEW r
  PROVE  /\ AuthRules(r)[1].methods = {"OPTIONS"}
         /\ AuthRules(r)[2].methods = {"GET", "POST"} /\ AuthRules(r)[3].methods = {"GET"}
         /\ AuthRules(r)[4].methods = {"GET"} /\ AuthRules(r)[5].methods = {"POST"}
         /\ AuthRules(r)[6].methods = {"GET", "DELETE"} /\ AuthRules(r)[7].methods = {"GET"}
         /\ AuthRules(r)[8].methods = {"GET"} /\ AuthRules(r)[9].methods = {"GET"}
BY DEF AuthRules, AuthRule, Rule

LEMMA AuthMatches ==
  ASSUME NEW r
  PROVE  /\ AuthRules(r)[1].match = AuthPreflight(r)
         /\ AuthRules(r)[2].match = ExactlyOneOf(r.auth, {Auth \o <<"login">>})
         /\ AuthRules(r)[3].match = ExactlyOneOf(r.auth, {Auth \o <<"login", "flows">>})
         /\ AuthRules(r)[4].match = ExactlyOneOf(r.auth, SelfServiceReads)
         /\ AuthRules(r)[5].match = ExactlyOneOf(r.auth, SelfServiceForms)
         /\ AuthRules(r)[6].match = {Below(r.auth, Auth \o <<"sessions">>)}
         /\ AuthRules(r)[7].match = {Below(r.auth, Auth \o <<"schemas">>)}
         /\ AuthRules(r)[8].match = {Below(r.auth, Auth \o <<"health">>)}
         /\ AuthRules(r)[9].match = ExactlyOneOf(r.auth, {Webauthn})
BY DEF AuthRules, AuthRule, AuthFamily, Rule

Families == {"login", "self-service", "sessions", "schemas", "health", ".well-known"}

\* What a path of the authentication routes says.
AuthAt(r, asked, family) ==
  /\ asked.path[1] = "api" /\ asked.path[2] = "auth" /\ asked.path[3] = family
  /\ asked.origin = r.auth /\ Len(asked.path) >= 3

LEMMA FormsArePreflighted ==
  /\ \A p \in SelfServiceReads :
       \E t \in PreflightedForms \cup OtherForms : p = Auth \o <<"self-service">> \o t
  /\ \A p \in SelfServiceForms : \E t \in PreflightedForms : p = Auth \o <<"self-service">> \o t
<1>1. ASSUME NEW p \in SelfServiceReads
      PROVE  \E t \in PreflightedForms \cup OtherForms : p = Auth \o <<"self-service">> \o t
  BY Zenon DEF SelfServiceReads, PreflightedForms, OtherForms
<1>2. ASSUME NEW p \in SelfServiceForms
      PROVE  \E t \in PreflightedForms : p = Auth \o <<"self-service">> \o t
  <2>1. PICK form \in {"verification", "settings"} : p = Auth \o <<"self-service", form>>
    BY DEF SelfServiceForms
  <2>2. p = Auth \o <<"self-service">> \o <<form>>
    BY <2>1, SameForm
  <2>3. <<form>> \in PreflightedForms
    BY DEF PreflightedForms
  <2>4. QED
    BY <2>2, <2>3
<1>3. QED
  BY <1>1, <1>2

\* Whatever a rule of the authentication routes matches, its preflight rule does.
LEMMA PreflightIsWhole ==
  ASSUME NEW r
  PROVE  /\ \A i \in 1..9 : AuthRules(r)[i].match \subseteq AuthPreflight(r)
         /\ \A pattern \in AuthPreflight(r) :
              \/ \E family \in {"login", ".well-known"} : \E p :
                   /\ pattern = Exact(r.auth, p) /\ Begins(p, "api", "auth", family)
              \/ \E t \in PreflightedForms \cup OtherForms :
                   pattern = Exact(r.auth, Auth \o <<"self-service">> \o t)
              \/ \E family \in {"sessions", "schemas", "health"} :
                   pattern = Below(r.auth, Auth \o <<family>>)
<1> DEFINE forms == {Auth \o <<"self-service">> \o t : t \in PreflightedForms \cup OtherForms}
           paths == {Auth \o <<"login">>, Auth \o <<"login", "flows">>, Webauthn} \cup forms
<1>1. \A pattern : pattern \in AuthPreflight(r) <=>
        \/ \E p \in paths : pattern = Exact(r.auth, p)
        \/ \E family \in {"sessions", "schemas", "health"} :
             pattern = Below(r.auth, Auth \o <<family>>)
  BY Zenon DEF AuthPreflight, ExactlyOneOf, OtherForms
<1>2. SelfServiceReads \subseteq forms /\ SelfServiceForms \subseteq forms
  BY FormsArePreflighted
<1> HIDE DEF forms
<1>3. ASSUME NEW set, set \subseteq paths PROVE ExactlyOneOf(r.auth, set) \subseteq AuthPreflight(r)
  BY <1>1, <1>3 DEF ExactlyOneOf
<1>4. /\ {Auth \o <<"login">>} \subseteq paths /\ {Auth \o <<"login", "flows">>} \subseteq paths
      /\ {Webauthn} \subseteq paths
      /\ SelfServiceReads \subseteq paths /\ SelfServiceForms \subseteq paths
  BY <1>2
<1>5. \A family \in {"sessions", "schemas", "health"} :
        {Below(r.auth, Auth \o <<family>>)} \subseteq AuthPreflight(r)
  BY <1>1
<1>6. \A i \in 1..9 : AuthRules(r)[i].match \subseteq AuthPreflight(r)
  <2> HIDE DEF paths
  <2>1. /\ AuthRules(r)[1].match \subseteq AuthPreflight(r)
        /\ AuthRules(r)[6].match \subseteq AuthPreflight(r)
        /\ AuthRules(r)[7].match \subseteq AuthPreflight(r)
        /\ AuthRules(r)[8].match \subseteq AuthPreflight(r)
    BY <1>5, AuthMatches
  <2>2. AuthRules(r)[2].match \subseteq AuthPreflight(r)
    <3>1. AuthRules(r)[2].match = ExactlyOneOf(r.auth, {Auth \o <<"login">>})
      BY AuthMatches
    <3>2. QED
      BY <1>3, <1>4, <3>1, Zenon
  <2>3. AuthRules(r)[3].match \subseteq AuthPreflight(r)
    <3>1. AuthRules(r)[3].match = ExactlyOneOf(r.auth, {Auth \o <<"login", "flows">>})
      BY AuthMatches
    <3>2. QED
      BY <1>3, <1>4, <3>1, Zenon
  <2>4. AuthRules(r)[4].match \subseteq AuthPreflight(r)
    <3>1. AuthRules(r)[4].match = ExactlyOneOf(r.auth, SelfServiceReads)
      BY AuthMatches
    <3>2. QED
      BY <1>3, <1>4, <3>1, Zenon
  <2>5. AuthRules(r)[5].match \subseteq AuthPreflight(r)
    <3>1. AuthRules(r)[5].match = ExactlyOneOf(r.auth, SelfServiceForms)
      BY AuthMatches
    <3>2. QED
      BY <1>3, <1>4, <3>1, Zenon
  <2>6. AuthRules(r)[9].match \subseteq AuthPreflight(r)
    <3>1. AuthRules(r)[9].match = ExactlyOneOf(r.auth, {Webauthn})
      BY AuthMatches
    <3>2. QED
      BY <1>3, <1>4, <3>1, Zenon
  <2>7. QED
    BY <2>1, <2>2, <2>3, <2>4, <2>5, <2>6
<1>7. ASSUME NEW pattern \in AuthPreflight(r)
      PROVE  \/ \E family \in {"login", ".well-known"} : \E p :
                  /\ pattern = Exact(r.auth, p) /\ Begins(p, "api", "auth", family)
             \/ \E t \in PreflightedForms \cup OtherForms :
                  pattern = Exact(r.auth, Auth \o <<"self-service">> \o t)
             \/ \E family \in {"sessions", "schemas", "health"} :
                  pattern = Below(r.auth, Auth \o <<family>>)
  <2>1. /\ Begins(Auth \o <<"login">>, "api", "auth", "login")
        /\ Begins(Auth \o <<"login", "flows">>, "api", "auth", "login")
        /\ Begins(Webauthn, "api", "auth", ".well-known")
    BY AuthPath DEF Webauthn
  <2>2. CASE \E p \in paths : pattern = Exact(r.auth, p)
    <3>1. PICK p \in paths : pattern = Exact(r.auth, p)
      BY <2>2
    <3>2. CASE p \in forms
      BY <3>1, <3>2 DEF forms
    <3>3. CASE p \notin forms
      BY <2>1, <3>1, <3>3
    <3>4. QED
      BY <3>2, <3>3
  <2>3. QED
    BY <1>1, <2>2
<1>8. QED
  BY <1>6, <1>7

\* A request that matches the preflight's patterns is for the authentication routes.
LEMMA PreflightedAt ==
  ASSUME NEW r, NEW asked, NEW pattern \in AuthPreflight(r),
         Matches(pattern, asked.origin, asked.path)
  PROVE  \E family \in Families : AuthAt(r, asked, family)
<1>1. \A family \in Families : family # OneSegment
  BY DEF Families, OneSegment
<1>2. CASE \E family \in {"login", ".well-known"} : \E p :
             /\ pattern = Exact(r.auth, p) /\ Begins(p, "api", "auth", family)
  <2>1. PICK family \in {"login", ".well-known"} :
          \E p : pattern = Exact(r.auth, p) /\ Begins(p, "api", "auth", family)
    BY <1>2
  <2>2. family \in Families
    BY DEF Families
  <2>3. AuthAt(r, asked, family)
    BY <1>1, <2>1, <2>2, ExactAuthTells DEF AuthAt
  <2>4. QED
    BY <2>2, <2>3
<1>3. CASE \E t \in PreflightedForms \cup OtherForms :
             pattern = Exact(r.auth, Auth \o <<"self-service">> \o t)
  <2>1. AuthAt(r, asked, "self-service")
    BY <1>3, SelfServiceTells DEF AuthAt
  <2>2. QED
    BY <2>1 DEF Families
<1>4. CASE \E family \in {"sessions", "schemas", "health"} :
             pattern = Below(r.auth, Auth \o <<family>>)
  <2>1. PICK family \in {"sessions", "schemas", "health"} :
          pattern = Below(r.auth, Auth \o <<family>>)
    BY <1>4
  <2>2. family \in Families
    BY DEF Families
  <2>3. AuthAt(r, asked, family)
    BY <1>1, <2>1, <2>2, BelowAuthTells DEF AuthAt
  <2>4. QED
    BY <2>2, <2>3
<1>5. QED
  BY <1>2, <1>3, <1>4, PreflightIsWhole

\* Which of the nine rules it is.
AuthIndex(asked) ==
  CASE asked.method = "OPTIONS" -> 1
    [] asked.method # "OPTIONS" /\ asked.path[3] = "login" -> IF Len(asked.path) = 3 THEN 2 ELSE 3
    [] asked.method # "OPTIONS" /\ asked.path[3] = "self-service" ->
         IF asked.method = "GET" THEN 4 ELSE 5
    [] asked.method # "OPTIONS" /\ asked.path[3] = "sessions" -> 6
    [] asked.method # "OPTIONS" /\ asked.path[3] = "schemas" -> 7
    [] asked.method # "OPTIONS" /\ asked.path[3] = "health" -> 8
    [] asked.method # "OPTIONS" /\ asked.path[3] = ".well-known" -> 9

LEMMA LoginFires ==
  ASSUME NEW r, NEW i \in {2, 3}, NEW asked, Fires(AuthRules(r)[i], asked)
  PROVE  asked.path[3] = "login" /\ Len(asked.path) = i + 1
<1> DEFINE p == IF i = 2 THEN Auth \o <<"login">> ELSE Auth \o <<"login", "flows">>
<1>1. AuthRules(r)[i].match = ExactlyOneOf(r.auth, {p})
  BY AuthMatches
<1>2. Begins(p, "api", "auth", "login") /\ Len(p) = i + 1
  BY AuthPath
<1> HIDE DEF p
<1>3. Matches(Exact(r.auth, p), asked.origin, asked.path)
  BY <1>1, FiresExactly
<1>4. "login" # OneSegment
  BY DEF OneSegment
<1>5. asked.path[3] = "login" /\ Len(asked.path) = Len(p)
  BY <1>2, <1>3, <1>4, ExactAuthTells
<1>6. QED
  BY <1>2, <1>5

LEMMA SelfServiceFires ==
  ASSUME NEW r, NEW i \in {4, 5}, NEW asked, Fires(AuthRules(r)[i], asked)
  PROVE  asked.path[3] = "self-service"
<1> DEFINE paths == IF i = 4 THEN SelfServiceReads ELSE SelfServiceForms
<1>1. AuthRules(r)[i].match = ExactlyOneOf(r.auth, paths)
  BY AuthMatches
<1>2. \A p \in paths :
        \E t \in PreflightedForms \cup OtherForms : p = Auth \o <<"self-service">> \o t
  BY FormsArePreflighted
<1> HIDE DEF paths
<1>3. PICK p \in paths : Matches(Exact(r.auth, p), asked.origin, asked.path)
  BY <1>1, FiresExactly
<1>4. PICK t \in PreflightedForms \cup OtherForms : p = Auth \o <<"self-service">> \o t
  BY <1>2
<1>5. Matches(Exact(r.auth, Auth \o <<"self-service">> \o t), asked.origin, asked.path)
  BY <1>3, <1>4
<1>6. QED
  BY <1>5, SelfServiceTells

LEMMA FamilyFires ==
  ASSUME NEW r, NEW i \in {6, 7, 8}, NEW asked, Fires(AuthRules(r)[i], asked)
  PROVE  asked.path[3] = IF i = 6 THEN "sessions" ELSE IF i = 7 THEN "schemas" ELSE "health"
<1> DEFINE family == IF i = 6 THEN "sessions" ELSE IF i = 7 THEN "schemas" ELSE "health"
<1>1. AuthRules(r)[i].match = {Below(r.auth, Auth \o <<family>>)}
  BY AuthMatches
<1>2. family # OneSegment
  BY DEF OneSegment
<1> HIDE DEF family
<1>3. Matches(Below(r.auth, Auth \o <<family>>), asked.origin, asked.path)
  BY <1>1, SoleFires
<1>4. asked.path[3] = family
  BY <1>2, <1>3, BelowAuthTells
<1>5. QED
  BY <1>4 DEF family

LEMMA WebauthnFires ==
  ASSUME NEW r, NEW asked, Fires(AuthRules(r)[9], asked)
  PROVE  asked.path[3] = ".well-known"
<1>1. PICK p \in {Webauthn} : Matches(Exact(r.auth, p), asked.origin, asked.path)
  <2> DEFINE paths == {Webauthn}
  <2>1. AuthRules(r)[9].match = ExactlyOneOf(r.auth, paths)
    BY AuthMatches
  <2> HIDE DEF paths
  <2>2. \E p \in paths : Matches(Exact(r.auth, p), asked.origin, asked.path)
    BY <2>1, FiresExactly
  <2>3. QED
    BY <2>2 DEF paths
<1>2. Begins(p, "api", "auth", ".well-known")
  BY AuthPath DEF Webauthn
<1>3. ".well-known" # OneSegment
  BY DEF OneSegment
<1>4. QED
  BY <1>1, <1>2, <1>3, ExactAuthTells

LEMMA AuthFires ==
  ASSUME NEW r, NEW rule \in ToSet(AuthRules(r)), NEW asked, Fires(rule, asked)
  PROVE  /\ \E family \in Families : AuthAt(r, asked, family)
         /\ rule = AuthRules(r)[AuthIndex(asked)]
         /\ rule.strip = Auth /\ rule.mutator = "noop"
         /\ rule.authenticators = Anonymous /\ rule.authorizer = Allow
         /\ \A first : /\ first.method = "OPTIONS"
                       /\ first.origin = asked.origin /\ first.path = asked.path
                       => Fires(AuthRules(r)[1], first)
<1>1. PICK n \in 1..9 : rule = AuthRules(r)[n]
  BY GroupSizes
<1>2. /\ rule.strip = Auth /\ rule.mutator = "noop"
      /\ rule.authenticators = Anonymous /\ rule.authorizer = Allow
  BY <1>1, AuthRulesAlike
<1>3. PICK pattern \in rule.match : Matches(pattern, asked.origin, asked.path)
  BY DEF Fires
<1>4. pattern \in AuthPreflight(r)
  BY <1>1, <1>3, PreflightIsWhole
<1>5. \E family \in Families : AuthAt(r, asked, family)
  BY <1>3, <1>4, PreflightedAt
<1>6. asked.method \in AuthRules(r)[n].methods /\ Fires(AuthRules(r)[n], asked)
  BY <1>1 DEF Fires
<1>7. /\ n = 1 <=> asked.method = "OPTIONS"
      /\ n = 4 => asked.method = "GET"
      /\ n = 5 => asked.method = "POST"
  BY <1>6, AuthMethods
<1>8. /\ n \in {2, 3} => asked.path[3] = "login" /\ Len(asked.path) = n + 1
      /\ n \in {4, 5} => asked.path[3] = "self-service"
      /\ n \in {6, 7, 8} =>
           asked.path[3] = IF n = 6 THEN "sessions" ELSE IF n = 7 THEN "schemas" ELSE "health"
      /\ n = 9 => asked.path[3] = ".well-known"
  BY <1>6, LoginFires, SelfServiceFires, FamilyFires, WebauthnFires
<1>9. n = AuthIndex(asked)
  <2>1. CASE n = 1
    BY <1>7, <2>1 DEF AuthIndex
  <2>2. CASE n \in {2, 3}
    <3>1. asked.path[3] = "login" /\ Len(asked.path) = n + 1
      BY <1>8, <2>2
    <3>2. n # 1 /\ n = IF Len(asked.path) = 3 THEN 2 ELSE 3
      BY <2>2, <3>1
    <3>3. QED
      BY <1>7, <3>1, <3>2 DEF AuthIndex
  <2>3. CASE n \in {4, 5}
    BY <1>7, <1>8, <2>3 DEF AuthIndex
  <2>4. CASE n \in {6, 7, 8}
    BY <1>7, <1>8, <2>4 DEF AuthIndex
  <2>5. CASE n = 9
    BY <1>7, <1>8, <2>5 DEF AuthIndex
  <2>6. QED
    BY <2>1, <2>2, <2>3, <2>4, <2>5
<1>10. ASSUME NEW first, first.method = "OPTIONS",
              first.origin = asked.origin, first.path = asked.path
       PROVE  Fires(AuthRules(r)[1], first)
  <2>1. "OPTIONS" \in AuthRules(r)[1].methods /\ pattern \in AuthRules(r)[1].match
    BY <1>4, AuthMethods, AuthMatches
  <2>2. QED
    BY <1>3, <1>10, <2>1 DEF Fires
<1>11. QED
  BY <1>1, <1>2, <1>5, <1>9, <1>10

-----------------------------------------------------------------------------
\* All rules.

Manage(s) == ManageRules(s.routes, collectManageAuthorizationRoles(s.contract))

LEMMA BaseRulesSet ==
  ASSUME NEW r
  PROVE  /\ Sequence(staticBaseRules(r))
         /\ ToSet(staticBaseRules(r)) =
              ToSet(ApiRules(r)) \cup ToSet(CollabRules(r)) \cup ToSet(PreflightRules(r))
                \cup ToSet(InternalRules(r)) \cup ToSet(AuthRules(r))
<1> DEFINE two == ApiRules(r) \o CollabRules(r)
           three == two \o PreflightRules(r)
           four == three \o InternalRules(r)
<1>1. Sequence(two) /\ ToSet(two) = ToSet(ApiRules(r)) \cup ToSet(CollabRules(r))
  BY GroupsAreSequences, SequenceConcat
<1> HIDE DEF two
<1>2. Sequence(three) /\ ToSet(three) = ToSet(two) \cup ToSet(PreflightRules(r))
  BY <1>1, GroupsAreSequences, SequenceConcat
<1> HIDE DEF three
<1>3. Sequence(four) /\ ToSet(four) = ToSet(three) \cup ToSet(InternalRules(r))
  BY <1>2, GroupsAreSequences, SequenceConcat
<1> HIDE DEF four
<1>4. /\ Sequence(four \o AuthRules(r))
      /\ ToSet(four \o AuthRules(r)) = ToSet(four) \cup ToSet(AuthRules(r))
  BY <1>3, GroupsAreSequences, SequenceConcat
<1>5. staticBaseRules(r) = four \o AuthRules(r)
  BY DEF staticBaseRules, four, three, two
<1>6. QED
  BY <1>1, <1>2, <1>3, <1>4, <1>5

LEMMA TailRulesSet ==
  ASSUME NEW r
  PROVE  /\ Sequence(staticTailRules(r))
         /\ ToSet(staticTailRules(r)) =
              ToSet(MCPRules(r)) \cup ToSet(OpenRules(r)) \cup ToSet(UploadRules(r))
<1> DEFINE two == MCPRules(r) \o OpenRules(r)
<1>1. Sequence(two) /\ ToSet(two) = ToSet(MCPRules(r)) \cup ToSet(OpenRules(r))
  BY GroupsAreSequences, SequenceConcat
<1> HIDE DEF two
<1>2. /\ Sequence(two \o UploadRules(r))
      /\ ToSet(two \o UploadRules(r)) = ToSet(two) \cup ToSet(UploadRules(r))
  BY <1>1, GroupsAreSequences, SequenceConcat
<1>3. staticTailRules(r) = two \o UploadRules(r)
  BY DEF staticTailRules, two
<1>4. QED
  BY <1>1, <1>2, <1>3

LEMMA RulesSet ==
  ASSUME NEW s
  PROVE  /\ Sequence(generateRules(s))
         /\ ToSet(generateRules(s)) = ToSet(staticBaseRules(s.routes)) \cup ToSet(Manage(s))
                                        \cup ToSet(staticTailRules(s.routes))
<1> DEFINE base == staticBaseRules(s.routes)
           tail == staticTailRules(s.routes)
           most == base \o Manage(s)
<1>1. Sequence(base) /\ Sequence(tail)
  BY BaseRulesSet, TailRulesSet
<1>2. Sequence(Manage(s))
  BY ManageRulesSet DEF Manage
<1> HIDE DEF base, tail
<1>3. Sequence(most) /\ ToSet(most) = ToSet(base) \cup ToSet(Manage(s))
  BY <1>1, <1>2, SequenceConcat
<1> HIDE DEF most
<1>4. Sequence(most \o tail) /\ ToSet(most \o tail) = ToSet(most) \cup ToSet(tail)
  BY <1>1, <1>3, SequenceConcat
<1>5. generateRules(s) = most \o tail
  BY DEF generateRules, most, base, tail, Manage
<1>6. QED
  BY <1>3, <1>4, <1>5 DEF base, tail

\* The only rule that a request may meet.
TheRule(s, asked) ==
  CASE asked.path[1] = "collab" -> CollabRules(s.routes)[IF asked.path[2] = "post" THEN 1 ELSE 2]
    [] asked.path[1] = "mcp" -> MCPRules(s.routes)[IF asked.method = "OPTIONS" THEN 1 ELSE 2]
    [] asked.path[1] = "api" /\ asked.path[2] = "auth" -> AuthRules(s.routes)[AuthIndex(asked)]
    [] asked.path[1] = "api" /\ asked.path[2] = "upload" ->
         IF asked.method = "OPTIONS" THEN PreflightRules(s.routes)[2]
           ELSE UploadRules(s.routes)[IF asked.method = "GET" THEN 1 ELSE 2]
    [] asked.path[1] = "api" /\ asked.path[2] = "rpc" ->
         IF asked.path[3] = "api.intra.v1" THEN InternalRules(s.routes)[1]
           ELSE IF asked.method = "OPTIONS" THEN PreflightRules(s.routes)[1]
           ELSE IF asked.path[3] = "api.open.v1" THEN OpenRules(s.routes)[1]
           ELSE LET role == s.contract[<<asked.path[4], asked.path[5]>>]
                IN writeRoleRule(s.routes, role, collectManageAuthorizationRoles(s.contract)[role])
    [] OTHER -> ApiRules(s.routes)[IF asked.path[1] = "health" THEN 1 ELSE 2]

LEMMA OnlyTheRule ==
  ASSUME NEW s \in Sources, NEW rule \in ToSet(generateRules(s)), NEW asked, Fires(rule, asked)
  PROVE  rule = TheRule(s, asked)
<1> DEFINE r == s.routes
<1>1. CASE rule \in ToSet(ApiRules(r))
  <2>1. /\ asked.path[1] \in {"health", "callbacks"}
        /\ rule = ApiRules(r)[IF asked.path[1] = "health" THEN 1 ELSE 2]
    BY <1>1, ApiFires
  <2>2. QED
    BY <2>1 DEF TheRule
<1>2. CASE rule \in ToSet(CollabRules(r))
  <2>1. /\ asked.path[1] = "collab"
        /\ rule = CollabRules(r)[IF asked.path[2] = "post" THEN 1 ELSE 2]
    BY <1>2, CollabFires
  <2>2. QED
    BY <2>1 DEF TheRule
<1>3. CASE rule \in ToSet(PreflightRules(r))
  <2>1. /\ asked.path[1] = "api" /\ asked.method = "OPTIONS"
        /\ rule = PreflightRules(r)[IF asked.path[2] = "rpc" THEN 1 ELSE 2]
        /\ \/ asked.path[2] = "rpc" /\ asked.path[3] \in {"api.open.v1", "api.manage.v1"}
           \/ asked.path[2] = "upload"
    BY <1>3, PreflightFires
  <2>2. QED
    BY <2>1 DEF TheRule
<1>4. CASE rule \in ToSet(InternalRules(r))
  <2>1. /\ asked.path[1] = "api" /\ asked.path[2] = "rpc" /\ asked.path[3] = "api.intra.v1"
        /\ rule = InternalRules(r)[1]
    BY <1>4, InternalFires
  <2>2. QED
    BY <2>1 DEF TheRule
<1>5. CASE rule \in ToSet(AuthRules(r))
  <2>1. /\ asked.path[1] = "api" /\ asked.path[2] = "auth"
        /\ rule = AuthRules(r)[AuthIndex(asked)]
    BY <1>5, AuthFires DEF AuthAt
  <2>2. QED
    BY <2>1 DEF TheRule
<1>6. CASE rule \in ToSet(Manage(s))
  <2>1. /\ asked.path[1] = "api" /\ asked.path[2] = "rpc" /\ asked.path[3] = "api.manage.v1"
        /\ asked.method = "POST"
        /\ \E m \in MethodsOf(s.contract) :
             /\ m = <<asked.path[4], asked.path[5]>>
             /\ rule = writeRoleRule(r, s.contract[m],
                         collectManageAuthorizationRoles(s.contract)[s.contract[m]])
    BY <1>6, ManageFires DEF Manage
  <2>2. rule = LET role == s.contract[<<asked.path[4], asked.path[5]>>]
               IN writeRoleRule(r, role, collectManageAuthorizationRoles(s.contract)[role])
    BY <2>1
  <2>3. QED
    BY <2>1, <2>2 DEF TheRule
<1>7. CASE rule \in ToSet(MCPRules(r))
  <2>1. /\ asked.path[1] = "mcp"
        /\ rule = MCPRules(r)[IF asked.method = "OPTIONS" THEN 1 ELSE 2]
    BY <1>7, MCPFires
  <2>2. QED
    BY <2>1 DEF TheRule
<1>8. CASE rule \in ToSet(OpenRules(r))
  <2>1. /\ asked.path[1] = "api" /\ asked.path[2] = "rpc" /\ asked.path[3] = "api.open.v1"
        /\ asked.method = "POST" /\ rule = OpenRules(r)[1]
    BY <1>8, OpenFires
  <2>2. QED
    BY <2>1 DEF TheRule
<1>9. CASE rule \in ToSet(UploadRules(r))
  <2>1. /\ asked.path[1] = "api" /\ asked.path[2] = "upload"
        /\ asked.method \in {"GET", "POST", "PUT"}
        /\ rule = UploadRules(r)[IF asked.method = "GET" THEN 1 ELSE 2]
    BY <1>9, UploadFires
  <2>2. QED
    BY <2>1 DEF TheRule
<1>10. QED
  BY <1>1, <1>2, <1>3, <1>4, <1>5, <1>6, <1>7, <1>8, <1>9, RulesSet, BaseRulesSet, TailRulesSet

-----------------------------------------------------------------------------
\* What the gateway makes of a request.

LEMMA Strips ==
  ASSUME NEW path, NEW prefix, Sequence(path), Sequence(prefix), Len(prefix) < Len(path),
         \A i \in 1..Len(prefix) : path[i] = prefix[i]
  PROVE  /\ IsPrefix(prefix, path)
         /\ \A i \in 1..(Len(path) - Len(prefix)) :
              Stripped(path, prefix)[i] = path[Len(prefix) + i]
<1> DEFINE n == Len(prefix)
           S == ToSet(path) \cup ToSet(prefix)
<1>1. n \in Nat /\ Len(path) \in Nat /\ path \in Seq(S) /\ prefix \in Seq(S)
  BY SeqMonotonic, SequenceLen DEF Sequence
<1>2. \A i \in 1..Len(path) : path[i] \in S
  BY <1>1
<1>3. \A i \in 1..n : path[i] \in S
  BY <1>1, <1>2
<1>4. SubSeq(prefix, 1, n) = prefix
  BY <1>1, SubSeqFull
<1>5. /\ SubSeq(path, 1, n) \in Seq(S)
      /\ Len(SubSeq(path, 1, n)) = IF 1 <= n THEN n - 1 + 1 ELSE 0
      /\ \A i \in 1..(n - 1 + 1) : SubSeq(path, 1, n)[i] = path[1 + i - 1]
  BY <1>1, <1>3, SubSeqProperties
<1>6. Len(SubSeq(path, 1, n)) = n /\ \A i \in 1..n : SubSeq(path, 1, n)[i] = path[i]
  BY <1>1, <1>5
<1>7. SubSeq(path, 1, n) = prefix
  BY <1>1, <1>5, <1>6, SeqEqual
<1>8. IsPrefix(prefix, path)
  BY <1>1, <1>4, <1>7 DEF IsPrefix
<1>9. Stripped(path, prefix) = SubSeq(path, n + 1, Len(path))
  BY <1>8 DEF Stripped
<1>10. \A i \in 1..(Len(path) - (n + 1) + 1) :
         SubSeq(path, n + 1, Len(path))[i] = path[(n + 1) + i - 1]
  <2>1. \A i \in (n + 1)..Len(path) : path[i] \in S
    BY <1>1, <1>2
  <2>2. QED
    BY <1>1, <2>1, SubSeqProperties
<1>11. \A i \in 1..(Len(path) - n) : SubSeq(path, n + 1, Len(path))[i] = path[n + i]
  BY <1>1, <1>10
<1>12. QED
  BY <1>8, <1>9, <1>11

\* The prefixes that rules strip.
LEMMA StripsNone ==
  ASSUME NEW path, Sequence(path), Len(path) >= 1
  PROVE  Stripped(path, <<>>)[1] = path[1]
<1> DEFINE e == <<>>
<1>1. Sequence(e) /\ Len(e) = 0
  BY Tuples
<1> HIDE DEF e
<1>2. Len(path) \in Nat
  BY SequenceLen
<1>3. Sequence(e) /\ Len(e) < Len(path) /\ \A i \in 1..Len(e) : path[i] = e[i]
  BY <1>1, <1>2
<1>4. \A i \in 1..(Len(path) - Len(e)) : Stripped(path, e)[i] = path[Len(e) + i]
  BY <1>3, Strips
<1>5. QED
  BY <1>1, <1>2, <1>4 DEF e

LEMMA StripsOne ==
  ASSUME NEW path, Sequence(path), Len(path) >= 2, NEW a, path[1] = a
  PROVE  Stripped(path, <<a>>)[1] = path[2]
<1> DEFINE p == <<a>>
<1>1. Sequence(p) /\ Len(p) = 1 /\ p[1] = a
  BY Tuples
<1> HIDE DEF p
<1>2. Len(path) \in Nat
  BY SequenceLen
<1>3. Sequence(p) /\ Len(p) < Len(path) /\ \A i \in 1..Len(p) : path[i] = p[i]
  BY <1>1, <1>2
<1>4. \A i \in 1..(Len(path) - Len(p)) : Stripped(path, p)[i] = path[Len(p) + i]
  BY <1>3, Strips
<1>5. Stripped(path, p)[1] = path[2]
  BY <1>1, <1>2, <1>4
<1>6. QED
  BY <1>5 DEF p

LEMMA StripsTwo ==
  ASSUME NEW path, Sequence(path), Len(path) >= 3, NEW a, NEW b, path[1] = a, path[2] = b
  PROVE  /\ IsPrefix(<<a, b>>, path)
         /\ Stripped(path, <<a, b>>)[1] = path[3]
         /\ Len(path) = 5 => /\ Stripped(path, <<a, b>>)[2] = path[4]
                             /\ Stripped(path, <<a, b>>)[3] = path[5]
<1> DEFINE p == <<a, b>>
<1>1. Sequence(p) /\ Len(p) = 2 /\ p[1] = a /\ p[2] = b
  BY Tuples
<1> HIDE DEF p
<1>2. Len(path) \in Nat
  BY SequenceLen
<1>3. Sequence(p) /\ Len(p) < Len(path) /\ \A i \in 1..Len(p) : path[i] = p[i]
  BY <1>1, <1>2
<1>4. /\ IsPrefix(p, path)
      /\ \A i \in 1..(Len(path) - Len(p)) : Stripped(path, p)[i] = path[Len(p) + i]
  BY <1>3, Strips
<1>5. /\ Stripped(path, p)[1] = path[3]
      /\ Len(path) = 5 => Stripped(path, p)[2] = path[4] /\ Stripped(path, p)[3] = path[5]
  BY <1>1, <1>2, <1>4
<1>6. QED
  BY <1>4, <1>5 DEF p

\* Who is behind a session.
LEMMA SessionSubject ==
  ASSUME NEW rule, rule.authenticators = Session, rule.mutator = "header",
         NEW held \in Credentials, Allowed(rule, Subject(rule, held[1], held[2]))
  PROVE  Subject(rule, held[1], held[2]) \in Persons
<1> DEFINE cookie == held[1]
           bearer == held[2]
           deciding == Deciding(rule, cookie, bearer)
           subject == Subject(rule, cookie, bearer)
<1>1. cookie \in Cookies
  BY DEF Credentials, Cookies, Persons
<1>2. subject # "nobody" /\ subject # "malformed session"
  BY DEF Allowed, CanMutate
<1>3. DOMAIN rule.authenticators = {1} /\ rule.authenticators[1] = "cookie_session"
  BY DEF Session
<1>4. deciding # {}
  BY <1>2 DEF Subject
<1>5. deciding \subseteq {1}
  BY <1>3 DEF Deciding
<1>6. (CHOOSE i \in deciding : TRUE) = 1
  <2>1. deciding = {1}
    BY <1>4, <1>5
  <2>2. QED
    BY <2>1
<1>7. subject = Identify("cookie_session", cookie, bearer)
  BY <1>3, <1>4, <1>6 DEF Subject
<1>8. 1 \in deciding
  BY <1>4, <1>5
<1>9. cookie # "none"
  <2>1. Responsible(rule.authenticators[1], cookie, bearer)
    BY <1>8 DEF Deciding
  <2>2. QED
    BY <1>3, <2>1 DEF Responsible
<1>10. cookie # "expired" /\ subject = cookie
  BY <1>2, <1>7 DEF Identify
<1>11. QED
  BY <1>1, <1>2, <1>9, <1>10 DEF Cookies

\* Who has a role.
LEMMA AskedSubject ==
  ASSUME NEW rule, NEW role \in {"AUTHOR", "ADMIN", "MCP author"}, rule.authorizer = Ask(role),
         NEW subject, Allowed(rule, subject)
  PROVE  /\ role = "AUTHOR" => subject \in {"author", "admin"}
         /\ role = "ADMIN" => subject = "admin"
         /\ role = "MCP author" => subject \in {"author token", "malformed token"}
<1>1. /\ rule.authorizer.handler = "remote_json" /\ rule.authorizer.role = role
      /\ Allow.handler = "allow" /\ Deny.handler = "deny"
  <2>1. Ask(role).handler = "remote_json" /\ Ask(role).role = role
    BY DEF Ask
  <2>2. Allow.handler = "allow" /\ Deny.handler = "deny"
    BY DEF Allow, Deny
  <2>3. QED
    BY <2>1, <2>2
<1>2. Holds(subject, role)
  <2>1. rule.authorizer # Allow /\ rule.authorizer # Deny
    BY <1>1
  <2>2. QED
    BY <1>1, <2>1 DEF Allowed, Authorizes
<1>3. QED
  BY <1>2 DEF Holds

LEMMA DeniedToAll ==
  ASSUME NEW rule, rule.authorizer = Deny, NEW subject
  PROVE  ~Allowed(rule, subject)
BY DEF Allowed, Authorizes, Allow, Deny

\* Where the rule that a request meets takes it.
Destination(s, rule, asked) ==
  LET r == s.routes
      to == Stripped(asked.path, rule.strip)
  IN \/ rule.authorizer = Deny
     \/ asked.method = "OPTIONS" /\ asked.origin = r.api /\ rule.mutator = "header"
     \/ /\ to[1] \in {"health", "callbacks"}
        /\ asked.origin = r.api /\ rule.mutator = "header"
     \/ /\ to[1] \in {"post", "menu"} /\ asked.path[1] = "collab"
        /\ asked.origin = r.collab /\ rule.mutator = "header"
     \/ to[1] \in Families /\ asked.origin = r.auth /\ IsPrefix(Auth, asked.path)
     \/ /\ to[1] = "mcp" /\ asked.origin = r.api
        /\ rule.authorizer = Ask("MCP author") /\ rule.mutator = "mcp header"
     \/ /\ to[1] = "api.open.v1" /\ asked.method = "POST"
        /\ asked.origin \in {r.api, r.apiInternal} /\ rule.mutator = "header"
     \/ /\ to[1] = "upload" /\ asked.origin = r.api
        /\ rule.authenticators = Session /\ rule.mutator = "header"
     \/ /\ to[1] = "api.manage.v1" /\ asked.method = "POST"
        /\ asked.origin \in {r.api, r.apiInternal}
        /\ rule.authenticators = Session /\ rule.mutator = "header"
        /\ \E m \in MethodsOf(s.contract) :
             /\ m = <<to[2], to[3]>> /\ s.contract[m] \in Roles
             /\ rule.authorizer = writeRoleAuthorizer(s.contract[m])

LEMMA Destinations ==
  ASSUME NEW s \in Sources, NEW rule \in ToSet(generateRules(s)),
         NEW asked, Sequence(asked.path), Fires(rule, asked)
  PROVE  Destination(s, rule, asked)
<1> DEFINE r == s.routes
           to == Stripped(asked.path, rule.strip)
<1>1. CASE rule \in ToSet(ApiRules(r))
  <2>1. /\ asked.path[1] \in {"health", "callbacks"} /\ asked.origin = r.api
        /\ rule.strip = <<>> /\ rule.mutator = "header" /\ Len(asked.path) >= 1
    BY <1>1, ApiFires
  <2>2. to[1] = asked.path[1]
    BY <2>1, StripsNone
  <2>3. QED
    BY <2>1, <2>2 DEF Destination
<1>2. CASE rule \in ToSet(CollabRules(r))
  <2>1. /\ asked.path[1] = "collab" /\ asked.origin = r.collab
        /\ rule.strip = <<"collab">> /\ rule.mutator = "header"
        /\ asked.path[2] \in {"post", "menu"} /\ Len(asked.path) >= 2
    BY <1>2, CollabFires
  <2>2. to[1] = asked.path[2]
    BY <2>1, StripsOne
  <2>3. QED
    BY <2>1, <2>2 DEF Destination
<1>3. CASE rule \in ToSet(PreflightRules(r))
  <2>1. asked.method = "OPTIONS" /\ asked.origin = r.api /\ rule.mutator = "header"
    BY <1>3, PreflightFires
  <2>2. QED
    BY <2>1 DEF Destination
<1>4. CASE rule \in ToSet(InternalRules(r))
  <2>1. rule.authorizer = Deny
    BY <1>4, InternalFires
  <2>2. QED
    BY <2>1 DEF Destination
<1>5. CASE rule \in ToSet(AuthRules(r))
  <2>1. rule.strip = Auth /\ \E family \in Families : AuthAt(r, asked, family)
    BY <1>5, AuthFires
  <2>2. /\ asked.path[1] = "api" /\ asked.path[2] = "auth" /\ asked.path[3] \in Families
        /\ asked.origin = r.auth /\ Len(asked.path) >= 3
    BY <2>1 DEF AuthAt
  <2>3. to[1] = asked.path[3] /\ IsPrefix(Auth, asked.path)
    BY <2>1, <2>2, StripsTwo DEF Auth
  <2>4. QED
    BY <2>2, <2>3 DEF Destination
<1>6. CASE rule \in ToSet(Manage(s))
  <2>1. /\ asked.path[1] = "api" /\ asked.path[2] = "rpc" /\ asked.path[3] = "api.manage.v1"
        /\ Len(asked.path) = 5 /\ asked.method = "POST"
        /\ asked.origin \in {r.api, r.apiInternal}
        /\ rule.strip = RPC /\ rule.mutator = "header" /\ rule.authenticators = Session
    BY <1>6, ManageFires DEF Manage
  <2>2. PICK m \in MethodsOf(s.contract) :
          /\ m = <<asked.path[4], asked.path[5]>> /\ s.contract[m] \in Roles
          /\ rule = writeRoleRule(r, s.contract[m],
                      collectManageAuthorizationRoles(s.contract)[s.contract[m]])
    BY <1>6, ManageFires DEF Manage
  <2>3. to[1] = "api.manage.v1" /\ to[2] = asked.path[4] /\ to[3] = asked.path[5]
    BY <2>1, StripsTwo DEF RPC
  <2>4. rule.authorizer = writeRoleAuthorizer(s.contract[m])
    BY <2>2, WriteRoleRuleIs
  <2>5. m = <<to[2], to[3]>>
    BY <2>2, <2>3
  <2> HIDE DEF to
  <2>6. QED
    BY <2>1, <2>2, <2>3, <2>4, <2>5 DEF Destination, to
<1>7. CASE rule \in ToSet(MCPRules(r))
  <2>1. /\ asked.path[1] = "mcp" /\ asked.origin = r.api /\ rule.strip = <<>>
        /\ Len(asked.path) = 1
        /\ asked.method = "OPTIONS" => rule.mutator = "header"
        /\ asked.method # "OPTIONS" =>
             rule.authorizer = Ask("MCP author") /\ rule.mutator = "mcp header"
    BY <1>7, MCPFires
  <2>2. to[1] = asked.path[1]
    <3> HIDE DEF to
    <3>1. Len(asked.path) = 1
      BY <2>1
    <3>2. Len(asked.path) >= 1
      BY <3>1
    <3>3. QED
      BY <2>1, <3>2, StripsNone DEF to
  <2>3. QED
    BY <2>1, <2>2 DEF Destination
<1>8. CASE rule \in ToSet(OpenRules(r))
  <2>1. /\ asked.path[1] = "api" /\ asked.path[2] = "rpc" /\ asked.path[3] = "api.open.v1"
        /\ Len(asked.path) >= 3 /\ asked.method = "POST"
        /\ asked.origin \in {r.api, r.apiInternal}
        /\ rule.strip = RPC /\ rule.mutator = "header"
    BY <1>8, OpenFires
  <2>2. to[1] = "api.open.v1"
    BY <2>1, StripsTwo DEF RPC
  <2>3. QED
    BY <2>1, <2>2 DEF Destination
<1>9. CASE rule \in ToSet(UploadRules(r))
  <2>1. /\ asked.path[1] = "api" /\ asked.path[2] = "upload" /\ asked.origin = r.api
        /\ Len(asked.path) >= 2 /\ rule.strip = <<"api">> /\ rule.mutator = "header"
        /\ rule.authenticators = Session
    BY <1>9, UploadFires
  <2>2. to[1] = "upload"
    BY <2>1, StripsOne
  <2>3. QED
    BY <2>1, <2>2 DEF Destination
<1>10. QED
  BY <1>1, <1>2, <1>3, <1>4, <1>5, <1>6, <1>7, <1>8, <1>9, RulesSet, BaseRulesSet, TailRulesSet

-----------------------------------------------------------------------------
\* The inductive invariant.

\* Whatever has become of the file, it was begun from sources that were accepted.
FromAccepted ==
  /\ \A f \in {file, deployed} \ {None} : f.rules \in Nat /\ Accepted(f.from)
  /\ step = "write" => Accepted(sources)
  /\ result = "deployed" => deployed # None

\* The rules do not change under a request.
Handled ==
  request # None =>
    /\ deployed # None
    /\ request \in [method : HTTPMethods, origin : Origins, path : Paths]
    /\ matched = MatchingRules(Contents(deployed), request)

Delivery(rule, held, asked) ==
  LET subject == Subject(rule, held[1], held[2])
  IN [delivered |-> TRUE, upstream |-> rule.upstream, subject |-> subject,
      path |-> Stripped(asked.path, rule.strip),
      credentials |-> IF rule.mutator # "noop" THEN {} ELSE {held[1], held[2]} \ {"none"},
      session |-> SessionHeader(rule, subject)]

\* What is delivered was allowed by the one rule that matched.
Delivered(what) ==
  \E held \in Credentials, rule \in matched :
    /\ matched = {rule} /\ Allowed(rule, Subject(rule, held[1], held[2]))
    /\ what = Delivery(rule, held, request)

Decided ==
  answer # None =>
    request # None /\ (answer = [delivered |-> FALSE] \/ Delivered(answer))

GatewayInv == TypeOK /\ FromAccepted /\ Handled /\ Decided

\* A file's rules are the first of those that are generated from its sources.
LEMMA PartOfTheRules ==
  ASSUME NEW f, f.rules \in Nat, f.rules <= Whole(f.from).rules
  PROVE  ToSet(Contents(f)) \subseteq ToSet(generateRules(f.from))
<1> DEFINE all == generateRules(f.from)
<1>1. Sequence(all) /\ Len(all) \in Nat
  BY RulesSet, SequenceLen
<1>2. f.rules <= Len(all)
  BY DEF Whole, Written
<1> HIDE DEF all
<1>3. /\ Len(SubSeq(all, 1, f.rules)) = f.rules
      /\ \A i \in 1..f.rules : SubSeq(all, 1, f.rules)[i] = all[i]
      /\ SubSeq(all, 1, f.rules) \in Seq(ToSet(all))
  BY <1>1, <1>2 DEF Sequence
<1>4. DOMAIN SubSeq(all, 1, f.rules) = 1..f.rules /\ 1..f.rules \subseteq DOMAIN all
  BY <1>1, <1>2, <1>3, SequenceLen
<1>5. ToSet(SubSeq(all, 1, f.rules)) \subseteq ToSet(all)
  BY <1>3, <1>4 DEF ToSet
<1>6. QED
  BY <1>5 DEF Contents, all

LEMMA WholeContents ==
  ASSUME NEW s
  PROVE  /\ Whole(s).from = s /\ Whole(s).rules \in Nat
         /\ Contents(Whole(s)) = generateRules(s)
<1>1. Sequence(generateRules(s)) /\ Len(generateRules(s)) \in Nat
  BY RulesSet, SequenceLen
<1>2. Whole(s).from = s /\ Whole(s).rules = Len(generateRules(s))
  BY DEF Whole, Written
<1>3. SubSeq(generateRules(s), 1, Len(generateRules(s))) = generateRules(s)
  BY <1>1, SubSeqFull DEF Sequence
<1>4. QED
  BY <1>1, <1>2, <1>3 DEF Contents

LEMMA InitGateway == Init => GatewayInv
<1> SUFFICES ASSUME Init PROVE GatewayInv
  OBVIOUS
<1>1. TypeOK
  BY GatewayAssumption DEF Init, TypeOK
<1>2. FromAccepted /\ Handled /\ Decided
  BY DEF Init, FromAccepted, Handled, Decided
<1>3. QED
  BY <1>1, <1>2 DEF GatewayInv

\* Steps of development leave a request alone.
LEMMA Undisturbed ==
  ASSUME Handled, Decided, UNCHANGED serving, deployed' = deployed \/ request = None
  PROVE  Handled' /\ Decided'
<1>1. request' = request /\ matched' = matched /\ answer' = answer
  BY DEF serving
<1>2. Handled'
  BY <1>1 DEF Handled
<1>3. Decided'
  BY <1>1 DEF Decided, Delivered
<1>4. QED
  BY <1>2, <1>3

LEMMA DevelopmentKeeps ==
  ASSUME GatewayInv,
         Edit \/ Refuse \/ BeginWrite \/ WriteRules \/ WriteFailed \/ CheckRules \/ Deploy
  PROVE  GatewayInv'
<1> USE DEF GatewayInv
<1>1. UNCHANGED serving /\ (deployed' = deployed \/ request = None)
  BY DEF Edit, Refuse, BeginWrite, WriteRules, WriteFailed, CheckRules, Deploy, Idle
<1>2. Handled' /\ Decided'
  BY <1>1, Undisturbed
<1>3. /\ request' = request /\ matched' = matched /\ answer' = answer
  BY <1>1 DEF serving
<1>4. /\ sources' \in Sources /\ edits' \in 0..MaxEdits /\ step' \in {"idle", "write"}
      /\ result' \in {"none", "failed", "written", "current", "deployed"}
  BY GatewayAssumption
     DEF Edit, Refuse, BeginWrite, WriteRules, WriteFailed, CheckRules, Deploy, TypeOK
<1>5. \/ file' = file
      \/ /\ Accepted(sources)
         /\ \E n \in Nat : n <= Whole(sources).rules /\ file' = Written(sources, n)
  <2>1. Whole(sources).rules \in Nat /\ Whole(sources) = Written(sources, Whole(sources).rules)
    BY WholeContents DEF Whole, Written
  <2>2. CASE Edit \/ Refuse \/ CheckRules \/ Deploy
    BY <2>2 DEF Edit, Refuse, CheckRules, Deploy
  <2>3. CASE BeginWrite
    <3>1. 0 \in Nat /\ 0 <= Whole(sources).rules /\ file' = Written(sources, 0)
      BY <2>1, <2>3 DEF BeginWrite
    <3>2. QED
      BY <2>3, <3>1 DEF BeginWrite
  <2>4. ASSUME WriteRules \/ WriteFailed PROVE Accepted(sources)
    BY <2>4 DEF WriteRules, WriteFailed, FromAccepted
  <2>5. CASE WriteRules
    <3>1. file' = Written(sources, Whole(sources).rules)
      BY <2>1, <2>5 DEF WriteRules
    <3>2. QED
      BY <2>1, <2>4, <2>5, <3>1
  <2>6. CASE WriteFailed
    <3>1. PICK n \in Cuts : n < Whole(sources).rules /\ file' = Written(sources, n)
      BY <2>6 DEF WriteFailed
    <3>2. n \in Nat /\ n <= Whole(sources).rules
      BY <2>1, <3>1, GatewayAssumption
    <3>3. QED
      BY <2>4, <2>6, <3>1, <3>2
  <2>7. QED
    BY <2>2, <2>3, <2>5, <2>6
<1>6. \A f \in {file', deployed'} \ {None} :
        f.from \in Sources /\ f.rules \in Nat /\ f.rules <= Whole(f.from).rules /\ Accepted(f.from)
  <2>1. \A n : Written(sources, n).from = sources /\ Written(sources, n).rules = n
    BY DEF Written
  <2>2. \A f \in {file'} \ {None} :
          f.from \in Sources /\ f.rules \in Nat /\ f.rules <= Whole(f.from).rules /\ Accepted(f.from)
    BY <1>5, <2>1 DEF TypeOK, FromAccepted
  <2>3. deployed' \in {deployed, file}
    BY DEF Edit, Refuse, BeginWrite, WriteRules, WriteFailed, CheckRules, Deploy
  <2>4. QED
    BY <2>2, <2>3 DEF TypeOK, FromAccepted
<1>7. deployed' # None =>
        \A method \in DOMAIN deployed'.from.contract :
          deployed'.from.contract[method] \in Roles \cup {"absent"}
  BY <1>6 DEF Accepted, RolesAreDeclared, MethodsOf
<1>8. TypeOK'
  BY <1>3, <1>4, <1>6, <1>7 DEF TypeOK
<1>9. FromAccepted'
  <2>1. step' = "write" => Accepted(sources')
    BY DEF Edit, Refuse, BeginWrite, WriteRules, WriteFailed, CheckRules, Deploy, FromAccepted, Idle
  <2>2. result' = "deployed" => deployed' # None
    BY DEF Edit, Refuse, BeginWrite, WriteRules, WriteFailed, CheckRules, Deploy
  <2>3. QED
    BY <1>6, <2>1, <2>2 DEF FromAccepted
<1>10. QED
  BY <1>2, <1>8, <1>9

LEMMA ServingKeeps ==
  ASSUME GatewayInv,
         \/ Receive \/ Unmatched \/ Finish
         \/ \E held \in Credentials : Denied(held[1], held[2]) \/ Deliver(held[1], held[2])
  PROVE  GatewayInv'
<1> USE DEF GatewayInv
<1>1. UNCHANGED <<sources, edits, step, result, file, deployed>>
  BY DEF Receive, Unmatched, Finish, Denied, Deliver, Answer, development
<1>2. FromAccepted'
  BY <1>1 DEF FromAccepted
<1>3. CASE Receive
  <2>1. /\ request = None /\ result = "deployed" /\ answer' = answer
        /\ request' \in [method : HTTPMethods, origin : Origins, path : Paths]
        /\ matched' = MatchingRules(Contents(deployed), request')
    BY <1>3 DEF Receive, Idle
  <2>2. deployed # None
    BY <2>1 DEF FromAccepted
  <2>3. answer' = None
    BY <2>1 DEF TypeOK
  <2>4. request' # None
    BY <2>1, GatewayAssumption
  <2>5. Handled' /\ Decided'
    BY <1>1, <2>1, <2>2, <2>3 DEF Handled, Decided
  <2>6. TypeOK'
    BY <1>1, <2>1, <2>4 DEF TypeOK
  <2>7. QED
    BY <1>2, <2>5, <2>6
<1>4. CASE Finish
  <2>1. request' = None /\ matched' = {} /\ answer' = None
    BY <1>4 DEF Finish
  <2>2. QED
    BY <1>1, <1>2, <2>1 DEF TypeOK, Handled, Decided
<1>5. CASE \/ Unmatched
           \/ \E held \in Credentials : Denied(held[1], held[2]) \/ Deliver(held[1], held[2])
  <2>1. request # None /\ UNCHANGED <<request, matched>>
    BY <1>5 DEF Unmatched, Denied, Deliver, Answer
  <2>2. TypeOK' /\ Handled'
    BY <1>1, <2>1 DEF TypeOK, Handled
  <2>3. answer' = [delivered |-> FALSE] \/ Delivered(answer)'
    <3>1. CASE Unmatched \/ \E held \in Credentials : Denied(held[1], held[2])
      BY <3>1 DEF Unmatched, Denied, Answer
    <3>2. CASE \E held \in Credentials : Deliver(held[1], held[2])
      <4>1. PICK held \in Credentials : Deliver(held[1], held[2])
        BY <3>2
      <4>2. PICK rule \in matched :
              /\ matched = {rule} /\ Allowed(rule, Subject(rule, held[1], held[2]))
              /\ answer' = Delivery(rule, held, request)
        BY <4>1 DEF Deliver, Answer, Delivery
      <4>3. QED
        BY <2>1, <4>2 DEF Delivered
    <3>3. QED
      BY <1>5, <3>1, <3>2
  <2>4. QED
    BY <1>2, <2>1, <2>2, <2>3 DEF Decided
<1>6. QED
  BY <1>3, <1>4, <1>5

LEMMA NextGateway == GatewayInv /\ [Next]_vars => GatewayInv'
<1> SUFFICES ASSUME GatewayInv, [Next]_vars PROVE GatewayInv'
  OBVIOUS
<1>1. CASE UNCHANGED vars
  BY <1>1 DEF vars, development, serving, GatewayInv, TypeOK, FromAccepted, Handled,
              Decided, Delivered
<1>2. QED
  BY <1>1, DevelopmentKeeps, ServingKeeps DEF Next

LEMMA GatewayHolds == Spec => []GatewayInv
BY InitGateway, NextGateway, PTL DEF Spec

-----------------------------------------------------------------------------
\* The properties.

LEMMA Requests ==
  ASSUME GatewayInv, request # None
  PROVE  /\ deployed.from \in Sources /\ Accepted(deployed.from)
         /\ request \in [method : HTTPMethods, origin : Origins, path : Paths]
         /\ Sequence(request.path)
         /\ \A rule \in matched :
              rule \in ToSet(generateRules(deployed.from)) /\ Fires(rule, request)
         /\ WholeFile =>
              /\ Contents(deployed) = generateRules(deployed.from)
              /\ \A rule : rule \in matched <=>
                   rule \in ToSet(generateRules(deployed.from)) /\ Fires(rule, request)
<1>1. /\ deployed # None
      /\ request \in [method : HTTPMethods, origin : Origins, path : Paths]
      /\ matched = MatchingRules(Contents(deployed), request)
  BY DEF GatewayInv, Handled
<1>2. /\ deployed.from \in Sources /\ Accepted(deployed.from)
      /\ deployed.rules \in Nat /\ deployed.rules <= Whole(deployed.from).rules
  BY <1>1 DEF GatewayInv, TypeOK, FromAccepted
<1>3. ToSet(Contents(deployed)) \subseteq ToSet(generateRules(deployed.from))
  BY <1>2, PartOfTheRules
<1>4. Sequence(request.path)
  BY <1>1, GatewayAssumption DEF Sequence
<1>5. \A rule : rule \in matched <=> rule \in ToSet(Contents(deployed)) /\ Fires(rule, request)
  BY <1>1 DEF MatchingRules, Fires
<1>6. ASSUME WholeFile PROVE Contents(deployed) = generateRules(deployed.from)
  BY <1>6, WholeContents DEF WholeFile
<1>7. QED
  BY <1>1, <1>2, <1>3, <1>4, <1>5, <1>6

LEMMA DeliveryIs ==
  ASSUME NEW rule, NEW held, NEW asked
  PROVE  LET what == Delivery(rule, held, asked)
         IN /\ what.upstream = rule.upstream
            /\ what.subject = Subject(rule, held[1], held[2])
            /\ what.path = Stripped(asked.path, rule.strip)
            /\ what.credentials =
                 IF rule.mutator # "noop" THEN {} ELSE {held[1], held[2]} \ {"none"}
            /\ what.session = SessionHeader(rule, Subject(rule, held[1], held[2]))
BY DEF Delivery

\* What arrived was let through by a rule, and went where the rule takes it.
LEMMA Arrivals ==
  ASSUME GatewayInv, Answered
  PROVE  /\ request # None
         /\ \E rule \in matched, held \in Credentials :
              /\ Destination(deployed.from, rule, request)
              /\ Allowed(rule, Subject(rule, held[1], held[2]))
              /\ answer = Delivery(rule, held, request)
              /\ answer.path = Stripped(request.path, rule.strip)
              /\ answer.subject = Subject(rule, held[1], held[2])
<1>1. request # None /\ (answer = [delivered |-> FALSE] \/ Delivered(answer))
  BY DEF GatewayInv, Decided, Answered
<1>2. answer # [delivered |-> FALSE]
  BY DEF Answered
<1>3. PICK held \in Credentials, rule \in matched :
        /\ Allowed(rule, Subject(rule, held[1], held[2]))
        /\ answer = Delivery(rule, held, request)
  BY <1>1, <1>2 DEF Delivered
<1>4. Destination(deployed.from, rule, request)
  BY <1>1, <1>3, Requests, Destinations
<1>5. /\ answer.path = Stripped(request.path, rule.strip)
      /\ answer.subject = Subject(rule, held[1], held[2])
  BY <1>3, DeliveryIs
<1>6. QED
  BY <1>1, <1>3, <1>4, <1>5

LEMMA RulesAreOne == GatewayInv => OneRule
<1> SUFFICES ASSUME GatewayInv PROVE OneRule
  OBVIOUS
<1>1. Cardinality(matched) <= 1
  <2>1. CASE matched = {}
    BY <2>1, FS_EmptySet
  <2>2. CASE matched # {}
    <3>1. PICK rule \in matched : TRUE
      BY <2>2
    <3>2. request # None
      BY <2>2 DEF GatewayInv, TypeOK
    <3>3. \A other \in matched : other = rule
      BY <3>1, <3>2, Requests, OnlyTheRule
    <3>4. matched = {rule}
      BY <3>1, <3>3
    <3>5. QED
      BY <3>4, FS_Singleton
  <2>3. QED
    BY <2>1, <2>2
<1>2. ASSUME request # None, WholeFile, request.method = "POST",
             request.origin \in {Routes.api, Routes.apiInternal},
             NEW method \in MethodsOf(Contract),
             request.path = RPC \o <<"api.manage.v1">> \o method
      PROVE  matched # {}
  <2> DEFINE s == deployed.from
  <2>1. s \in Sources /\ RolesAreDeclared(s.contract)
    BY <1>2, Requests DEF Accepted
  <2>2. \E rule \in ToSet(Manage(s)) : Fires(rule, request)
    BY <1>2, <2>1, CallsFire DEF Routes, Contract, ManagePath, Manage
  <2>3. ToSet(Manage(s)) \subseteq ToSet(generateRules(s))
    BY RulesSet
  <2>4. QED
    BY <1>2, <2>2, <2>3, Requests
<1>3. QED
  BY <1>1, <1>2 DEF OneRule

\* No two rules of the repository's generator match one request, for every contract
\* and all routes that are accepted, so Oathkeeper never refuses what the rules allow
\* because it cannot choose; and in a whole file a call of a method of the contract
\* always has one.
THEOREM OneRuleDecides == Spec => []OneRule
BY RulesAreOne, GatewayHolds, PTL

\* The gateway's state has its types.
THEOREM TypesAreRight == Spec => []TypeOK
<1>1. GatewayInv => TypeOK
  BY DEF GatewayInv
<1>2. QED
  BY <1>1, GatewayHolds, PTL

LEMMA CutFilesDeny == GatewayInv => CutOffOnlyDenies
<1> SUFFICES ASSUME GatewayInv, request # None, NEW rule \in matched
             PROVE  matched = MatchingRules(generateRules(deployed.from), request)
  BY DEF CutOffOnlyDenies
<1> DEFINE all == generateRules(deployed.from)
<1>1. /\ deployed.from \in Sources /\ Accepted(deployed.from)
      /\ request \in [method : HTTPMethods, origin : Origins, path : Paths]
      /\ Sequence(request.path)
      /\ \A other \in matched : other \in ToSet(all) /\ Fires(other, request)
  BY Requests
<1>2. \A other \in ToSet(all) : Fires(other, request) => other = rule
  BY <1>1, OnlyTheRule
<1>3. MatchingRules(all, request) = {other \in ToSet(all) : Fires(other, request)}
  BY DEF MatchingRules, Fires
<1> HIDE DEF all
<1>4. MatchingRules(all, request) = {rule} /\ matched = {rule}
  BY <1>1, <1>2, <1>3
<1>5. QED
  BY <1>4 DEF all

\* Wherever the file that is deployed was cut off, the gateway lets nobody through by
\* it whom the whole file would refuse, for all contracts and routes that are accepted:
\* cmd/generate-oathkeeper-rules writes in place, and a deployment need not check.
THEOREM CutOffFilesOnlyDeny == Spec => []CutOffOnlyDenies
BY CutFilesDeny, GatewayHolds, PTL

LEMMA RolesAreChecked == GatewayInv => DeclaredRole
<1> SUFFICES ASSUME GatewayInv, Answered, answer.path[1] = "api.manage.v1", request.method = "POST"
             PROVE  LET method == <<answer.path[2], answer.path[3]>>
                    IN /\ method \in MethodsOf(Contract)
                       /\ answer.subject \in
                            (CASE Contract[method] = "USER" -> Persons
                               [] Contract[method] = "AUTHOR" -> {"author", "admin"}
                               [] Contract[method] = "ADMIN" -> {"admin"})
  BY DEF DeclaredRole
<1> DEFINE s == deployed.from
<1>1. PICK rule \in matched, held \in Credentials :
        /\ Destination(s, rule, request)
        /\ Allowed(rule, Subject(rule, held[1], held[2]))
        /\ answer.path = Stripped(request.path, rule.strip)
        /\ answer.subject = Subject(rule, held[1], held[2])
  BY Arrivals
<1> DEFINE to == Stripped(request.path, rule.strip)
<1>2. answer.path = to /\ answer.subject = Subject(rule, held[1], held[2])
  BY <1>1
<1>3. rule.authorizer # Deny
  BY <1>1, DeniedToAll
<1>4. PICK m \in MethodsOf(s.contract) :
        /\ rule.authenticators = Session /\ rule.mutator = "header"
        /\ m = <<to[2], to[3]>> /\ s.contract[m] \in Roles
        /\ rule.authorizer = writeRoleAuthorizer(s.contract[m])
  <2>1. to[1] = "api.manage.v1"
    BY <1>2
  <2> HIDE DEF to
  <2>2. QED
    BY <1>1, <1>3, <2>1 DEF Destination, to, Families
<1>5. m = <<answer.path[2], answer.path[3]>> /\ m \in MethodsOf(Contract)
  BY <1>2, <1>4 DEF Contract
<1>6. answer.subject \in Persons
  BY <1>1, <1>2, <1>4, SessionSubject
<1>7. /\ s.contract[m] = "AUTHOR" => answer.subject \in {"author", "admin"}
      /\ s.contract[m] = "ADMIN" => answer.subject = "admin"
  <2>1. s.contract[m] \in {"AUTHOR", "ADMIN"} => rule.authorizer = Ask(s.contract[m])
    BY <1>4 DEF writeRoleAuthorizer
  <2>2. QED
    BY <1>1, <1>2, <2>1, AskedSubject
<1>8. answer.subject \in (CASE s.contract[m] = "USER" -> Persons
                            [] s.contract[m] = "AUTHOR" -> {"author", "admin"}
                            [] s.contract[m] = "ADMIN" -> {"admin"})
  BY <1>4, <1>6, <1>7 DEF Roles
<1>9. QED
  BY <1>5, <1>8 DEF Contract

\* Whatever the contract declared when the deployed file was generated, whole or cut
\* off, a manage call that arrives is of somebody with the role declared for the method.
THEOREM RolesAreEnforced == Spec => []DeclaredRole
BY RolesAreChecked, GatewayHolds, PTL

LEMMA InternalIsRPC == GatewayInv => InternalOriginIsRPCOnly
<1> SUFFICES ASSUME GatewayInv, Answered,
                    request.origin \notin {Routes.api, Routes.auth, Routes.collab}
             PROVE  /\ request.origin = Routes.apiInternal /\ request.method = "POST"
                    /\ answer.path[1] \in {"api.open.v1", "api.manage.v1"}
  BY DEF InternalOriginIsRPCOnly
<1>1. PICK rule \in matched, held \in Credentials :
        /\ Destination(deployed.from, rule, request)
        /\ Allowed(rule, Subject(rule, held[1], held[2]))
        /\ answer.path = Stripped(request.path, rule.strip)
  BY Arrivals
<1>2. answer.path = Stripped(request.path, rule.strip) /\ rule.authorizer # Deny
  BY <1>1, DeniedToAll
<1>3. QED
  BY <1>1, <1>2 DEF Destination, Routes

\* "Only RPC matchers admit this origin" (routes.yml), for all routes and contracts.
THEOREM InternalIsRPCOnly == Spec => []InternalOriginIsRPCOnly
BY InternalIsRPC, GatewayHolds, PTL

LEMMA CredentialsStay == GatewayInv => UpstreamSeesNoCredentials
<1> SUFFICES ASSUME GatewayInv, Answered, ~IsPrefix(Auth, request.path)
             PROVE  answer.credentials = {} /\ answer.session \in {"", answer.subject}
  BY DEF UpstreamSeesNoCredentials
<1>1. PICK rule \in matched, held \in Credentials :
        /\ Destination(deployed.from, rule, request)
        /\ Allowed(rule, Subject(rule, held[1], held[2]))
        /\ answer = Delivery(rule, held, request)
  BY Arrivals
<1>2. rule.authorizer # Deny
  BY <1>1, DeniedToAll
<1>3. rule.mutator \in {"header", "mcp header"}
  BY <1>1, <1>2 DEF Destination
<1>4. answer.credentials = {}
  BY <1>1, <1>3, DeliveryIs
<1>5. /\ answer.session = SessionHeader(rule, Subject(rule, held[1], held[2]))
      /\ answer.subject = Subject(rule, held[1], held[2])
  BY <1>1, DeliveryIs
<1>6. answer.session \in {"", answer.subject}
  BY <1>3, <1>5 DEF SessionHeader
<1>7. QED
  BY <1>4, <1>6

\* Outside the authentication routes no upstream is given a cookie or a token, or a
\* session header that the caller wrote.
THEOREM CredentialsStayOutside == Spec => []UpstreamSeesNoCredentials
BY CredentialsStay, GatewayHolds, PTL

LEMMA PathTells == GatewayInv => UpstreamPathTellsTheChecks
<1> SUFFICES ASSUME GatewayInv, Answered, request.method # "OPTIONS",
                    request.path[1] # "collab"
             PROVE  /\ answer.path[1] \in {"api.manage.v1", "upload"} => answer.subject \in Persons
                    /\ answer.path = <<"mcp">> => answer.subject = "author token"
                    /\ answer.path[1] # "api.intra.v1"
  BY DEF UpstreamPathTellsTheChecks
<1>1. PICK rule \in matched, held \in Credentials :
        /\ Destination(deployed.from, rule, request)
        /\ Allowed(rule, Subject(rule, held[1], held[2]))
        /\ answer.path = Stripped(request.path, rule.strip)
        /\ answer.subject = Subject(rule, held[1], held[2])
  BY Arrivals
<1>2. /\ answer.path = Stripped(request.path, rule.strip)
      /\ answer.subject = Subject(rule, held[1], held[2])
  BY <1>1
<1>3. rule.authorizer # Deny
  BY <1>1, DeniedToAll
<1>4. /\ answer.path[1] # "api.intra.v1"
      /\ answer.path[1] \in {"api.manage.v1", "upload"} =>
           rule.authenticators = Session /\ rule.mutator = "header"
      /\ answer.path[1] = "mcp" =>
           rule.authorizer = Ask("MCP author") /\ rule.mutator = "mcp header"
  BY <1>1, <1>2, <1>3 DEF Destination, Families
<1>5. answer.path[1] \in {"api.manage.v1", "upload"} => answer.subject \in Persons
  BY <1>1, <1>2, <1>4, SessionSubject
<1>6. answer.path[1] = "mcp" => answer.subject = "author token"
  <2> SUFFICES ASSUME answer.path[1] = "mcp" PROVE answer.subject = "author token"
    OBVIOUS
  <2>1. answer.subject \in {"author token", "malformed token"}
    BY <1>1, <1>2, <1>4, AskedSubject
  <2>2. answer.subject # "malformed token"
    BY <1>1, <1>2, <1>4 DEF Allowed, CanMutate
  <2>3. QED
    BY <2>1, <2>2
<1>7. answer.path = <<"mcp">> => answer.path[1] = "mcp"
  OBVIOUS
<1>8. QED
  BY <1>4, <1>5, <1>6, <1>7

\* What arrives on the API upstream's paths of the manage API, of uploads and of mcp has
\* passed their checks, and nothing arrives on those of the internal API, although the
\* rules strip the prefixes they match.
THEOREM PathsTellTheChecks == Spec => []UpstreamPathTellsTheChecks
BY PathTells, GatewayHolds, PTL

\* What answers a browser that asks first.
Offer(s, asked) ==
  \E rule \in ToSet(generateRules(s)) :
    Fires(rule, asked) /\ rule.authenticators = Anonymous /\ rule.authorizer = Allow

LEMMA BelowMatches ==
  ASSUME NEW o, NEW p, Sequence(p), NEW path, Len(path) > Len(p),
         \A i \in 1..Len(p) : path[i] = p[i]
  PROVE  Matches(Below(o, p), o, path)
<1> DEFINE pattern == Below(o, p)
<1>1. pattern.path = p /\ pattern.open /\ pattern.origin = o
  BY Patterns
<1> HIDE DEF pattern
<1>2. DOMAIN p = 1..Len(p)
  BY SequenceLen
<1>3. Matches(pattern, o, path)
  BY <1>1, <1>2 DEF Matches, SegmentMatches
<1>4. QED
  BY <1>3 DEF pattern

LEMMA PreflightRuleIs ==
  ASSUME NEW r
  PROVE  /\ \A i \in 1..2 : /\ PreflightRules(r)[i].methods = {"OPTIONS"}
                            /\ PreflightRules(r)[i].authenticators = Anonymous
                            /\ PreflightRules(r)[i].authorizer = Allow
         /\ PreflightRules(r)[1].match =
              UNION {OnPublicOrigin(r, package) : package \in {"api.open.v1", "api.manage.v1"}}
         /\ PreflightRules(r)[2].match = {Below(r.api, <<"api", "upload">>)}
<1>1. ASSUME NEW i \in 1..2
      PROVE  /\ PreflightRules(r)[i].methods = {"OPTIONS"}
             /\ PreflightRules(r)[i].authenticators = Anonymous
             /\ PreflightRules(r)[i].authorizer = Allow
  BY DEF PreflightRules, Rule
<1>2. PreflightRules(r)[1].match =
        UNION {OnPublicOrigin(r, package) : package \in {"api.open.v1", "api.manage.v1"}}
  BY DEF PreflightRules, Rule
<1>3. PreflightRules(r)[2].match = {Below(r.api, <<"api", "upload">>)}
  BY DEF PreflightRules, Rule
<1>4. QED
  BY <1>1, <1>2, <1>3

LEMMA RPCIsPreflighted ==
  ASSUME NEW r, NEW first, first.method = "OPTIONS", first.origin = r.api,
         NEW package \in {"api.open.v1", "api.manage.v1"}, Len(first.path) > 3,
         first.path[1] = "api", first.path[2] = "rpc", first.path[3] = package
  PROVE  Fires(PreflightRules(r)[1], first)
<1> DEFINE p == RPC \o <<package>>
<1>1. Begins(p, "api", "rpc", package)
  BY RPCPath
<1>2. Len(p) = 3
  BY RPCPath
<1>3. Below(r.api, p) \in PreflightRules(r)[1].match
  BY PreflightRuleIs DEF OnPublicOrigin
<1> HIDE DEF p
<1>4. Sequence(p) /\ Len(first.path) > Len(p) /\ \A i \in 1..Len(p) : first.path[i] = p[i]
  BY <1>1, <1>2 DEF Begins
<1>5. Matches(Below(r.api, p), first.origin, first.path)
  BY <1>4, BelowMatches
<1>6. first.method \in PreflightRules(r)[1].methods
  BY PreflightRuleIs
<1>7. QED
  BY <1>3, <1>5, <1>6 DEF Fires

LEMMA UploadIsPreflighted ==
  ASSUME NEW r, NEW first, first.method = "OPTIONS", first.origin = r.api,
         Len(first.path) > 2, first.path[1] = "api", first.path[2] = "upload"
  PROVE  Fires(PreflightRules(r)[2], first)
<1> DEFINE p == <<"api", "upload">>
<1>1. Sequence(p) /\ Len(p) = 2 /\ p[1] = "api" /\ p[2] = "upload"
  BY Tuples
<1>2. Below(r.api, p) \in PreflightRules(r)[2].match
  BY PreflightRuleIs
<1> HIDE DEF p
<1>3. Sequence(p) /\ Len(first.path) > Len(p) /\ \A i \in 1..Len(p) : first.path[i] = p[i]
  BY <1>1
<1>4. Matches(Below(r.api, p), first.origin, first.path)
  BY <1>3, BelowMatches
<1>5. first.method \in PreflightRules(r)[2].methods
  BY PreflightRuleIs
<1>6. QED
  BY <1>2, <1>4, <1>5 DEF Fires

LEMMA MCPIsPreflighted ==
  ASSUME NEW r, NEW rule \in ToSet(MCPRules(r)), NEW asked, Fires(rule, asked),
         NEW first, first.method = "OPTIONS",
         first.origin = asked.origin, first.path = asked.path
  PROVE  /\ Fires(MCPRules(r)[1], first)
         /\ MCPRules(r)[1].authenticators = Anonymous /\ MCPRules(r)[1].authorizer = Allow
<1>1. rule = MCPRules(r)[1] \/ rule = MCPRules(r)[2]
  BY GroupSizes
<1>2. /\ MCPRules(r)[1].match = {Exact(r.api, <<"mcp">>)}
      /\ MCPRules(r)[1].methods = {"OPTIONS"}
      /\ MCPRules(r)[1].authenticators = Anonymous /\ MCPRules(r)[1].authorizer = Allow
  BY DEF MCPRules, Rule
<1>3. MCPRules(r)[2].match = {Exact(r.api, <<"mcp">>)}
  BY DEF MCPRules, Rule
<1>4. Matches(Exact(r.api, <<"mcp">>), asked.origin, asked.path)
  BY <1>1, <1>2, <1>3, SoleFires
<1>5. Fires(MCPRules(r)[1], first)
  BY <1>2, <1>4 DEF Fires
<1>6. QED
  BY <1>2, <1>5

LEMMA Preflighted ==
  ASSUME NEW s \in Sources, NEW rule \in ToSet(generateRules(s)), NEW asked, Fires(rule, asked),
         asked.method # "OPTIONS", rule.authorizer # Deny, asked.path[1] \in {"api", "mcp"},
         asked.origin \in {s.routes.api} \cup ({s.routes.auth} \ {s.routes.apiInternal}),
         NEW first, first.method = "OPTIONS",
         first.origin = asked.origin, first.path = asked.path
  PROVE  Offer(s, first)
<1> DEFINE r == s.routes
           rules == ToSet(generateRules(s))
<1>1. asked.origin \in {r.api, r.apiInternal} => asked.origin = r.api
  OBVIOUS
<1>2. /\ \A i \in 1..2 : PreflightRules(r)[i] \in ToSet(PreflightRules(r))
      /\ AuthRules(r)[1] \in ToSet(AuthRules(r)) /\ MCPRules(r)[1] \in ToSet(MCPRules(r))
  BY GroupSizes
<1>3. /\ \A i \in 1..2 : PreflightRules(r)[i] \in rules
      /\ AuthRules(r)[1] \in rules /\ MCPRules(r)[1] \in rules
  BY <1>2, RulesSet, BaseRulesSet, TailRulesSet
<1>4. CASE rule \in ToSet(ApiRules(r)) \cup ToSet(CollabRules(r)) \cup ToSet(PreflightRules(r))
                      \cup ToSet(InternalRules(r))
  BY <1>4, ApiFires, CollabFires, PreflightFires, InternalFires
<1>5. CASE rule \in ToSet(AuthRules(r))
  <2>1. Fires(AuthRules(r)[1], first)
    BY <1>5, AuthFires
  <2>2. AuthRules(r)[1].authenticators = Anonymous /\ AuthRules(r)[1].authorizer = Allow
    BY AuthRulesAlike
  <2>3. QED
    BY <1>3, <2>1, <2>2 DEF Offer
<1>6. CASE rule \in ToSet(Manage(s)) \cup ToSet(OpenRules(r))
  <2>1. PICK package \in {"api.open.v1", "api.manage.v1"} :
          /\ asked.path[1] = "api" /\ asked.path[2] = "rpc" /\ asked.path[3] = package
          /\ Len(asked.path) > 3 /\ asked.origin \in {r.api, r.apiInternal}
    <3>1. CASE rule \in ToSet(Manage(s))
      <4>1. /\ asked.path[1] = "api" /\ asked.path[2] = "rpc"
            /\ asked.path[3] = "api.manage.v1"
            /\ Len(asked.path) = 5 /\ asked.origin \in {r.api, r.apiInternal}
        BY <3>1, ManageFires DEF Manage
      <4>2. Len(asked.path) > 3
        BY <4>1
      <4>3. QED
        BY <4>1, <4>2
    <3>2. CASE rule \in ToSet(OpenRules(r))
      BY <3>2, OpenFires
    <3>3. QED
      BY <1>6, <3>1, <3>2
  <2>2. Fires(PreflightRules(r)[1], first)
    BY <1>1, <2>1, RPCIsPreflighted
  <2>3. /\ PreflightRules(r)[1].authenticators = Anonymous
        /\ PreflightRules(r)[1].authorizer = Allow
    BY PreflightRuleIs
  <2>4. QED
    BY <1>3, <2>2, <2>3 DEF Offer
<1>7. CASE rule \in ToSet(MCPRules(r))
  BY <1>3, <1>7, MCPIsPreflighted DEF Offer
<1>8. CASE rule \in ToSet(UploadRules(r))
  <2>1. /\ asked.path[1] = "api" /\ asked.path[2] = "upload"
        /\ Len(asked.path) > 2 /\ asked.origin = r.api
    BY <1>8, UploadFires
  <2>2. Fires(PreflightRules(r)[2], first)
    BY <2>1, UploadIsPreflighted
  <2>3. /\ PreflightRules(r)[2].authenticators = Anonymous
        /\ PreflightRules(r)[2].authorizer = Allow
    BY PreflightRuleIs
  <2>4. QED
    BY <1>3, <2>2, <2>3 DEF Offer
<1>9. QED
  BY <1>4, <1>5, <1>6, <1>7, <1>8, RulesSet, BaseRulesSet, TailRulesSet

LEMMA PreflightsAreOffered == GatewayInv => PreflightForEveryRoute
<1> SUFFICES ASSUME GatewayInv, request # None, request.path[1] \in {"api", "mcp"},
                    request.origin \in {Routes.api} \cup ({Routes.auth} \ {Routes.apiInternal}),
                    request.method # "OPTIONS", WholeFile,
                    NEW rule \in matched, rule.authorizer # Deny
             PROVE  \E offer \in MatchingRules(Contents(deployed),
                                               [request EXCEPT !.method = "OPTIONS"]) :
                      offer.authenticators = Anonymous /\ offer.authorizer = Allow
  BY DEF PreflightForEveryRoute
<1> DEFINE first == [request EXCEPT !.method = "OPTIONS"]
           s == deployed.from
<1>1. /\ s \in Sources /\ Contents(deployed) = generateRules(s)
      /\ request \in [method : HTTPMethods, origin : Origins, path : Paths]
      /\ rule \in ToSet(generateRules(s)) /\ Fires(rule, request)
  BY Requests
<1>2. first.method = "OPTIONS" /\ first.origin = request.origin /\ first.path = request.path
  BY <1>1
<1> HIDE DEF first
<1>3. Offer(s, first)
  BY <1>1, <1>2, Preflighted DEF Routes
<1>4. QED
  BY <1>1, <1>3 DEF Offer, Fires, MatchingRules, first

\* What a browser may call it may ask about first: the preflight rules, which repeat
\* what the other rules match in expressions of their own, leave nothing out.
THEOREM PreflightIsOffered == Spec => []PreflightForEveryRoute
BY PreflightsAreOffered, GatewayHolds, PTL

=============================================================================
