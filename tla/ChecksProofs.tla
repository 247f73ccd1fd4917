---------------------------- MODULE ChecksProofs ----------------------------
(***************************************************************************)
(* Lemmas about the operators of Checks: the recursion that builds the     *)
(* inputs is defined and keeps the fields of a record, and what the first  *)
(* error of a list of checks says of all of them.                          *)
(***************************************************************************)
EXTENDS Checks, WellFoundedInduction, TLAPS

LEMMA LeastMember ==
  ASSUME NEW S, S \subseteq Nat, S # {}
  PROVE  \E x \in S : \A y \in S : x =< y
<1>1. PICK x \in S : \A y \in S : ~ (<<y, x>> \in OpToRel(<, Nat))
  BY WFMin, NatLessThanWellFounded
<1>2. \A y \in S : ~ (y < x)
  BY <1>1 DEF OpToRel
<1>3. QED
  BY <1>2

LEMMA MinIsMember ==
  ASSUME NEW S, S \subseteq Nat, S # {}
  PROVE  Min(S) \in S
BY LeastMember DEF Min

LEMMA MinIsLeast ==
  ASSUME NEW S, S \subseteq Nat, S # {}
  PROVE  Min(S) \in S /\ \A y \in S : Min(S) <= y
BY LeastMember DEF Min

\* The recursion of Near has a solution.
Solution(f, base, alternatives, n) ==
  f = [k \in 0..n |->
         IF k = 0 THEN {base}
           ELSE f[k - 1] \cup Changed(f[k - 1], DOMAIN base, alternatives)]

LEMMA NearDefined ==
  ASSUME NEW base, NEW alternatives, NEW n \in Nat
  PROVE  \E f : Solution(f, base, alternatives, n)
<1> DEFINE Step(S) == S \cup Changed(S, DOMAIN base, alternatives)
           Solves(f, m) == f = [k \in 0..m |-> IF k = 0 THEN {base} ELSE Step(f[k - 1])]
           bad == {m \in Nat : ~ \E f : Solves(f, m)}
<1>1. \E f : Solves(f, 0)
  <2> DEFINE f == [k \in 0..0 |-> {base}]
  <2>1. Solves(f, 0)
    <3> HIDE DEF Step
    <3> QED
      OBVIOUS
  <2>2. QED
    BY <2>1
<1>2. ASSUME NEW m \in Nat, NEW f, Solves(f, m)
      PROVE  \E g : Solves(g, m + 1)
  <2> DEFINE g == [k \in 0..(m + 1) |-> IF k = m + 1 THEN Step(f[m]) ELSE f[k]]
  <2> HIDE DEF Step
  <2>1. \A k \in 0..m : f[k] = IF k = 0 THEN {base} ELSE Step(f[k - 1])
    BY <1>2
  <2>2. \A k \in 0..m : g[k] = f[k]
    OBVIOUS
  <2>3. \A k \in 0..(m + 1) : g[k] = IF k = 0 THEN {base} ELSE Step(g[k - 1])
    <3> SUFFICES ASSUME NEW k \in 0..(m + 1)
                 PROVE  g[k] = IF k = 0 THEN {base} ELSE Step(g[k - 1])
      OBVIOUS
    <3>1. CASE k = m + 1
      <4>1. g[k] = Step(f[m])
        BY <3>1
      <4>2. k # 0 /\ k - 1 = m /\ m \in 0..m
        BY <3>1
      <4> HIDE DEF g
      <4>3. QED
        BY <2>2, <4>1, <4>2
    <3>2. CASE k # m + 1
      <4>1. k \in 0..m /\ (k # 0 => k - 1 \in 0..m)
        BY <3>2
      <4> HIDE DEF g
      <4>2. QED
        BY <2>1, <2>2, <4>1
    <3>3. QED
      BY <3>1, <3>2
  <2>4. Solves(g, m + 1)
    <3> HIDE DEF g
    <3>1. g = [k \in 0..(m + 1) |-> g[k]]
      BY DEF g
    <3>2. QED
      BY <2>3, <3>1
  <2>5. QED
    BY <2>4
<1>3. bad = {}
  <2> HIDE DEF Solves
  <2>1. SUFFICES ASSUME bad # {} PROVE FALSE
    OBVIOUS
  <2>2. PICK m \in bad : \A k \in bad : m =< k
    BY <2>1, LeastMember
  <2>3. m # 0
    BY <1>1, <2>2
  <2>4. m - 1 \in Nat /\ m - 1 \notin bad
    BY <2>2, <2>3
  <2>5. QED
    BY <1>2, <2>2, <2>4
<1>4. QED
  BY <1>3 DEF Solution

\* A record near another has its fields, and each has its value or an alternative.
LEMMA NearKeepsFields ==
  ASSUME NEW base, NEW alternatives, NEW n \in Nat, NEW record \in Near(base, alternatives, n)
  PROVE  /\ DOMAIN record = DOMAIN base
         /\ \A name \in DOMAIN base :
              record[name] = base[name] \/ record[name] \in alternatives[name]
<1> DEFINE near == CHOOSE f : Solution(f, base, alternatives, n)
           Keeps(r) == /\ DOMAIN r = DOMAIN base
                       /\ \A name \in DOMAIN base :
                            r[name] = base[name] \/ r[name] \in alternatives[name]
           bad == {k \in 0..n : ~ \A r \in near[k] : Keeps(r)}
<1>1. record \in near[n]
  BY DEF Near, Solution
<1>2. near = [k \in 0..n |->
               IF k = 0 THEN {base}
                 ELSE near[k - 1] \cup Changed(near[k - 1], DOMAIN base, alternatives)]
  <2>1. Solution(near, base, alternatives, n)
    BY NearDefined, Zenon
  <2> HIDE DEF near
  <2>2. QED
    BY <2>1 DEF Solution
<1> HIDE DEF near
<1>3. \A r \in near[0] : Keeps(r)
  BY <1>2
<1>4. ASSUME NEW k \in 1..n, \A r \in near[k - 1] : Keeps(r)
      PROVE  \A r \in near[k] : Keeps(r)
  <2>1. SUFFICES ASSUME NEW r \in Changed(near[k - 1], DOMAIN base, alternatives)
                 PROVE  Keeps(r)
    <3> HIDE DEF Keeps
    <3>1. near[k] = near[k - 1] \cup Changed(near[k - 1], DOMAIN base, alternatives)
      <4>1. k \in 0..n /\ k # 0
        OBVIOUS
      <4>2. QED
        BY <1>2, <4>1
    <3>2. QED
      BY <1>4, <3>1
  <2>2. PICK name \in DOMAIN base :
          r \in {[old EXCEPT ![name] = other] :
                  old \in near[k - 1], other \in alternatives[name]}
    BY <2>1 DEF Changed
  <2>3. PICK old \in near[k - 1], other \in alternatives[name] :
          r = [old EXCEPT ![name] = other]
    BY <2>2
  <2>4. QED
    BY <1>4, <2>3
<1>5. bad = {}
  <2> HIDE DEF Keeps
  <2>1. SUFFICES ASSUME bad # {} PROVE FALSE
    OBVIOUS
  <2>2. PICK k \in bad : \A j \in bad : k =< j
    <3>1. bad \subseteq Nat
      OBVIOUS
    <3> HIDE DEF bad
    <3>2. QED
      BY <2>1, <3>1, LeastMember
  <2>3. k # 0
    BY <1>3, <2>2
  <2>4. k \in 1..n /\ k - 1 \in 0..n /\ k - 1 \notin bad
    BY <2>2, <2>3
  <2>5. QED
    BY <1>4, <2>2, <2>4
<1>6. QED
  BY <1>1, <1>5

\* What is near a record: itself and, one and two steps away, what differs from it in
\* a field or two.
LEMMA NearHas ==
  ASSUME NEW base, NEW alternatives, NEW n \in Nat
  PROVE  /\ base \in Near(base, alternatives, n)
         /\ n >= 1 =>
              \A name \in DOMAIN base : \A other \in alternatives[name] :
                [base EXCEPT ![name] = other] \in Near(base, alternatives, n)
         /\ n >= 2 =>
              \A name1 \in DOMAIN base : \A other1 \in alternatives[name1] :
              \A name2 \in DOMAIN base : \A other2 \in alternatives[name2] :
                [[base EXCEPT ![name1] = other1] EXCEPT ![name2] = other2]
                  \in Near(base, alternatives, n)
<1> DEFINE near == CHOOSE f : Solution(f, base, alternatives, n)
           bad(m) == {k \in 0..n : m <= k /\ ~ (near[m] \subseteq near[k])}
<1>1. near[n] = Near(base, alternatives, n)
  BY DEF Near, Solution
<1>2. near = [k \in 0..n |->
               IF k = 0 THEN {base}
                 ELSE near[k - 1] \cup Changed(near[k - 1], DOMAIN base, alternatives)]
  <2>1. Solution(near, base, alternatives, n)
    BY NearDefined, Zenon
  <2> HIDE DEF near
  <2>2. QED
    BY <2>1 DEF Solution
<1> HIDE DEF near
<1>3. near[0] = {base}
  BY <1>2
<1>4. ASSUME NEW k \in 1..n
      PROVE  near[k] = near[k - 1] \cup Changed(near[k - 1], DOMAIN base, alternatives)
  <2>1. k \in 0..n /\ k # 0
    OBVIOUS
  <2>2. QED
    BY <1>2, <2>1
<1>5. ASSUME NEW m \in 0..n PROVE near[m] \subseteq near[n]
  <2>1. SUFFICES ASSUME bad(m) # {} PROVE FALSE
    BY DEF bad
  <2>2. PICK k \in bad(m) : \A j \in bad(m) : k =< j
    <3>1. bad(m) \subseteq Nat
      OBVIOUS
    <3> HIDE DEF bad
    <3>2. QED
      BY <2>1, <3>1, LeastMember
  <2>3. k # m
    BY <2>2
  <2>4. k \in 1..n /\ k - 1 \in 0..n /\ m <= k - 1 /\ k - 1 \notin bad(m)
    BY <2>2, <2>3
  <2>5. near[m] \subseteq near[k - 1]
    BY <2>4
  <2>6. QED
    BY <1>4, <2>2, <2>4, <2>5
<1>6. ASSUME NEW k \in 1..n, NEW record \in near[k - 1],
             NEW name \in DOMAIN base, NEW other \in alternatives[name]
      PROVE  [record EXCEPT ![name] = other] \in near[k]
  <2>1. [record EXCEPT ![name] = other] \in Changed(near[k - 1], DOMAIN base, alternatives)
    <3> DEFINE changed(field) ==
                 {[old EXCEPT ![field] = value] : old \in near[k - 1], value \in alternatives[field]}
    <3>1. [record EXCEPT ![name] = other] \in changed(name)
      OBVIOUS
    <3>2. Changed(near[k - 1], DOMAIN base, alternatives) = UNION {changed(field) : field \in DOMAIN base}
      BY DEF Changed
    <3> HIDE DEF changed
    <3>3. QED
      BY <3>1, <3>2
  <2>2. QED
    BY <1>4, <2>1
<1>7. base \in near[n]
  BY <1>3, <1>5
<1>8. ASSUME n >= 1, NEW name \in DOMAIN base, NEW other \in alternatives[name]
      PROVE  [base EXCEPT ![name] = other] \in near[1] /\ near[1] \subseteq near[n]
  <2>1. 1 \in 1..n /\ 1 \in 0..n /\ 1 - 1 = 0 /\ base \in near[0]
    BY <1>3, <1>8
  <2>2. QED
    BY <1>5, <1>6, <2>1
<1>9. ASSUME n >= 2, NEW name1 \in DOMAIN base, NEW other1 \in alternatives[name1],
             NEW name2 \in DOMAIN base, NEW other2 \in alternatives[name2]
      PROVE  [[base EXCEPT ![name1] = other1] EXCEPT ![name2] = other2] \in near[n]
  <2>1. [base EXCEPT ![name1] = other1] \in near[1]
    BY <1>8, <1>9
  <2>2. 2 \in 1..n /\ 2 \in 0..n /\ 2 - 1 = 1
    BY <1>9
  <2>3. QED
    BY <1>5, <1>6, <2>1, <2>2
<1>10. QED
  BY <1>1, <1>7, <1>8, <1>9

-----------------------------------------------------------------------------
\* When no error is found no check has failed.
LEMMA NoCheckFailed ==
  ASSUME NEW checks, NEW n \in Nat, DOMAIN checks = 1..n,
         \A i \in 1..n : checks[i].error # "none",
         FirstError(checks) = "none"
  PROVE  \A i \in 1..n : ~ checks[i].fails
<1> DEFINE failed == {i \in DOMAIN checks : checks[i].fails}
<1>1. failed # {} => Min(failed) \in failed
  BY MinIsMember
<1>2. failed = {}
  BY <1>1 DEF FirstError
<1>3. QED
  BY <1>2

\* When no check fails there is no error.
LEMMA NoErrorFound ==
  ASSUME NEW checks, \A i \in DOMAIN checks : ~ checks[i].fails
  PROVE  FirstError(checks) = "none"
BY DEF FirstError

\* A list without repetition stands for the same set as itself.
LEMMA SameAsItself ==
  ASSUME NEW list, IsInjective(list)
  PROVE  sameStringSet(list, list)
BY DEF sameStringSet

LEMMA ShortLists ==
  ASSUME NEW x, NEW y, x # y
  PROVE  IsInjective(<<x>>) /\ IsInjective(<<x, y>>) /\ ~ sameStringSet(<<x, y>>, <<x>>)
<1>1. IsInjective(<<x>>) /\ IsInjective(<<x, y>>)
  BY DEF IsInjective
<1>2. Len(<<x, y>>) = 2 /\ Len(<<x>>) = 1
  OBVIOUS
<1>3. QED
  BY <1>1, <1>2 DEF sameStringSet

=============================================================================
