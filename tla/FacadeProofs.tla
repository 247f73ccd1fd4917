---------------------------- MODULE FacadeProofs ----------------------------
(***************************************************************************)
(* Proofs about Facade and FacadeProcess, for every number of requests,    *)
(* clients and slots, and whatever the documents say.                      *)
(***************************************************************************)
EXTENDS FacadeProcess, FiniteSetTheorems, TLAPS

\* The dynamic requests that were admitted and have not returned.
Holding(r) ==
  pc[r] \notin {"idle", "begin"} /\ route[r].kind # "plain" /\ outcome[r] # "exhausted"

Authorizing(r) == route[r].kind = "authorize"

\* Where a handler can be with which route, and what it has been told by then.
Placed(r) ==
  /\ pc[r] # "idle" => route[r] \in Routes
  /\ pc[r] = "begin" => route[r].kind # "plain"
  /\ pc[r] = "body" => route[r].kind = "register"
  /\ pc[r] \in {"resolve", "ensure"} => Authorizing(r)
  /\ pc[r] # "return" => outcome[r] = "pending"
  /\ pc[r] = "return" /\ outcome[r] = "exhausted" => route[r].kind # "plain"

\* An answer belongs to the question that was asked, and a question without an
\* answer to a handler that waits for one.
SoundAnswer(r) ==
  /\ pc[r] \in {"idle", "begin"} => asked[r] = None /\ answer[r] = None
  /\ pc[r] # "resolve" /\ answer[r] = None => asked[r] = None
  /\ pc[r] = "resolve" => asked[r].client = route[r].client
  /\ answer[r] # None /\ answer[r].err = "none" =>
       /\ asked[r].client = route[r].client
       /\ answer[r].metadata \in Reads!Served
       /\ answer[r].metadata.client = asked[r].client
       /\ answer[r].metadata.asOf <= clock
       /\ asked[r].since - answer[r].metadata.asOf < MaxAge

\* What the handler knows when it synchronises the client and after that.
Backed(r) ==
  \/ pc[r] = "ensure"
  \/ Authorizing(r) /\ (pc[r] = "proxy" \/ outcome[r] = "passed")
  => answer[r] # None /\ answer[r].err = "none" /\ RedirectListed(r)

HandlerInv ==
  /\ TypeOK
  /\ \A r \in Requests : Placed(r) /\ SoundAnswer(r) /\ Backed(r)
  /\ DynamicSlotsHeld
  /\ KnownToHydra

\* ErrServerClosed comes of a shutdown only, and between Shutdown and the receive
\* nothing is left to do and nothing can arrive.
LifecycleInv ==
  /\ serverErrors = "ErrServerClosed" =>
       server \in {"closed", "refused"} /\ main \notin {"configure", "select"}
  /\ main = "receive" => server # "listening" /\ \A r \in Requests : pc[r] = "idle"
  /\ SuccessIsTrue

ProcessInv == ProcessTypeOK /\ HandlerInv /\ LifecycleInv

-----------------------------------------------------------------------------
\* The handlers.

LEMMA InitHandler == Init => HandlerInv
<1> SUFFICES ASSUME Init PROVE HandlerInv
  OBVIOUS
<1> USE FacadeAssumption DEF Init, Reads!Init
<1>1. TypeOK
  BY DEF TypeOK, Places, Outcomes
<1>2. \A r \in Requests : Placed(r) /\ SoundAnswer(r) /\ Backed(r)
  BY DEF Placed, SoundAnswer, Backed, Authorizing
<1>3. DynamicSlotsHeld
  <2>1. {r \in Requests : /\ pc[r] \notin {"idle", "begin"}
                          /\ route[r].kind # "plain"
                          /\ outcome[r] # "exhausted"} = {}
    OBVIOUS
  <2>2. QED
    BY <2>1, FS_EmptySet DEF DynamicSlotsHeld
<1>4. KnownToHydra
  BY DEF KnownToHydra
<1>5. QED
  BY <1>1, <1>2, <1>3, <1>4 DEF HandlerInv

\* The other requests are where they were.
Alone(r) ==
  \A q \in Requests \ {r} :
    /\ pc'[q] = pc[q] /\ route'[q] = route[q] /\ outcome'[q] = outcome[q]
    /\ asked'[q] = asked[q] /\ answer'[q] = answer[q]

LEMMA OthersKeep ==
  ASSUME HandlerInv, NEW r \in Requests, Alone(r), clock' = clock,
         NEW q \in Requests \ {r}
  PROVE  Placed(q)' /\ SoundAnswer(q)' /\ Backed(q)'
<1>1. q \in Requests /\ Placed(q) /\ SoundAnswer(q) /\ Backed(q)
  BY DEF HandlerInv
<1>2. QED
  BY <1>1 DEF Alone, Placed, SoundAnswer, Backed, Authorizing, RedirectListed, RedirectURIs

\* A step of one request that keeps, takes or gives back its slot.
LEMMA SlotsCounted ==
  ASSUME HandlerInv, NEW r \in Requests, Alone(r),
         dynamicSlots' = dynamicSlots
           + (IF ~Holding(r) /\ Holding(r)' THEN 1 ELSE 0)
           - (IF Holding(r) /\ ~Holding(r)' THEN 1 ELSE 0)
  PROVE  /\ DynamicSlotsHeld'
         /\ Holding(r) => dynamicSlots > 0
<1> DEFINE H == {q \in Requests : Holding(q)}
           G == {q \in Requests : Holding(q)'}
<1>1. IsFiniteSet(H)
  BY FS_Subset, FacadeAssumption
<1>2. dynamicSlots = Cardinality(H) /\ Cardinality(H) \in Nat
  <2>1. H = {q \in Requests : /\ pc[q] \notin {"idle", "begin"}
                              /\ route[q].kind # "plain"
                              /\ outcome[q] # "exhausted"}
    BY DEF Holding
  <2>2. QED
    BY <2>1, <1>1, FS_CardinalityType DEF HandlerInv, DynamicSlotsHeld
<1>3. \A q \in Requests \ {r} : Holding(q)' <=> Holding(q)
  BY DEF Alone, Holding
<1>4. CASE ~Holding(r) /\ Holding(r)'
  <2>1. G = H \cup {r} /\ r \notin H
    BY <1>3, <1>4
  <2>2. Cardinality(G) = Cardinality(H) + 1
    BY <2>1, <1>1, FS_AddElement
  <2>3. dynamicSlots' = Cardinality(G)
    BY <2>2, <1>2, <1>4
  <2>4. QED
    BY <2>3, <1>4 DEF DynamicSlotsHeld, Holding
<1>5. CASE Holding(r) /\ ~Holding(r)'
  <2>1. G = H \ {r} /\ r \in H
    BY <1>3, <1>5
  <2>2. Cardinality(G) = Cardinality(H) - 1
    BY <2>1, <1>1, FS_RemoveElement
  <2>3. dynamicSlots' = Cardinality(G)
    BY <2>2, <1>2, <1>5
  <2>4. Cardinality(H) # 0
    BY <2>1, <1>1, FS_EmptySet
  <2>5. QED
    BY <2>3, <2>4, <1>2 DEF DynamicSlotsHeld, Holding
<1>6. CASE Holding(r) <=> Holding(r)'
  <2>1. G = H
    BY <1>3, <1>6
  <2>2. dynamicSlots' = Cardinality(G)
    BY <2>1, <1>2, <1>6
  <2>3. Holding(r) => Cardinality(H) # 0
    BY <1>1, FS_EmptySet
  <2>4. QED
    BY <2>2, <2>3, <1>2 DEF DynamicSlotsHeld, Holding
<1>7. QED
  BY <1>4, <1>5, <1>6

\* What remains to be shown of a step of one request.
LEMMA StepOfOne ==
  ASSUME HandlerInv, NEW r \in Requests, Alone(r), clock' = clock,
         TypeOK', Placed(r)', SoundAnswer(r)', Backed(r)', DynamicSlotsHeld',
         \A c \in ClientIDs : registered[c] # {} => registered'[c] # {},
         pc'[r] = "proxy" /\ route'[r].kind = "authorize" => registered'[route'[r].client] # {}
  PROVE  HandlerInv'
<1>1. \A q \in Requests : Placed(q)' /\ SoundAnswer(q)' /\ Backed(q)'
  BY OthersKeep
<1>2. KnownToHydra'
  <2> SUFFICES ASSUME NEW q \in Requests, pc'[q] = "proxy", route'[q].kind = "authorize"
               PROVE  registered'[route'[q].client] # {}
    BY DEF KnownToHydra
  <2>1. CASE q = r
    BY <2>1
  <2>2. CASE q # r
    <3>1. pc[q] = "proxy" /\ route[q].kind = "authorize" /\ route'[q] = route[q]
      BY <2>2 DEF Alone
    <3>2. registered[route[q].client] # {} /\ route[q] \in Routes
      BY <3>1 DEF HandlerInv, KnownToHydra, Placed
    <3>3. route[q].client \in ClientIDs
      BY <3>1, <3>2 DEF Routes
    <3>4. QED
      BY <3>1, <3>2, <3>3
  <2>3. QED
    BY <2>1, <2>2
<1>3. QED
  BY <1>1, <1>2 DEF HandlerInv

LEMMA ArriveKeeps ==
  ASSUME HandlerInv, NEW r \in Requests, NEW what \in Routes, Arrive(r, what)
  PROVE  HandlerInv'
<1> USE DEF Arrive
<1>1. TypeOK /\ Placed(r) /\ SoundAnswer(r) /\ Backed(r) /\ KnownToHydra
  BY DEF HandlerInv
<1>2. Alone(r)
  BY <1>1 DEF Alone, TypeOK
<1>3. TypeOK'
  BY <1>1 DEF TypeOK, Places
<1>4. what.kind \in {"plain", "register", "authorize"}
  BY DEF Routes
<1>5. Placed(r)' /\ SoundAnswer(r)' /\ Backed(r)'
  BY <1>1, <1>4 DEF TypeOK, Placed, SoundAnswer, Backed, Authorizing
<1>6. ~Holding(r) /\ ~Holding(r)'
  BY <1>1 DEF Holding, TypeOK
<1>7. DynamicSlotsHeld'
  <2>1. dynamicSlots \in Int
    BY <1>1 DEF TypeOK
  <2>2. QED
    BY <2>1, <1>2, <1>6, SlotsCounted
<1>8. QED
  BY <1>1, <1>2, <1>3, <1>5, <1>7, StepOfOne DEF TypeOK

LEMMA BeginKeeps ==
  ASSUME HandlerInv, NEW r \in Requests, BeginAuthorize(r) \/ BeginRegister(r)
  PROVE  HandlerInv'
<1> USE DEF BeginAuthorize, BeginRegister, beginDynamic, Proceed, Reads!Ask
<1>1. TypeOK /\ Placed(r) /\ SoundAnswer(r) /\ Backed(r)
  BY DEF HandlerInv
<1>2. route[r] \in Routes /\ pc[r] = "begin"
  BY <1>1 DEF Placed
<1>3. Alone(r) /\ clock' = clock
  BY <1>1 DEF Alone, TypeOK
<1>4. TypeOK'
  <2>1. CASE BeginAuthorize(r)
    <3>1. route[r].client \in ClientIDs
      BY <1>2, <2>1 DEF Routes
    <3>2. [client |-> route[r].client, since |-> clock] \in Reads!Questions
      BY <3>1, <1>1 DEF Reads!Questions, Reads!Moments, TypeOK
    <3>3. asked' \in [Requests -> Reads!Questions \cup {None}]
      BY <3>2, <2>1, <1>1 DEF TypeOK
    <3>4. QED
      BY <3>3, <2>1, <1>1, FacadeAssumption DEF TypeOK, Places
  <2>2. CASE BeginRegister(r)
    BY <2>2, <1>1, FacadeAssumption DEF TypeOK, Places
  <2>3. QED
    BY <2>1, <2>2
<1>5. Placed(r)' /\ SoundAnswer(r)' /\ Backed(r)'
  BY <1>1, <1>2 DEF TypeOK, Placed, SoundAnswer, Backed, Authorizing
<1>6. ~Holding(r) /\ Holding(r)'
  BY <1>1, <1>2 DEF Holding, TypeOK, Placed
<1>7. DynamicSlotsHeld'
  <2>1. dynamicSlots \in Int /\ dynamicSlots' = dynamicSlots + 1
    BY <1>1 DEF TypeOK
  <2>2. QED
    BY <2>1, <1>3, <1>6, SlotsCounted
<1>8. pc'[r] # "proxy" /\ registered' = registered
  BY <1>1 DEF TypeOK
<1>9. QED
  BY <1>3, <1>4, <1>5, <1>7, <1>8, StepOfOne

\* The steps between the slot and the answer leave the slots alone.
LEMMA SlotKept ==
  ASSUME HandlerInv, NEW r \in Requests, Alone(r), dynamicSlots' = dynamicSlots,
         Holding(r)' <=> Holding(r)
  PROVE  DynamicSlotsHeld'
<1>1. dynamicSlots \in Int
  BY DEF HandlerInv, TypeOK
<1>2. QED
  BY <1>1, SlotsCounted

LEMMA RespondKeeps ==
  ASSUME HandlerInv, NEW r \in Requests, NEW what \in Outcomes,
         pc[r] \in {"begin", "resolve", "ensure", "body", "proxy"},
         pc[r] = "begin" <=> what = "exhausted", what = "passed" => pc[r] = "proxy",
         Respond(r, what), UNCHANGED <<asked, answer, registered>>,
         pc[r] = "resolve" => answer[r] # None
  PROVE  HandlerInv'
<1> USE DEF Respond
<1>1. TypeOK /\ Placed(r) /\ SoundAnswer(r) /\ Backed(r)
  BY DEF HandlerInv
<1>2. Alone(r)
  BY <1>1 DEF Alone, TypeOK
<1>3. TypeOK'
  BY <1>1 DEF TypeOK, Places
<1>4. Placed(r)'
  BY <1>1 DEF TypeOK, Placed
<1>5. SoundAnswer(r)'
  BY <1>1 DEF TypeOK, SoundAnswer
<1>6. Backed(r)'
  BY <1>1 DEF TypeOK, Backed, Authorizing, RedirectListed, RedirectURIs
<1>7. Holding(r)' <=> Holding(r)
  BY <1>1 DEF TypeOK, Holding, Placed
<1>8. DynamicSlotsHeld'
  BY <1>2, <1>7, SlotKept
<1>9. pc'[r] # "proxy"
  BY <1>1 DEF TypeOK
<1>10. QED
  BY <1>2, <1>3, <1>4, <1>5, <1>6, <1>8, <1>9, StepOfOne

LEMMA RespondingKeeps ==
  ASSUME HandlerInv, NEW r \in Requests,
         \/ Exhausted(r) \/ ResolveFailed(r) \/ RedirectRefused(r) \/ EnsureFailed(r)
         \/ BodyRefused(r) \/ Proxied(r) \/ ProxyFailed(r)
  PROVE  HandlerInv'
<1> USE DEF Outcomes
<1>1. CASE Exhausted(r)
  BY <1>1, RespondKeeps DEF Exhausted
<1>2. CASE ResolveFailed(r)
  BY <1>2, RespondKeeps DEF ResolveFailed
<1>3. CASE RedirectRefused(r)
  BY <1>3, RespondKeeps DEF RedirectRefused
<1>4. CASE EnsureFailed(r)
  BY <1>4, RespondKeeps DEF EnsureFailed
<1>5. CASE BodyRefused(r)
  BY <1>5, RespondKeeps DEF BodyRefused
<1>6. CASE Proxied(r)
  <2> DEFINE what == IF HydraPasses(r) THEN "passed" ELSE "rejected"
  <2>1. what \in Outcomes /\ what # "exhausted"
    OBVIOUS
  <2>2. pc[r] = "proxy" /\ Respond(r, what) /\ UNCHANGED <<asked, answer, registered>>
    BY <1>6 DEF Proxied
  <2> HIDE DEF what
  <2>3. QED
    BY <2>1, <2>2, RespondKeeps
<1>7. CASE ProxyFailed(r)
  BY <1>7, RespondKeeps DEF ProxyFailed
<1>8. QED
  BY <1>1, <1>2, <1>3, <1>4, <1>5, <1>6, <1>7

LEMMA ResolveReturnsKeeps ==
  ASSUME HandlerInv, NEW r \in Requests, ResolveReturns(r)
  PROVE  HandlerInv'
<1> USE DEF ResolveReturns, Reads!Reply, served
<1>1. TypeOK /\ Placed(r) /\ SoundAnswer(r) /\ Backed(r)
  BY DEF HandlerInv
<1>2. Alone(r)
  BY <1>1 DEF Alone, TypeOK
<1>3. PICK a \in Reads!Failures \cup Reads!Successes(asked[r]) :
        answer' = [answer EXCEPT ![r] = a]
  OBVIOUS
<1>4. /\ a.err \in {"none", "failed", "cancelled"}
      /\ a \in [err : {"none", "failed", "cancelled"}, metadata : Reads!Served \cup {None}]
      /\ a.err = "none" =>
           /\ a.metadata \in Reads!Served
           /\ a.metadata.client = asked[r].client
           /\ a.metadata.asOf <= clock
           /\ asked[r].since - a.metadata.asOf < MaxAge
  BY DEF Reads!Failures, Reads!Successes, Reads!Acceptable
<1>5. TypeOK'
  BY <1>1, <1>3, <1>4 DEF TypeOK
<1>6. pc[r] = "resolve" /\ pc' = pc /\ answer[r] = None /\ answer'[r] = a
  BY <1>1, <1>3 DEF SoundAnswer, TypeOK
<1>7. Placed(r)' /\ SoundAnswer(r)'
  BY <1>1, <1>4, <1>6 DEF Placed, SoundAnswer, Authorizing
<1>8. Backed(r)'
  BY <1>1, <1>6 DEF Backed, Placed
<1>9. DynamicSlotsHeld'
  BY <1>2, SlotKept DEF Holding
<1>10. QED
  BY <1>2, <1>5, <1>6, <1>7, <1>8, <1>9, StepOfOne

LEMMA RedirectAcceptedKeeps ==
  ASSUME HandlerInv, NEW r \in Requests, RedirectAccepted(r)
  PROVE  HandlerInv'
<1> USE DEF RedirectAccepted, Proceed
<1>1. TypeOK /\ Placed(r) /\ SoundAnswer(r) /\ Backed(r)
  BY DEF HandlerInv
<1>2. Alone(r)
  BY <1>1 DEF Alone, TypeOK
<1>3. TypeOK'
  BY <1>1 DEF TypeOK, Places
<1>4. pc'[r] = "ensure"
  BY <1>1 DEF TypeOK
<1>5. Placed(r)' /\ SoundAnswer(r)' /\ Backed(r)'
  BY <1>1, <1>4 DEF Placed, SoundAnswer, Backed, Authorizing, RedirectListed, RedirectURIs
<1>6. DynamicSlotsHeld'
  BY <1>2, <1>4, SlotKept DEF Holding
<1>7. QED
  BY <1>2, <1>3, <1>4, <1>5, <1>6, StepOfOne

LEMMA EnsureKeeps ==
  ASSUME HandlerInv, NEW r \in Requests, EnsureCIMDClient(r)
  PROVE  HandlerInv'
<1> USE DEF EnsureCIMDClient, Proceed
<1>1. TypeOK /\ Placed(r) /\ SoundAnswer(r) /\ Backed(r)
  BY DEF HandlerInv
<1>2. Alone(r)
  BY <1>1 DEF Alone, TypeOK
<1> DEFINE listed == RedirectURIs(answer[r].metadata)
<1>3. route[r].client \in ClientIDs /\ route[r] \in Routes
  BY <1>1 DEF Placed, Authorizing, Routes
<1>4. answer[r].metadata \in Reads!Served
  BY <1>1 DEF Backed, SoundAnswer
<1>5. listed \in (SUBSET Redirects) \ {{}}
  BY <1>4, FacadeAssumption DEF RedirectURIs, Reads!Served, Reads!Moments
<1> HIDE DEF listed
<1>6. registered' = [registered EXCEPT ![route[r].client] = listed]
  BY DEF listed
<1>7. TypeOK'
  BY <1>1, <1>3, <1>5, <1>6 DEF TypeOK, Places
<1>8. pc'[r] = "proxy" /\ registered'[route[r].client] = listed
  BY <1>1, <1>3, <1>6 DEF TypeOK
<1>9. \A c \in ClientIDs : registered[c] # {} => registered'[c] # {}
  BY <1>1, <1>5, <1>6 DEF TypeOK
<1>10. Placed(r)' /\ SoundAnswer(r)' /\ Backed(r)'
  BY <1>1, <1>3, <1>8 DEF Placed, SoundAnswer, Backed, Authorizing, RedirectListed, RedirectURIs
<1>11. DynamicSlotsHeld'
  BY <1>2, <1>8, SlotKept DEF Holding
<1>12. QED
  BY <1>2, <1>5, <1>7, <1>8, <1>9, <1>10, <1>11, StepOfOne

LEMMA BodyAcceptedKeeps ==
  ASSUME HandlerInv, NEW r \in Requests, BodyAccepted(r)
  PROVE  HandlerInv'
<1> USE DEF BodyAccepted, Proceed
<1>1. TypeOK /\ Placed(r) /\ SoundAnswer(r) /\ Backed(r)
  BY DEF HandlerInv
<1>2. Alone(r)
  BY <1>1 DEF Alone, TypeOK
<1>3. TypeOK'
  BY <1>1 DEF TypeOK, Places
<1>4. pc'[r] = "proxy"
  BY <1>1 DEF TypeOK
<1>5. Placed(r)' /\ SoundAnswer(r)' /\ Backed(r)'
  BY <1>1, <1>4 DEF Placed, SoundAnswer, Backed, Authorizing
<1>6. DynamicSlotsHeld'
  BY <1>2, <1>4, SlotKept DEF Holding
<1>7. QED
  BY <1>1, <1>2, <1>3, <1>4, <1>5, <1>6, StepOfOne DEF Placed

LEMMA ReturnKeeps ==
  ASSUME HandlerInv, NEW r \in Requests, Return(r)
  PROVE  HandlerInv'
<1> USE DEF Return
<1>1. TypeOK /\ Placed(r) /\ SoundAnswer(r) /\ Backed(r)
  BY DEF HandlerInv
<1>2. Alone(r) /\ clock' = clock
  BY <1>1 DEF Alone, TypeOK, Reads!Leave
<1>3. Deferred(r) <=> Holding(r)
  BY <1>1 DEF Deferred, Holding
<1>4. ~Holding(r)'
  BY <1>1 DEF Holding, TypeOK
<1>5. dynamicSlots \in Int /\ dynamicSlots \in 0..DynamicConcurrency
  BY <1>1, FacadeAssumption DEF TypeOK
<1>6. DynamicSlotsHeld' /\ (Holding(r) => dynamicSlots > 0)
  BY <1>2, <1>3, <1>4, <1>5, SlotsCounted
<1>7. TypeOK'
  <2>1. dynamicSlots' \in 0..DynamicConcurrency
    BY <1>3, <1>5, <1>6, FacadeAssumption
  <2>2. /\ asked' \in [Requests -> Reads!Questions \cup {None}]
        /\ answer' \in [Requests ->
             [err : {"none", "failed", "cancelled"}, metadata : Reads!Served \cup {None}]
               \cup {None}]
    BY <1>1 DEF TypeOK, Reads!Leave
  <2>3. QED
    BY <2>1, <2>2, <1>1, <1>2 DEF TypeOK, Places, Outcomes
<1>8. pc'[r] = "idle" /\ outcome'[r] = "pending"
  BY <1>1 DEF TypeOK
<1>9. asked'[r] = None /\ answer'[r] = None
  BY <1>1 DEF TypeOK, SoundAnswer, Reads!Leave
<1>10. Placed(r)' /\ SoundAnswer(r)' /\ Backed(r)'
  BY <1>8, <1>9 DEF Placed, SoundAnswer, Backed
<1>11. QED
  BY <1>2, <1>6, <1>7, <1>8, <1>10, StepOfOne

LEMMA ServeKeeps ==
  ASSUME HandlerInv, NEW r \in Requests, Serve(r)
  PROVE  HandlerInv'
BY BeginKeeps, RespondingKeeps, ResolveReturnsKeeps, RedirectAcceptedKeeps, EnsureKeeps,
   BodyAcceptedKeeps, ReturnKeeps
   DEF Serve

-----------------------------------------------------------------------------
\* The environment of the handlers.

LEMMA EnvironmentKeeps ==
  ASSUME HandlerInv, Tick \/ \E c \in ClientIDs : OtherReplica(c)
  PROVE  HandlerInv'
<1>1. UNCHANGED <<asked, answer, route, pc, outcome, dynamicSlots>>
  BY DEF Tick, OtherReplica, Reads!Tick, served
<1>2. /\ clock \in 0..MaxTime /\ clock' \in 0..MaxTime /\ clock <= clock'
      /\ registered' \in [ClientIDs -> SUBSET Redirects]
      /\ \A c \in ClientIDs : registered[c] # {} => registered'[c] # {}
  <2>1. clock \in 0..MaxTime /\ registered \in [ClientIDs -> SUBSET Redirects]
    BY DEF HandlerInv, TypeOK
  <2>2. CASE Tick
    BY <2>1, <2>2, FacadeAssumption DEF Tick, Reads!Tick
  <2>3. ASSUME NEW c \in ClientIDs, OtherReplica(c)
        PROVE  /\ clock' = clock
               /\ registered' \in [ClientIDs -> SUBSET Redirects]
               /\ \A d \in ClientIDs : registered[d] # {} => registered'[d] # {}
    <3>1. PICK t \in 0..clock : registered' = [registered EXCEPT ![c] = Published[<<c, t>>]]
      BY <2>3 DEF OtherReplica
    <3>2. Published[<<c, t>>] \in (SUBSET Redirects) \ {{}}
      BY <3>1, <2>1, FacadeAssumption
    <3>3. QED
      BY <3>1, <3>2, <2>1, <2>3 DEF OtherReplica
  <2>4. QED
    BY <2>1, <2>2, <2>3, FacadeAssumption
<1>3. TypeOK'
  BY <1>1, <1>2 DEF HandlerInv, TypeOK
<1>4. ASSUME NEW r \in Requests
      PROVE  Placed(r)' /\ SoundAnswer(r)' /\ Backed(r)'
  <2>1. Placed(r) /\ SoundAnswer(r) /\ Backed(r)
    BY DEF HandlerInv
  <2>2. Placed(r)' /\ Backed(r)'
    BY <2>1, <1>1 DEF Placed, Backed, Authorizing, RedirectListed, RedirectURIs
  <2>3. answer[r] # None /\ answer[r].err = "none" => answer[r].metadata.asOf <= clock'
    <3>1. SUFFICES ASSUME answer[r] # None, answer[r].err = "none"
                   PROVE  answer[r].metadata.asOf <= clock'
      OBVIOUS
    <3>2. answer[r].metadata.asOf \in 0..MaxTime /\ answer[r].metadata.asOf <= clock
      BY <3>1, <2>1 DEF SoundAnswer, Reads!Served, Reads!Moments
    <3>3. QED
      BY <3>2, <1>2, FacadeAssumption
  <2>4. SoundAnswer(r)'
    BY <2>1, <2>3, <1>1 DEF SoundAnswer
  <2>5. QED
    BY <2>2, <2>4
<1>5. DynamicSlotsHeld'
  BY <1>1 DEF HandlerInv, DynamicSlotsHeld
<1>6. KnownToHydra'
  BY <1>1, <1>2 DEF HandlerInv, KnownToHydra, Placed, Routes
<1>7. QED
  BY <1>3, <1>4, <1>5, <1>6 DEF HandlerInv

LEMMA HandlersUnchanged ==
  ASSUME HandlerInv, UNCHANGED vars
  PROVE  HandlerInv'
BY DEF vars, served, HandlerInv, TypeOK, Placed, SoundAnswer, Backed, Authorizing,
       RedirectListed, RedirectURIs, DynamicSlotsHeld, KnownToHydra

LEMMA RestartKeeps ==
  ASSUME HandlerInv, Restart
  PROVE  HandlerInv'
<1> USE FacadeAssumption DEF Restart
<1>1. TypeOK'
  BY DEF HandlerInv, TypeOK, Places, Outcomes
<1>2. \A r \in Requests : Placed(r)' /\ SoundAnswer(r)' /\ Backed(r)'
  BY DEF Placed, SoundAnswer, Backed, Authorizing
<1>3. DynamicSlotsHeld'
  <2>1. {r \in Requests : /\ pc'[r] \notin {"idle", "begin"}
                          /\ route'[r].kind # "plain"
                          /\ outcome'[r] # "exhausted"} = {}
    OBVIOUS
  <2>2. QED
    BY <2>1, FS_EmptySet DEF DynamicSlotsHeld
<1>4. KnownToHydra'
  BY DEF KnownToHydra
<1>5. QED
  BY <1>1, <1>2, <1>3, <1>4 DEF HandlerInv

-----------------------------------------------------------------------------
\* The process.

LEMMA ProcessInitInv == ProcessInit => ProcessInv
<1> SUFFICES ASSUME ProcessInit PROVE ProcessInv
  OBVIOUS
<1>1. HandlerInv
  BY InitHandler DEF ProcessInit
<1>2. ProcessTypeOK /\ LifecycleInv
  BY <1>1 DEF ProcessInit, HandlerInv, ProcessTypeOK, LifecycleInv, SuccessIsTrue
<1>3. QED
  BY <1>1, <1>2 DEF ProcessInv

\* The steps of main and of the server leave the handlers alone.
LEMMA RunKeeps ==
  ASSUME ProcessInv, Run \/ Goroutine \/ Signal \/ Killed
  PROVE  ProcessInv'
<1> USE DEF Exit, Returns, Sent, ExitOfServer, Running, ShuttingDown
<1>1. UNCHANGED vars
  BY DEF Run, Goroutine, Signal, Killed, Configure, ConfigureFailed, SelectServerError,
         SelectSignal, ShutdownDone, ShutdownDeadline, Receive, Listen, ListenFailed,
         ListenRefused, AcceptFailed, Closed
<1>2. HandlerInv'
  BY <1>1, HandlersUnchanged DEF ProcessInv
<1>3. UNCHANGED pc
  BY <1>1 DEF vars, served
<1>4. TypeOK'
  BY <1>2 DEF HandlerInv
<1>5. CASE Run
  <2> USE DEF ProcessInv, ProcessTypeOK, LifecycleInv, SuccessIsTrue
  <2>1. CASE Configure \/ ConfigureFailed
    BY <1>2, <1>3, <1>4, <2>1 DEF Configure, ConfigureFailed
  <2>2. CASE SelectServerError \/ SelectSignal
    BY <1>2, <1>3, <1>4, <2>2 DEF SelectServerError, SelectSignal
  <2>3. CASE ShutdownDone \/ ShutdownDeadline
    BY <1>2, <1>3, <1>4, <2>3 DEF ShutdownDone, ShutdownDeadline
  <2>4. CASE Receive
    BY <1>2, <1>3, <1>4, <2>4 DEF Receive
  <2>5. QED
    BY <1>5, <2>1, <2>2, <2>3, <2>4 DEF Run
<1>6. CASE Goroutine
  BY <1>2, <1>3, <1>4, <1>6
     DEF ProcessInv, ProcessTypeOK, LifecycleInv, SuccessIsTrue,
         Goroutine, Listen, ListenFailed, ListenRefused, AcceptFailed, Closed
<1>7. CASE Signal \/ Killed
  BY <1>2, <1>3, <1>4, <1>7
     DEF ProcessInv, ProcessTypeOK, LifecycleInv, SuccessIsTrue,
         Signal, Killed
<1>8. QED
  BY <1>5, <1>6, <1>7

\* A handler can only move while the process runs and has something to serve.
LEMMA HandlerStepKeeps ==
  ASSUME ProcessInv, NEW r \in Requests, ProcessArrive(r) \/ ProcessServe(r)
  PROVE  ProcessInv'
<1> USE DEF ProcessInv
<1>1. HandlerInv'
  BY ArriveKeeps, ServeKeeps DEF ProcessArrive, ProcessServe
<1>2. TypeOK'
  BY <1>1 DEF HandlerInv
<1>3. UNCHANGED lifecycle /\ main # "exited"
  BY DEF ProcessArrive, ProcessServe, Running
<1>4. main # "receive"
  <2>1. SUFFICES ASSUME main = "receive" PROVE FALSE
    OBVIOUS
  <2>2. pc[r] = "idle" /\ server # "listening"
    BY <2>1 DEF LifecycleInv
  <2>3. asked[r] = None
    BY <2>2 DEF HandlerInv, SoundAnswer
  <2>4. ~Serve(r)
    BY <2>2, <2>3 DEF Serve, BeginAuthorize, BeginRegister, beginDynamic, Exhausted, ResolveReturns,
                 Reads!Reply, ResolveFailed, RedirectRefused, RedirectAccepted,
                 EnsureCIMDClient, EnsureFailed, BodyAccepted, BodyRefused, Proxied,
                 ProxyFailed, Return
  <2>5. ~Accepts
    BY <2>1, <2>2 DEF Accepts
  <2>6. QED
    BY <2>4, <2>5 DEF ProcessArrive, ProcessServe
<1>5. exit = "running"
  BY <1>3 DEF ProcessTypeOK
<1>6. ProcessTypeOK' /\ LifecycleInv'
  BY <1>2, <1>3, <1>4, <1>5
     DEF lifecycle, ProcessTypeOK, LifecycleInv, SuccessIsTrue
<1>7. QED
  BY <1>1, <1>6

LEMMA ProcessNextInv == ProcessInv /\ [ProcessNext]_processVars => ProcessInv'
<1> SUFFICES ASSUME ProcessInv, [ProcessNext]_processVars PROVE ProcessInv'
  OBVIOUS
<1>1. CASE Run \/ Goroutine \/ Signal \/ Killed
  BY <1>1, RunKeeps
<1>2. CASE Restart
  <2>1. HandlerInv'
    BY <1>2, RestartKeeps DEF ProcessInv
  <2>2. ProcessTypeOK' /\ LifecycleInv'
    BY <1>2, <2>1 DEF Restart, HandlerInv, ProcessTypeOK, LifecycleInv, SuccessIsTrue
  <2>3. QED
    BY <2>1, <2>2 DEF ProcessInv
<1>3. CASE \E r \in Requests : ProcessArrive(r) \/ ProcessServe(r)
  BY <1>3, HandlerStepKeeps
<1>4. CASE Environment
  <2>1. HandlerInv'
    BY <1>4, EnvironmentKeeps DEF Environment, ProcessInv
  <2>2. UNCHANGED <<lifecycle, pc>>
    BY <1>4 DEF Environment, Tick, OtherReplica, served
  <2>3. ProcessTypeOK' /\ LifecycleInv'
    BY <2>1, <2>2 DEF ProcessInv, HandlerInv, lifecycle, ProcessTypeOK, LifecycleInv,
                      SuccessIsTrue
  <2>4. QED
    BY <2>1, <2>3 DEF ProcessInv
<1>5. CASE UNCHANGED processVars
  <2>1. UNCHANGED vars /\ UNCHANGED lifecycle /\ UNCHANGED pc
    BY <1>5 DEF processVars, vars, served
  <2>2. HandlerInv'
    BY <2>1, HandlersUnchanged DEF ProcessInv
  <2>3. ProcessTypeOK' /\ LifecycleInv'
    BY <2>1, <2>2 DEF ProcessInv, HandlerInv, lifecycle, ProcessTypeOK, LifecycleInv,
                      SuccessIsTrue
  <2>4. QED
    BY <2>2, <2>3 DEF ProcessInv
<1>6. QED
  BY <1>1, <1>2, <1>3, <1>4, <1>5 DEF ProcessNext

LEMMA ProcessAlways == ProcessSpec => []ProcessInv
BY ProcessInitInv, ProcessNextInv, PTL DEF ProcessSpec

\* The state of the facade stays well-typed, and the tokens in the channel are the
\* dynamic requests under way, through shutdowns, crashes and restarts (handler.go).
THEOREM SlotsStayCounted == ProcessSpec => [](ProcessTypeOK /\ DynamicSlotsHeld)
<1>1. ProcessInv => ProcessTypeOK /\ DynamicSlotsHeld
  BY DEF ProcessInv, HandlerInv
<1>2. QED
  BY <1>1, ProcessAlways, PTL

\* What handleAuthorize passes on is backed by a fresh document of the client.
THEOREM PassedIsBacked == ProcessSpec => [](PassedRedirect /\ KnownToHydra)
<1>1. ProcessInv => PassedRedirect
  <2> SUFFICES ASSUME ProcessInv, NEW r \in Requests, outcome[r] = "passed",
                      route[r].kind = "authorize"
               PROVE  \E t \in 0..clock : /\ asked[r].since - t < MaxAge
                                         /\ route[r].redirect \in Published[<<route[r].client, t>>]
    BY DEF PassedRedirect
  <2> DEFINE t == answer[r].metadata.asOf
  <2>1. Backed(r) /\ SoundAnswer(r)
    BY DEF ProcessInv, HandlerInv
  <2>2. answer[r] # None /\ answer[r].err = "none" /\ RedirectListed(r)
    BY <2>1 DEF Backed, Authorizing
  <2>3. /\ t <= clock /\ asked[r].since - t < MaxAge
        /\ answer[r].metadata.client = route[r].client
        /\ answer[r].metadata \in Reads!Served
    BY <2>1, <2>2 DEF SoundAnswer
  <2>4. t \in 0..clock
    <3>1. t \in 0..MaxTime /\ clock \in 0..MaxTime
      BY <2>3 DEF ProcessInv, HandlerInv, TypeOK, Reads!Served, Reads!Moments
    <3>2. QED
      BY <3>1, <2>3, FacadeAssumption
  <2>5. QED
    BY <2>2, <2>3, <2>4 DEF RedirectListed, RedirectURIs
<1>2. ProcessInv => KnownToHydra
  BY DEF ProcessInv, HandlerInv
<1>3. QED
  BY <1>1, <1>2, ProcessAlways, PTL

\* run() reports success only when every admitted request was answered and the
\* server ended by a shutdown (main.go).
THEOREM ExitsTellTheTruth == ProcessSpec => []SuccessIsTrue
<1>1. ProcessInv => SuccessIsTrue
  BY DEF ProcessInv, LifecycleInv
<1>2. QED
  BY <1>1, ProcessAlways, PTL

=============================================================================
