--------------------------- MODULE DocumentReads ---------------------------
(***************************************************************************)
(* What the resolver of client metadata documents promises its callers,    *)
(* with no cache, no calls in flight, no rate limit and no slots: a call   *)
(* of Resolve that started at some time ends in an error or in a document  *)
(* of the client asked for, one that its origin served after the call      *)
(* started or less than MaxAge before.                                     *)
(***************************************************************************)
EXTENDS Integers

CONSTANTS
  Readers,        \* callers of Resolve
  ClientIDs,      \* URL-form client ids
  None,           \* no question, no answer, no document
  MaxAge,         \* bound on the age of a document when the call starts
  MaxTime         \* bound of the model: the clock stops here

Moments == 0..MaxTime
Served == [client : ClientIDs, asOf : Moments]
Questions == [client : ClientIDs, since : Moments]
Failures == [err : {"failed", "cancelled"}, metadata : {None}]

VARIABLES
  clock,
  asked,          \* the question of each reader inside Resolve
  answer          \* what Resolve has returned to it

readVars == <<clock, asked, answer>>

Init ==
  /\ clock = 0
  /\ asked = [p \in Readers |-> None]
  /\ answer = [p \in Readers |-> None]

Ask(p, c) ==
  /\ asked[p] = None
  /\ asked' = [asked EXCEPT ![p] = [client |-> c, since |-> clock]]
  /\ UNCHANGED <<clock, answer>>

Acceptable(question) ==
  {d \in Served :
     /\ d.client = question.client
     /\ d.asOf <= clock
     /\ question.since - d.asOf < MaxAge}

Successes(question) == {[err |-> "none", metadata |-> d] : d \in Acceptable(question)}

Reply(p) ==
  /\ asked[p] # None
  /\ answer[p] = None
  /\ \E a \in Failures \cup Successes(asked[p]) : answer' = [answer EXCEPT ![p] = a]
  /\ UNCHANGED <<clock, asked>>

Leave(p) ==
  /\ answer[p] # None
  /\ asked' = [asked EXCEPT ![p] = None]
  /\ answer' = [answer EXCEPT ![p] = None]
  /\ UNCHANGED clock

Tick ==
  /\ clock < MaxTime
  /\ clock' = clock + 1
  /\ UNCHANGED <<asked, answer>>

Next ==
  \/ Tick
  \/ \E p \in Readers : (\E c \in ClientIDs : Ask(p, c)) \/ Reply(p) \/ Leave(p)

Spec == Init /\ [][Next]_readVars

=============================================================================
