------------------------------- MODULE Gateway -------------------------------
(***************************************************************************)
(* The gateway's rules from the sources to a request.  The developers      *)
(* change the contract and routes.yml, cmd/generate-oathkeeper-rules       *)
(* writes rules.yml (which may fail half-way) or checks it, a deployment   *)
(* takes the file as it is, and Oathkeeper decides the requests by it.     *)
(*                                                                         *)
(* The deployment and Oathkeeper are external: Oathkeeper is modelled as   *)
(* the rules and src/config/oathkeeper/oathkeeper.yml use it.              *)
(***************************************************************************)
EXTENDS GatewayRules, FiniteSets

CONSTANTS
  Sources,      \* what the sources may be: contract and routes
  Initial,      \* what they are at first
  HTTPMethods,  \* methods of requests
  Origins,      \* origins of requests
  Paths,        \* paths of requests
  None,
  MaxEdits,     \* bound of the model: how often the sources change
  Cuts          \* bound of the model: the rules a failed write may leave

\* A request has a path, and the names of services and methods, which the generator
\* quotes, stand for themselves only.
ASSUME GatewayAssumption ==
  /\ Initial \in Sources /\ MaxEdits \in Nat /\ Cuts \subseteq Nat
  /\ \A path \in Paths : path \in Seq(ToSet(path))
  /\ None \notin [method : HTTPMethods, origin : Origins, path : Paths]
  /\ \A s \in Sources : \A method \in DOMAIN s.contract :
       method = <<method[1], method[2]>> /\ OneSegment \notin {method[1], method[2]}

VARIABLES
  sources, edits,
  step,         \* whether the generator is writing
  result,       \* how its last run ended, or "deployed"
  file,         \* rules.yml: what it was generated from, and how many rules it has
  deployed,     \* the file the gateway has read
  request,      \* the request the gateway is handling
  matched,      \* the rules that match it
  answer        \* what became of it

development == <<sources, edits, step, result, file, deployed>>
serving == <<request, matched, answer>>
vars == <<development, serving>>

\* The first n rules of what is generated from the sources.
Written(from, n) == [from |-> from, rules |-> n]
Whole(from) == Written(from, Len(generateRules(from)))
Contents(theFile) == SubSeq(generateRules(theFile.from), 1, theFile.rules)

Init ==
  /\ sources = Initial /\ edits = 0 /\ step = "idle" /\ result = "none"
  /\ file = None /\ deployed = None
  /\ request = None /\ matched = {} /\ answer = None

-----------------------------------------------------------------------------
\* The generator.

Idle == step = "idle" /\ request = None

Edit ==
  /\ Idle /\ edits < MaxEdits
  /\ sources' \in Sources
  /\ edits' = edits + 1
  /\ result' = "none"
  /\ UNCHANGED <<step, file, deployed, serving>>

\* Routes or roles are refused before anything is written.
Refuse ==
  /\ Idle
  /\ ~Accepted(sources)
  /\ result' = "failed"
  /\ UNCHANGED <<sources, edits, step, file, deployed, serving>>

\* os.WriteFile truncates the file, then writes it.
BeginWrite ==
  /\ Idle
  /\ Accepted(sources)
  /\ step' = "write" /\ result' = "none"
  /\ file' = Written(sources, 0)
  /\ UNCHANGED <<sources, edits, deployed, serving>>

WriteRules ==
  /\ step = "write"
  /\ step' = "idle" /\ result' = "written"
  /\ file' = Whole(sources)
  /\ UNCHANGED <<sources, edits, deployed, serving>>

\* The write fails, or the program is killed during it.  A file that ends within a
\* rule stands for one that ends before it.
WriteFailed ==
  /\ step = "write"
  /\ \E n \in Cuts : n < Whole(sources).rules /\ file' = Written(sources, n)
  /\ step' = "idle" /\ result' = "failed"
  /\ UNCHANGED <<sources, edits, deployed, serving>>

UpToDate == file = Whole(sources)

CheckRules ==
  /\ Idle
  /\ Accepted(sources)
  /\ result' = IF UpToDate THEN "current" ELSE "failed"
  /\ UNCHANGED <<sources, edits, step, file, deployed, serving>>

\* A deployment regenerates and takes the file itself (routes.yml:2 to 6): nothing of
\* the repository has it check the file before, so it takes whatever there is, also a
\* file that was cut off or whose sources have changed since.
Deploy ==
  /\ Idle /\ file # None
  /\ deployed' = file
  /\ result' = "deployed"
  /\ UNCHANGED <<sources, edits, step, file, serving>>

-----------------------------------------------------------------------------
\* Oathkeeper.

SegmentMatches(pattern, segment) ==
  pattern = segment \/ (pattern = OneSegment /\ segment # "")

\* The whole URL must match the expression.
Matches(pattern, origin, path) ==
  /\ pattern.origin = origin
  /\ IF pattern.open THEN Len(path) > Len(pattern.path) ELSE Len(path) = Len(pattern.path)
  /\ \A i \in DOMAIN pattern.path : SegmentMatches(pattern.path[i], path[i])

MatchingRules(rules, asked) ==
  {rule \in ToSet(rules) :
     /\ asked.method \in rule.methods
     /\ \E pattern \in rule.match : Matches(pattern, asked.origin, asked.path)}

\* The people, by the session their cookie stands for; the id of one session is
\* not what the templates expect.  Tokens of the authorization server likewise.
Persons == {"user", "author", "admin"}
Tokens == {"author token", "reader token", "malformed token"}
Cookies == Persons \cup {"none", "expired", "malformed session"}
Bearers == Tokens \cup {"none", "foreign token"}

Credentials ==
  (Cookies \X {"none"}) \cup ({"none", "user"} \X Bearers)

Responsible(authenticator, cookie, bearer) ==
  CASE authenticator = "anonymous" -> bearer = "none"
    [] authenticator = "cookie_session" -> cookie # "none"
    [] authenticator = "oauth2_introspection" -> bearer # "none"
    [] authenticator = "unauthorized" -> TRUE

\* Whom an authenticator takes the caller for.
Identify(authenticator, cookie, bearer) ==
  CASE authenticator = "anonymous" -> "anonymous"
    [] authenticator = "cookie_session" /\ cookie # "expired" -> cookie
    [] authenticator = "oauth2_introspection" /\ bearer # "foreign token" -> bearer
    [] OTHER -> "nobody"

\* The first authenticator that feels responsible decides.
Deciding(rule, cookie, bearer) ==
  {i \in DOMAIN rule.authenticators :
     \A j \in 1..i : Responsible(rule.authenticators[j], cookie, bearer) <=> j = i}

Subject(rule, cookie, bearer) ==
  IF Deciding(rule, cookie, bearer) = {}
    THEN "nobody"
    ELSE Identify(rule.authenticators[CHOOSE i \in Deciding(rule, cookie, bearer) : TRUE],
                  cookie, bearer)

Holds(subject, role) ==
  CASE role = "AUTHOR" -> subject \in {"author", "admin"}
    [] role = "ADMIN" -> subject = "admin"
    [] role = "MCP author" -> subject \in {"author token", "malformed token"}

Authorizes(rule, subject) ==
  CASE rule.authorizer = Allow -> TRUE
    [] rule.authorizer = Deny -> FALSE
    [] OTHER -> Holds(subject, rule.authorizer.role)

\* The header templates fail for what is not well-formed.
CanMutate(rule, subject) ==
  CASE rule.mutator = "header" -> subject # "malformed session"
    [] rule.mutator = "mcp header" -> subject # "malformed token"
    [] OTHER -> TRUE

\* The session header; the caller may have sent one of his own.
SessionHeader(rule, subject) ==
  CASE rule.mutator = "header" -> IF subject = "anonymous" THEN "" ELSE subject
    [] rule.mutator = "mcp header" -> ""
    [] OTHER -> "the caller's"

\* Only the deployed file counts, so it is enough to receive right after deployments.
Receive ==
  /\ Idle /\ result = "deployed"
  /\ LET rules == Contents(deployed)
     IN \E asked \in [method : HTTPMethods, origin : Origins, path : Paths] :
          /\ request' = asked
          /\ matched' = MatchingRules(rules, asked)
  /\ UNCHANGED <<development, answer>>

Stripped(path, prefix) ==
  IF IsPrefix(prefix, path) THEN SubSeq(path, Len(prefix) + 1, Len(path)) ELSE path

Answer(what) ==
  /\ answer' = what
  /\ UNCHANGED <<development, request, matched>>

\* No rule or more than one.
Unmatched ==
  /\ request # None /\ answer = None
  /\ Cardinality(matched) # 1
  /\ Answer([delivered |-> FALSE])

Allowed(rule, subject) ==
  subject # "nobody" /\ Authorizes(rule, subject) /\ CanMutate(rule, subject)

Denied(cookie, bearer) ==
  /\ request # None /\ answer = None
  /\ \E rule \in matched :
       matched = {rule} /\ ~Allowed(rule, Subject(rule, cookie, bearer))
  /\ Answer([delivered |-> FALSE])

Deliver(cookie, bearer) ==
  /\ request # None /\ answer = None
  /\ \E rule \in matched :
       LET subject == Subject(rule, cookie, bearer)
           scrubbed == rule.mutator # "noop"
       IN /\ matched = {rule} /\ Allowed(rule, subject)
          /\ Answer([delivered |-> TRUE, upstream |-> rule.upstream, subject |-> subject,
                     path |-> Stripped(request.path, rule.strip),
                     credentials |-> IF scrubbed THEN {} ELSE {cookie, bearer} \ {"none"},
                     session |-> SessionHeader(rule, subject)])

Finish ==
  /\ answer # None
  /\ request' = None /\ matched' = {} /\ answer' = None
  /\ UNCHANGED development

Next ==
  \/ Edit \/ Refuse \/ BeginWrite \/ WriteRules \/ WriteFailed \/ CheckRules \/ Deploy
  \/ Receive \/ Unmatched \/ Finish
  \/ \E held \in Credentials : Denied(held[1], held[2]) \/ Deliver(held[1], held[2])

Spec == Init /\ [][Next]_vars

-----------------------------------------------------------------------------
TypeOK ==
  /\ sources \in Sources /\ edits \in 0..MaxEdits
  /\ step \in {"idle", "write"}
  /\ result \in {"none", "failed", "written", "current", "deployed"}
  /\ \A f \in {file, deployed} \ {None} : f.from \in Sources /\ f.rules <= Whole(f.from).rules
  /\ deployed # None =>
       \A method \in DOMAIN deployed.from.contract :
         deployed.from.contract[method] \in Roles \cup {"absent"}
  /\ request \in [method : HTTPMethods, origin : Origins, path : Paths] \cup {None}
  /\ request = None => matched = {} /\ answer = None

Routes == deployed.from.routes
Contract == deployed.from.contract

Answered == answer # None /\ answer.delivered

\* The whole file has been deployed, not the first rules of it.
WholeFile == deployed = Whole(deployed.from)

\* Never do two rules match one request, which Oathkeeper refuses with an error
\* whatever the rules say: static rules against each other, methods of one role
\* against those of another, and whatever the contract or the routes become.  And by
\* a whole file a call of a method of the contract it was generated from always has a
\* rule, on both origins.
OneRule ==
  /\ Cardinality(matched) <= 1
  /\ /\ request # None /\ request.method = "POST"
     /\ request.origin \in {Routes.api, Routes.apiInternal}
     /\ \E method \in MethodsOf(Contract) : request.path = RPC \o <<"api.manage.v1">> \o method
     /\ WholeFile
     => matched # {}

\* A manage call that arrives is of somebody who holds the very role that the contract
\* the deployed file was generated from declares for that method of that service; a
\* method of the same name in another service, or another method of the same service,
\* passes on nothing.  (That the contract has not changed since, no code makes sure.)
DeclaredRole ==
  Answered /\ answer.path[1] = "api.manage.v1" /\ request.method = "POST" =>
    LET method == <<answer.path[2], answer.path[3]>>
    IN /\ method \in MethodsOf(Contract)
       /\ answer.subject \in
            (CASE Contract[method] = "USER" -> Persons
               [] Contract[method] = "AUTHOR" -> {"author", "admin"}
               [] Contract[method] = "ADMIN" -> {"admin"})

\* The generator writes the file in place and may fail or be killed while it does: a
\* file that was cut off lets nobody through whom the whole file would not, nor by
\* another rule; it only refuses more.  No rule that comes later in the file, a denying
\* one or one that asks for more, is needed to hold back what an earlier one matches.
CutOffOnlyDenies ==
  request # None /\ matched # {} =>
    matched = MatchingRules(generateRules(deployed.from), request)

\* "Only RPC matchers admit this origin" (routes.yml): over the internal origin
\* nothing arrives but calls of the open and manage APIs.
InternalOriginIsRPCOnly ==
  Answered /\ request.origin \notin {Routes.api, Routes.auth, Routes.collab} =>
    /\ request.origin = Routes.apiInternal
    /\ request.method = "POST"
    /\ answer.path[1] \in {"api.open.v1", "api.manage.v1"}

\* What a browser may call from another origin it may ask about first: each path
\* that a rule of the API, of uploads or of authentication lets through has a
\* preflight rule in a whole file, and it asks for nothing.  Nobody asks on the internal
\* origin, so this needs that the authentication routes are not served there.
PreflightForEveryRoute ==
  request # None /\ answer = None /\ request.path[1] \in {"api", "mcp"}
    /\ request.origin \in {Routes.api} \cup ({Routes.auth} \ {Routes.apiInternal})
    /\ request.method # "OPTIONS"
    /\ (\E rule \in matched : rule.authorizer # Deny) /\ WholeFile =>
    \E rule \in MatchingRules(Contents(deployed), [request EXCEPT !.method = "OPTIONS"]) :
      rule.authenticators = Anonymous /\ rule.authorizer = Allow

\* Outside the authentication routes no upstream sees a cookie or a token, and the
\* session header names the session that was checked or is empty, whatever the
\* caller has sent.
UpstreamSeesNoCredentials ==
  Answered /\ ~IsPrefix(Auth, request.path) =>
    /\ answer.credentials = {}
    /\ answer.session \in {"", answer.subject}

\* The API upstream can tell from the path it is given what was checked, although the
\* prefixes of the rules are stripped: what comes on the paths of the manage API and of
\* uploads is of somebody with a session, what comes on mcp of an author's token, and
\* nothing comes on the paths of the internal API.
UpstreamPathTellsTheChecks ==
  Answered /\ answer.upstream = Routes.apiUpstream /\ request.method # "OPTIONS"
    /\ request.path[1] # "collab" =>
    /\ answer.path[1] \in {"api.manage.v1", "upload"} => answer.subject \in Persons
    /\ answer.path = <<"mcp">> => answer.subject = "author token"
    /\ answer.path[1] # "api.intra.v1"

=============================================================================
