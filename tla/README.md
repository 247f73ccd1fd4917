# Verification of geul-identity in TLA+

The repository holds the identity layer of a product: a gateway (Oathkeeper)
with generated rules, an identity provider (Kratos) with its flows, an OAuth
server (Hydra), a relationship store (SpiceDB), and programs of its own: the
**MCP OAuth facade**, that stands between MCP clients and Hydra, the **generator**
of the gateway's rules, and the **renderer** of its configuration. The
specifications are about these three; what they talk to is modelled as they use it.

- [The system](#the-system)
- [The modules and the code](#the-modules-and-the-code)
- [What the runs show](#what-the-runs-show)
- [Fairness](#fairness)
- [What is proved](#what-is-proved)
- [What is only model-checked](#what-is-only-model-checked)
- [Where the code and its words disagree](#where-the-code-and-its-words-disagree)
- [What is not modelled](#what-is-not-modelled)
- [Plan](#plan)

## The system

| component | code | state | operations | what is hard | what makes it correct |
|---|---|---|---|---|---|
| Metadata resolver | `internal/mcpoauth/metadata_resolver.go` | cache with expiry, calls in flight, last fetch per host (all under one mutex), eight fetch slots (a channel) | `Resolve` | callers share a fetch and may each be cancelled; the clock is read before the mutex; entries expire while calls run; both tables evict | one fetch per client at a time, nobody waits for ever, slots and tables keep their limits, only fresh documents of the right client, never an older one after a newer one |
| Hydra client synchronisation | `hydra_clients.go` | 32 mutexes per process; the clients are in Hydra | `EnsureCIMDClient` (GET, then POST or PUT, or neither; after a conflict GET and PUT) | several replicas without a common lock; an operator; calls that time out and are applied later | success means that Hydra held the client; a lost race is resolved; foreign clients stay as they are |
| Request handlers | `handler.go`, `proxy_transport.go` | 32 dynamic slots (a channel that never blocks) | authorize, token, revoke, register, manage a registration, discovery, JWKS | the steps of one request are separated by other requests and other replicas | slots come back; Hydra only passes on what a fresh document lists; an answer for everyone |
| Protocol input | `handler.go`, `client_metadata.go` | none | the checks at the start of the handlers | repeated, empty and contradictory parameters; the second pass of an authorization after login | what is forwarded means what was checked |
| Client metadata | `client_metadata.go` | none | `normalizeClientMetadata` and its checks | runs when a document is fetched and again before it is synchronised | the second time changes nothing |
| Metadata HTTP client | `metadata_resolver.go:243-345` | none | `safeDialContext` | a name with several addresses, in several notations; addresses that do not answer | connects to public addresses only, and to none if one of the name's is not |
| Facade process | `cmd/mcp-oauth-facade/main.go` | two channels, the listener | configure, listen, signal, shut down with a deadline | a signal before the server listens or while it fails; requests under way at the deadline | ends when told to; reports success only if all it admitted was answered and nothing failed |
| Proxy and discovery | `proxy_transport.go`, `handler.go`, `contract.go` | none | `proxy`, the rewriting of a registration's answer, the two documents | an answer that is refused after its headers were copied; documents written by hand | credentials only where needed; a registration can be managed; what is advertised is served |
| Gateway configuration | `internal/oathkeeperconfig/render.go` | two files | `Render` | failure between the two files | no reader sees a half-written file |
| Gateway rules | `internal/oathkeeperrules/generator.go`, `config/oathkeeper/` | `rules.yml` | write, check | overlap of match patterns; a write in place that fails; sources that change | no request matches two rules; who gets through is who the contract of the deployed rules names; a file that was cut off only refuses more |
| Identity flows | `config/kratos/kratos.yml` | sessions, identities (in Kratos) | registration, login, settings and their hooks | the order of hooks | |
| Relationships | `config/spicedb/schema.generated.zed` | relationships (in SpiceDB) | permissions | recursion through groups | |

How they interact. A handler takes a dynamic slot, calls `Resolve`, compares the
redirect URI with the document, calls `EnsureCIMDClient`, and passes the request
on to Hydra's public port. `Resolve` fetches a document from the client's own
origin through `safeDialContext`. `EnsureCIMDClient` uses Hydra's admin port,
which other replicas of the facade and operators use too. The handlers share the
resolver, the manager and the slots within a process; replicas share nothing but
Hydra. The process starts the handlers and, when it is told to stop, waits for
them. The generator turns the contract's access roles and `routes.yml` into
`rules.yml`; the renderer fills the origins and names of a deployment into the
rules and `oathkeeper.yml`; the gateway decides every request by them.

`PROJECT.json` lists under "hazards" what can go wrong in this code that a test
would hardly reach, each at its line, with the properties that cover it.

## The modules and the code

```
 DocumentReads  <---implements---  ResolverReads ---+
      ^                                              \
      | INSTANCE                                      MetadataResolver --- ResolverHistory
   Facade  (EnsureCIMDClient as one step)
      |
 FacadeProcess  (the process around the handlers)

 ClientRegistrations  <---implements---  HydraRegistrations --- HydraClients --- HydraClientsHistory

 ProtocolInput (decides the route a request takes in Facade, and what is sent)
      |     \
      |      Discovery --- Proxy
   Checks --- ClientMetadata --- ClientDocuments --- CacheControl
      |                                     \
 GatewayRules --- Gateway                    MetadataDial

 RenderConfig (a program of its own)
```

A module below or right of another EXTENDS it or is extended by it; proofs are in
`MetadataResolverProofs`, `HydraClientsProofs`, `FacadeProofs`, `ChecksProofs`,
`ProtocolInputProofs`, `ClientDocumentsProofs`, `GatewayProofs` and
`RenderConfigProofs`; `MC*` are the instances for TLC.

**MetadataResolver** is `Resolve`. A section under the mutex is one step:
`Lookup` is lines 79 to 101 with its four outcomes `Hit`, `Join`, `RateLimited`
and `Lead`, and `Publish` is lines 111 to 120. Between them a leader takes a
slot or gives up (`AcquireSlot`, `AbandonSlot`, the `select` of lines 103 to
109), and its fetch ends (`FetchAnswered`, `FetchFailed`). `BeginResolve` reads
the clock, as line 76 does before the mutex is taken; the reading is kept in
`start`. A document is told apart by the client it names and by the time its
request was sent (`asOf`), which is all the properties compare. The lifetimes
are an input, those that an overflowing `max-age` gives included. Map iteration
has no order, so an eviction is a *set* of tables it may leave.
`ResolverHistory` adds variables that observe what callers were given and with
which clock readings fetches were admitted.

**DocumentReads** is what the resolver promises: a call ends in an error or in a
document of the client asked for, served after the call began or less than
`MaxAge` before. It has no cache, no sharing and no limits. **ResolverReads**
maps the state of the resolver to it, with `MaxAge` being the maximum lifetime
plus the timeout of a fetch.

**HydraClients** is `EnsureCIMDClient` in several requests of several replicas,
with one step per call to Hydra. Hydra itself is the function `hydra` and the
two rules in `Accepts` (POST answers 409 for what exists, PUT 404 for what does
not), read off `create` and `put`. A call that fails at the caller's end may
still be applied later (`Abandoned`, then `LateWrite` or `LateLost`), and an
operator may change any client (`Operator`); these are the trouble that
`MaxTrouble` bounds. **HydraClientsHistory** observes what Hydra has held while
a call was running.

**ClientRegistrations** is what `EnsureCIMDClient` promises, to its callers and to
Hydra: a call registers its client in one step, or fails and may be followed by one
write. It has no locks, no lookups and no conflicts. **HydraRegistrations** maps the
state of the synchronisation to it. The step of `Facade` and its failure are those of
`ClientRegistrations`.

**Facade** is the handlers as processes: `beginDynamic` or 503, then for an
authorization of a URL-form client `Resolve` (as an `INSTANCE` of
`DocumentReads`), the comparison of the redirect URI, `EnsureCIMDClient` (one
step, or an error) and the proxied call; for a registration the body (refused or
not: content type, size, decoding, client id, normalisation) and the proxied
call. `Return` runs the deferred `endDynamic`. Another replica may register any
document the client has published so far, at any time. `HydraPasses` is what
Hydra does with an authorization: it passes it on to login if the client is
registered with the redirect URI.

**FacadeProcess** is `run` of `main.go` around these handlers: `Configure`, the
`select` over `serverErrors` and the signal, `Shutdown` (which ends when the
listener is closed and every handler is done, or at its deadline) and the last
receive; the goroutine of `ListenAndServe` with its single send, on whichever way
it returns; signals and kills at any moment, and a restart, after which the
process has no slots and no requests while Hydra keeps its clients.

**ProtocolInput** is one request from its parameters to its answer. The checks of
the handlers are in the order of the code, over requests that differ in a few
parameters from valid ones; a parameter is the sequence of its values, as in
`url.Values`. A verifier may be forged, and an id of Hydra's a dot segment. The verdict is an error code or the route in `Facade` and what is
sent; `Forward` and `Answer` are the two halves of `proxy`. **Proxy** has what the
facade copies in either direction, the headers it sets, the answers it refuses
and the rewriting of a registration (headers are functions from names to values, a
value names who has set it). **Discovery** has the routes and the two documents.

**ClientMetadata** is `normalizeClientMetadata` and its helpers as operators: the
error, or the normalised metadata. A field is a token for the strings the checks
tell apart, and what one failed check answers is the first in the order of the
code (`Checks`). **CacheControl** is `metadataCacheTTL`, with integers modulo
`Modulus` and seconds of `Second` units, so that the multiplication wraps as it
does modulo 2^64 with nanoseconds; a header is a sequence of at most `MaxDirectives`
directives. **ClientDocuments** takes metadata through both on
the three ways into the facade: `Register`, `Update` (both to Hydra at once), and
`Fetch` followed by `Synchronise`, in which `EnsureCIMDClient` normalises again
what the resolver has already normalised. Before a `Fetch` the connection is made
as **MetadataDial** has it: `safeDialContext` resolves once, checks every address
(its class, and whether it is written as an IPv4-mapped one) and dials those it
has checked, in order. Its documents differ in up to three
fields from that of a public client or of one that signs.

**RenderConfig** is the program that renders the gateway's configuration:
`Validate` (origins and the names of `internal/authboundary`), and for each of
the two files `Render` (every mark of the file present, and none left of those that
are looked for), `CreateTemp`,
`WriteAndClose` and `Rename`, each of which may fail (then the deferred removal
runs) or be interrupted by `Killed` (then nothing runs). The output directory is
a function from paths to contents; what the gateway reads at any moment is the
value of the output paths in that state. Runs follow one another.

**GatewayRules** is the generator: `validate` of the routes, the roles of the
contract's methods (`collectManageAuthorizationRoles`), and every rule with its
patterns, methods, authenticators, authorizer, mutator, upstream and stripped
prefix. A path is a sequence of segments, so a pattern is a set of sequences with
`[^/]+` as a segment and an open end for `/.*`. **Gateway** takes the rules from
the sources to a request: the sources change (`Edit`), the generator refuses them
or writes `rules.yml` in place (`BeginWrite`, then `WriteRules` or `WriteFailed`
with the first few rules), `CheckRules` compares, `Deploy` takes the file as it is,
and Oathkeeper matches and decides: the first authenticator that feels responsible,
the authorizer, the mutator, the upstream and the path it is given. Oathkeeper and
the deployment are external. No code keeps a deployment from taking a file that was
cut off or is older than its sources: the pipeline compares the two for pull requests
(`ci.yml:187`), while the image is released without it and each deployment regenerates
the rules itself (`routes.yml:2-6`). So the model has no such guard.

The `map` of `PROJECT.json` gives the lines of every definition. Definitions
whose comment begins with "Mutant" are the plausible bugs with which the
properties are tried out; no specification uses them.

## What the runs show

| run | instance | shows | states |
|---|---|---|---|
| `resolver_history` | two callers, two clients on two hosts, one cache entry, two slots | `SingleFlight`, `NobodyWaitsInVain`, `MonotoneReads`, `HostSpacing` | 2.7 M |
| `resolver_tables` | two callers, three clients on three hosts, a cache of one, a host table of two, one slot | `SlotsAreHeld`, `TablesBounded` | 364 k |
| `resolver_implements` | two callers, two clients on one host, one slot, fair | `ImplementsReads`, `EveryCallReturns` | 173 k |
| `hydra_locks` | two requests of one replica, two clients with one lock, two troubles, fair | `ReadIsCurrent`, `EveryEnsureReturns` | 31 k |
| `hydra_replicas` | three requests of two replicas, one client, two troubles | `RacesResolve`, `ForeignClientRespected`, `ImplementsRegistrations` | 111 k |
| `hydra_unmanaged` | two requests, one trouble | violated: `NeverOverwritesUnmanaged` | |
| `facade` | two requests, one slot, a client whose document changes, another replica, a process that is stopped, killed and started again, fair | `PassedRedirect`, `DynamicSlotsHeld`, `SuccessIsTrue`, `AnsweredOrProcessGone`, `SignalEndsProcess` | 313 k |
| `protocol_input` | three deviations (four in a token request), every answer of Hydra | `AudienceIsOurs`, `SentOnce`, `OnlyVerifiersSkipTheDocument`, `CredentialsOnlyWhereNeeded`, `NothingOfARefusedAnswer`, `RegistrationCanBeManaged`, `AdvertisedIsServed` | 21 k |
| `client_documents` | three deviations, headers of two directives, 6-bit integers, names of two addresses | `SecondPassChangesNothing`, `SentAsDeclared`, `LifetimeAsStated`, `ContactsOnlyPublic` | 50 k |
| `gateway` | contracts with up to two other roles, unusable contracts, routes with one other value, 35 paths on three origins, one change of the sources, a write cut off after 6 or 17 rules | `TypeOK`, `OneRule`, `DeclaredRole`, `CutOffOnlyDenies`, `InternalOriginIsRPCOnly`, `PreflightForEveryRoute`, `UpstreamSeesNoCredentials`, `UpstreamPathTellsTheChecks` | 624 k |
| `render_config` | two runs, two deviating options or one mark more or less in each template | `NeverHalfWritten`, `FailClosed`, `SuccessPublishesBoth` | 325 k |
| `protocol_refresh` | as `protocol_input` | violated: `RefreshTokensRejected` | |

Why these bounds are enough for what they are to show:

- *Callers and requests.* Two callers give a leader and a follower, either of which
  may be cancelled, contention for a slot, eviction under a fetch, and a call that
  began before another was answered. Two requests against one dynamic slot give a full channel and
  one that frees the slot; the handlers never wait for a slot, so a third request
  would only be refused once more. With three requests in two replicas, two
  compete for a lock and the third has another.
- *Clients and hosts.* The tables overflow with one client more than the cache
  holds and one host more than the host table holds. `CacheEntries = 1` gives a
  cache of one entry and a host table of two, with the factor of the code.
- *Time.* `MaxTime` is two or three ticks: entries live one tick, a fetch lasts at
  most one, so a document can be fetched, expire, be fetched again and the old
  one compared with the new. In the `facade` run the document changes once and may
  be served for two ticks after. The clock stops at `MaxTime`; that
  cuts off behaviours but adds none, and no liveness property needs it to go on.
- *Trouble.* One abandoned write and one operator change, in either order, or two
  of a kind. `RacesResolve` and `ReadIsCurrent` hold only without trouble: they
  are about the races that the code resolves by itself.
- *Deviations.* The checks of a parameter look at one or two parameters each, so
  three deviations reach every check, every pair and a change beside them. The
  authentication method of a document depends on up to four fields; from the two
  valid documents three deviations reach every combination of three of them.
- *Addresses.* Two addresses of a name give one that is refused before and after
  one that is not, and one that is dialled after another did not answer.
- *Contracts and paths.* Two services with two method names give methods of one
  name in two services and two methods of one service, for each pair of roles;
  there is a path on every rule of the repository and one next to it (one segment
  more, one less, an empty one, the same path under another prefix). One change of
  the sources falls before a write, between write and check, or before or after a
  deployment, which makes the deployed file a stale one. A write is cut off (`Cuts`)
  after 6 rules, before those that block and authenticate, or after 17, before two of
  the manage API's three; a file that ends within a rule counts as one that ends before
  it. Requests come right after a deployment: the deployed file is all of the
  development that they depend on, so this leaves out states and no answers. The proofs
  need no bound on any of these.
- *Runs of the renderer.* Two: the second finds what the first has published, left
  half done or left behind. Validation compares the options in pairs.

Deadlock is checked in every run whose system goes on for ever; the renderer renders once
and is gone. Everywhere else idle callers may always begin another call, and a
process that has ended may be started again.

Symmetry is used for interchangeable callers, requests and contents, only in
runs without liveness, and never where an instance tells them apart.

What the properties say that a unit test would hardly reach:

- `NobodyWaitsInVain` and `EveryCallReturns`: no lost wake-up, whichever of
  leader, followers and slot is cancelled, and in whatever order.
- `MonotoneReads`: a no-store answer does not remove the entry it supersedes, and
  a call may read the clock long before it gets the mutex. That no caller is
  nevertheless given an older document than an earlier caller depends on the
  leader having found the entry expired at a reading that precedes every later
  one, and on there being one leader at a time.
- `HostSpacing`: the sweep of the host table uses the reading of whoever sweeps.
  A caller with an early reading may find the record gone. So two *readings* may
  be closer than the delay; what does hold, and is stated, is that a fetch is
  *admitted* no sooner than a delay after the reading of the previous one.
- `ImplementsRegistrations`: three or four calls to Hydra look like one registration
  or like none, also when another replica wrote what was wanted, after a conflict, or
  when an abandoned write comes in late. Nothing but a call that succeeds, the write
  of one that failed, and an operator changes Hydra.
- `SecondPassChangesNothing`: the second normalisation sees metadata whose list of
  supported methods is gone, and with it the reason why a public client may name
  a signing algorithm and keys. It accepts them only because the first has
  cleared those fields as well.
- `SentAsDeclared`: list, singular method and the server's two methods may
  disagree in many ways; what is selected for a document is a member of its list, and
  has keys exactly if it signs. A registration or an update is not held against its
  list, which the code does not look at there: it is always sent as a public client.
  A list of grants may repeat one member in the place of another.
- `LifetimeAsStated`: a `max-age` so large that it wraps around gives a lifetime
  that is negative (not kept) or short, never one longer than was stated. Stated is
  what the first `Cache-Control` line says: the code reads no other
  (`metadata_resolver.go:184`), so a no-store on a second line is ignored.
- `SuccessPublishesBoth` and `NeverHalfWritten`: after a failure or a kill between
  the renames new configuration stands beside old rules. That is visible in the
  program's result, and no single file is ever incomplete.
- `PassedRedirect`: another replica may register an older document between the
  synchronisation and the proxied authorization. Since the handler compares the
  redirect URI itself, what Hydra passes on is still backed by a fresh document.
- `SignalEndsProcess` and `SuccessIsTrue`: `Shutdown` may be called before the
  goroutine has a listener; `ListenAndServe` then returns without one, and its
  single send is what `run` waits for. If a failure and a signal come together, the
  select may take either, and both ways end in an error.
- `RegistrationCanBeManaged`: the place a caller is given is rewritten from the id
  in Hydra's answer; that it has a route, that its handler accepts the id, and that
  it leads to the same client are three pieces of code. They disagree about two ids,
  `.` and `..`, for which the property makes an exception (below).
- `OnlyVerifiersSkipTheDocument`: an authorization goes on without the client's document
  exactly if it names one verifier that is neither empty nor too long. A forged verifier
  looks the same to the facade and is among the inputs; that it leads nowhere is
  Hydra's to see.
- `AdvertisedIsServed`: the documents are written by hand. Each endpoint has a
  route, each scope, grant and method is accepted by some request, and no other is.
- `OneRule`, `DeclaredRole`, `UpstreamPathTellsTheChecks`: rules are grouped by
  role, match on two origins and strip three prefixes in front of one upstream.
  For every contract in the instance no request has two rules, and what arrives has
  passed the checks its path stands for.
- `CutOffOnlyDenies`: the generator writes in place, so a failure leaves a shorter
  file that may still parse. A request that has a rule in it has that rule in the whole
  file: no rule is there to hold back what an earlier one matches, so the shorter file
  refuses more and admits nobody else.
- `FailClosed`: each file has marks of its own, nearly all are looked for in both, and
  one mark contains another. What is published comes from valid options, had each mark
  of its file, and keeps no mark but those that nobody looks for (below).

## Fairness

`MetadataResolver`: a goroutine that can run runs (weak fairness of `Lookup`,
`Publish`, `FollowerAnswered`, `Return`); the timeout of the HTTP client ends
every fetch (weak fairness of `Fetch`); goroutines blocked on a channel are
served in the order in which they came, so a slot that keeps coming free reaches
each of them (strong fairness of `AcquireSlot`). Nobody has to begin a call or to
cancel one, and the clock need not advance.

`HydraClients`: the admin client has a timeout of five seconds, so every call ends
(weak fairness of `Ensure`); a Go mutex hands itself to a waiter that has starved
for a millisecond (strong fairness of `Lock`).

`FacadeProcess`: a handler goes on (weak fairness of each request's next step):
`Resolve` and `EnsureCIMDClient` return by the two liveness properties above, the
HTTP clients and the server have timeouts. `run` goes on (weak fairness of `Run`:
what is ready in the select is taken, and the deadline of `Shutdown` passes), and
`ListenAndServe` gets to its listener or returns after `Shutdown`. Nobody has to
send a signal or to start a process, and failures need not occur.

The other specifications have no liveness to claim: a generator or renderer may be
killed at any step, and one request of `ProtocolInput` is over when it is answered.

## What is proved

Every safety invariant, action property and refinement that a passing run checks is
also a theorem, for all values of the constants that satisfy the named
assumptions (`ResolverAssumption`, `ReadsAssumption`, `HydraAssumption`,
`RegistersAssumption`, `FacadeAssumption`, `InputAssumption`, `CacheControlAssumption`,
`MetadataAssumption`, `DocumentsAssumption`, `DialAssumption`, `GatewayAssumption`,
`RenderAssumption`), which TLC evaluates for each instance it checks. Most say that
a set is finite, a limit is positive or a marker is not a value. Four say more:

- `InputAssumption` wants at least one deviation, because `AdvertisedIsServed` looks
  for a request for each scope and each grant among the inputs.
- `CacheControlAssumption` lets any positive modulus stand for 2^64; only the
  default lifetime must not exceed the maximum, as in the code.
- `ResolverAssumption` says that lifetimes do not exceed the maximum, which
  `metadataCacheTTL` ends with (`CacheControl`).
- `GatewayAssumption` says that a method of the contract has a service and a name,
  neither of them a pattern.

### The resolver: `MetadataResolverProofs`

None of the safety properties is inductive alone. The invariant is built in layers,
each of which uses the one below:

1. `TypeInv`: `TypeOK`; that a caller inside `Resolve` has a client (`Wanted`,
   without which `inflight[want[p]]` says nothing); and `SlotsAreHeld`, without
   which `ReleaseSlot` could leave the range of the semaphore. Theorem
   **TypeCorrect**.
2. `Flight`: `SingleFlight` and `NobodyWaitsInVain`. The leader's entry is the
   only one for its client, so publishing it leaves no follower behind. Theorem
   **OneFlight**.
3. `TablesBounded`, from lemmas on what an eviction leaves: one place less than
   the limit, or a table that has the key. Theorem **TablesStayBounded**.
4. `DocumentInv` adds that a request was sent at most a timeout ago while it is
   under way (`SentRecently`, from the guard of `Tick`) and that a result is no
   older than its caller may see (`FreshResult`): the leader's own result was
   sent after it began, a follower's no earlier than a timeout before it joined.
   Theorem **RightDocument**.
5. `ReadsInv` adds that nothing is dated after the clock (`Past`). With it a step of
   the resolver is an `Ask`, a `Reply`, a `Leave` or a `Tick` of `DocumentReads`, or
   changes nothing a caller sees (`InsideInvisible`). Theorem **ResolverImplements**.
6. `OrderInv` adds, over the history variables, why no call is given an older
   document than one before it. The entry in the cache may well be older than what
   somebody has been given: a no-store answer leaves it there. It does no harm,
   because it has expired by then, for the clock (`SeenSupersedes`) and for the
   reading of every caller that must not fall behind (`FloorSupersedes`; that
   reading may be long past): a newer document is fetched only for a leader that
   found the entry expired (`FetchSupersedes`). And what a leader is about to
   publish was sent for after everything else that is known of its client
   (`NewestUnderway`), which is where `SingleFlight` comes in. Theorem
   **ReadsNeverGoBack**.
7. `SpacingInv` adds `LastAdmitted`: the record of a host is the reading it was
   admitted with last, and a host without a record is past its delay as long as
   the table has room for all hosts. A sweep on behalf of a host forgets only
   records that are past the delay too, since one reading decides both. Theorem
   **FetchesKeepDistance**, stated like the property for a table with room for
   every host: a full one drops the oldest record, which may still count.

### The synchronisation: `HydraClientsProofs`

1. `LockInv`: `TypeOK`, that a request under way has a client and a content, and
   `LocksExclude`. Theorem **LocksCorrect**.
2. `RaceInv` adds what calm means: without trouble Hydra holds nothing unmanaged,
   nothing disappears, and no write is under way; so a conflict is followed by a
   managed client and a PUT by an accepted one. Theorem **RacesAreResolved**.
3. `ReadInv` adds `ReadIsCurrent`: within one replica only the holder of the lock
   writes the client. Theorem **NoLostUpdate**.
4. `AnswerInv`, over the history variables: success means that Hydra held the client
   during the call, and a client that was foreign throughout was not written.
   Theorem **AnswersTellTheTruth**.
5. **ClientsAreRegistered**: `HydraClients` implements `ClientRegistrations`. A step
   that finds the wanted client or writes it is the registration (`Succeeds`); one
   that gives up is a failure, and `RaceInv` shows that there has been trouble
   (`Fails`); taking the lock, lookups and conflicts do not show (`LooksTheSame`).

### The handlers and their process: `FacadeProofs`

`ProcessInv` is `ProcessTypeOK`, `HandlerInv` and `LifecycleInv`.

1. `HandlerInv`: which routes a handler may have at each place (`Placed`), that an
   answer belongs to the question and is recent (`SoundAnswer`), and that from the
   synchronisation on it lists the redirect URI (`Backed`); with `DynamicSlotsHeld`
   and `KnownToHydra`. Theorems **SlotsStayCounted**, **PassedIsBacked**.
2. `LifecycleInv`: `ErrServerClosed` comes of a shutdown only, and between the end of
   `Shutdown` and the last receive nothing is left to do and nothing can arrive.
   Theorem **ExitsTellTheTruth**.

### Checks in general: `ChecksProofs`

What the next two modules share. The inputs are built by a recursion (`Near`); a
least counterexample, by well-founded induction over the set of its stages, shows
that it is defined (`NearDefined`), that every record has its fields
(`NearKeepsFields`) and that the base and each single deviation are among them
(`NearHas`), for any number of deviations. `NoCheckFailed` and `NoErrorFound` turn
the first error of a list of checks into all of them.

### Protocol input: `ProtocolInputProofs`

`AuthorizeForwards` and `TokenForwards` say what a verdict sends. The invariant
(`InputInv`) relates verdict, request and reply to the functions they come from.
Theorems **OneAudience**, **OneMeaning**, **DocumentsAreResolved**,
**ProofOfPossession**, **NoOtherScope**, **CredentialsStayHome**, **NothingLeaks**.

**RegistrationsAreManageable** goes through what Hydra may answer to a registration
and the facade passes on: the place it names has the managing route
(`ManagedRoute`), whose handler accepts the id (`RegistrationAnswers`).
**AdvertisementIsTrue** has two directions. That what is advertised is accepted
needs a witness for each scope, grant and method: the valid request with at most one
parameter exchanged (`AuthorizationsServed`, `TokensServed`), which `NearHas` finds
among the inputs. That nothing else is forwarded follows from the verdicts.

### The client's document: `ClientDocumentsProofs`

- **DialsOnlyPublic**: while an address is dialled, all of the name's addresses have
  been checked after unmapping, and those that were tried are the first of them.
- **KeptAsStated**: `LifetimeInv` ties the lifetime to the header it was computed
  from. Whatever the modulus, a product that wraps is less than the exact one
  (`WrappedIsLess`), so a document is kept no longer than its shortest `max-age`
  says, and not at all after a no-store (`TTLAsStated`).
- **SecondPassIsIdle**: that a `Synchronise` after a successful `Fetch` neither
  refuses nor changes the document. `NormalForm` says what normalisation leaves of
  each field, with and without a signing method; `NormalizedTwice` takes that
  through the checks and the normalisation once more. It holds for every metadata
  of the right shape (`WellFormed`), whatever its fields contain, and not only for
  those near a valid document.
- **SentIsDeclared**: `OutcomeInv` says, for each way into the facade, of which
  metadata an outcome is the normal form, and that all checks were passed on the way
  (`Sound`, from `NoCheckFailed`). The method that is sent is then one that the list
  or the singular field declares, and the list of grants is one of two sets although
  it was compared by length and membership (`BothGrants`).

### The gateway: `GatewayProofs`

For all sources that the generator accepts, any paths and any number of changes.

1. The rules are read without a state first. For each group of rules a lemma says
   when one of the group matches a request (`ApiFires`, `ManageFires`, `AuthFires`,
   ...), in terms of what the path begins with (`PrefixPath`, `MethodPath`). Manage
   rules are told apart by the method the path names, and a method has one role
   (`ManageRulesSet`). `OnlyTheRule` puts them together: a request matches no
   rule but `TheRule`. `Destinations` says where that rule takes it.
2. `GatewayInv` is inductive: `TypeOK`; `FromAccepted`, that what is written or
   deployed comes from sources the generator accepts, although perhaps not from the
   present ones, and may be only the first of their rules; `Handled`, that the rules do
   not change under a request; and `Decided`, that what was delivered was allowed by the
   one rule that matched. A part of the rules matches nothing that the whole does not
   (`PartOfTheRules`), so `OnlyTheRule` holds for files that were cut off too.
3. From both follow **TypesAreRight**, **OneRuleDecides**, **CutOffFilesOnlyDeny**,
   **RolesAreEnforced**, **InternalIsRPCOnly**, **CredentialsStayOutside**,
   **PathsTellTheChecks** and **PreflightIsOffered**.

The last of these corrected its property. `PreflightForEveryRoute` used to speak of
the authentication origin without a condition; the proof failed for routes that
name one origin both as that and as the internal one, which `validate` does not
exclude: calls are then let through on it, and no preflight rule is for calls
there. The property now leaves that origin out, and the instance of the run
has such routes (`AuthIsInternal`).

### The renderer: `RenderConfigProofs`

`RenderInv` says which temporary files may exist (`Leftovers`), what the run has in
hand at each step (`CurrentFile`), that each published file was written whole by a
run whose options were valid (`PublishedFiles`), and that the second file follows
the first (`FirstPublished`). Lemmas `SoundOptions` and `MarkersAreReplaced` are the
two halves of `FailClosed`. Theorems **PublishedIsWhole**, **RenderingFailsClosed**,
**SuccessMeansBoth**, **OnlyKillsLeaveFiles**.

Invariants that the theorems establish for every instance are not run again unless a
plausible bug shows best in them. Of the definitions in the modules, `TypeOK` of the
resolver and of the synchronisation, `HistoryTypeOK`, `ProcessTypeOK`, `OwnDocument`,
`StoredWithinBounds`, `FreshDocument`, `LocksExclude`, `SuccessWasHeld`, `KnownToHydra`,
`PKCEOnBothEnds`, `ScopeIsOurs` and `NothingLeftBehind` are proved only; TLC has
checked each of them on the instances of the runs before it was proved.

## What is only model-checked

Liveness: `EveryCallReturns`, `EveryEnsureReturns`, `AnsweredOrProcessGone` and
`SignalEndsProcess`. The prover has no rules for fairness and `ENABLED`. That the
systems do not deadlock is TLC's too, in the runs that check it.

## Where the code and its words disagree

- `hydra_unmanaged`. `TestCIMDNeverOverwritesUnmanagedHydraClient`
  (`handler_test.go:536`) is about a client that is unmanaged from the start. The
  manager reads and then writes in two calls, so a client that an operator puts
  in the place of a managed one between them is overwritten. `ForeignClientRespected`
  states what does hold: a client that is foreign for the whole call.
- `protocol_refresh`. A comment (`client_metadata.go:164-167`) says that the facade
  rejects refresh-token requests. It accepts them (`handler.go:261`) and advertises
  them (`handler.go:133`).

Not a run of its own: the comments of the generated rules `open-api` and
`block-internal-api` (`generator.go:514`, `:753`) say "exact API origin only", while
both patterns admit the internal origin too, as `generator_test.go:521` expects and
`routes.yml` explains. `GatewayRules` follows the code. Nor are these, in which a
property names the exception instead of leaving it out:

- `docs/oathkeeper-access-policy.md:37` says that the renderer "replaces every marker
  or fails closed". The escaped origin of the site in the template of `oathkeeper.yml`
  would stay, since `render.go:92-112` replaces it in `rules.yml` only and `:157` looks
  for it nowhere; and the upstreams of `routes.yml` below `.example.invalid` do stay in
  the published `rules.yml` unless the deployment has put its own there before, as
  `README.md:63-64` asks. `FailClosed` states README's sentence of lines 61 and 62 and
  lists the two in `Unsought`.
- `dynamicClientIDPattern` (`handler.go:23`) accepts the ids `.` and `..`. A
  registration under one of them would be announced with a place that has no route,
  because the mux cleans it away. Hydra issues no such ids, which is all that keeps them
  away. `RegistrationCanBeManaged` says so.
- A client that registers with a list of methods that lacks `none` is registered with
  `none` (`client_metadata.go:241`). `SentAsDeclared` says so.

## What is not modelled

- Wording, encoding and layout of answers, and logging.
- Go's scheduler below critical sections and channel operations; the code has no
  data race to model: what is shared is accessed under the mutex or before a
  channel is closed.
- The syntax of a client name, a redirect URI, a key set URI or an origin: these
  are safe or not. In the resolver a document is told apart only by the client it
  names and by when it was served; `ClientDocuments` has the rest. The reserved
  prefixes of `metadata_resolver.go` are one class of addresses.
- `NewContract` (`contract.go`), which computes four URLs from two origins once: the
  constants `Issuer` and `Resource`.
- Real time across components: that resolving, synchronising and proxying together
  may take longer than the server's write timeout.
- The text of `rules.yml` (comments, versions, header templates) and the part of
  Oathkeeper's configuration that no rule refers to: listeners, timeouts, error
  handlers.
- File contents that a power failure loses because they were not synchronised to the
  disk before the rename.
- How a deployment gets from `rules.yml` to a running gateway, beyond that it takes the
  file there is, and whether Hydra has issued a verifier.
- Headers of several lines: `Header.Get` reads the first.
- Kratos's flows and SpiceDB's schema: configuration for third-party programs. The
  order of hooks and the evaluation of permissions are decided in code that is not
  in this repository, and a model of them would be a model of that code. The schema
  is itself generated elsewhere.
- The patches to Kratos and Oathkeeper: two raise dependency versions, two change
  single functions of programs whose source is not here.
- Container composition and pipelines.

## Plan

Done: the resolver, the synchronisation, the handlers and their process, protocol
input with the proxy and the documents, the client's metadata and its connection,
the renderer, the generator and the gateway, and the proofs above.

Left, in this order:

1. `Facade` as an instance of `ClientRegistrations`, as it is one of `DocumentReads`:
   its registrations are sets of redirect URIs, and other replicas one more caller.
2. The safety that the liveness properties rest on, as theorems: that what a process
   waits for can still come, as `NobodyWaitsInVain` says it of followers, for the
   locks of the synchronisation and for the last receive of `run`.
