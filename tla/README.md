# Lanyard in TLA+

Lanyard is a Go library for OpenID Connect and OAuth 2.0 relying parties. Its
code is mostly sequential, but one `RP` value is shared by all request
goroutines of a server, its state lives partly in browsers and partly at the
authorization server, and caches are refreshed behind the callers' backs. This
project models those parts, checks them with TLC and proves what matters most
with TLAPS.

## Inventory

| component | state | operations | hard behaviour | what makes it correct |
|---|---|---|---|---|
| memory state store (`rp/store/memory`) | map from state string to correlation, values, binding | save, consume, load, delete; sweep on save | concurrent callbacks, loads in two critical sections, expiry, capacity, one binding cookie per browser | an entry is consumed once, by the browser it was saved for, until it expires |
| cookie state store (`rp/store/cookie`) | a session cookie in the browser | the same operations, rewriting the cookie | two tabs overwrite each other, replay of an old cookie | a login in progress is not lost; a replay gains nothing |
| authorization code flow (`rp/authrequest.go`, `par.go`, `callback.go`, `idtoken.go`, `jarm.go`, `userinfo.go`) | none of its own; correlation in the store | `AuthorizationURL`, `HandleCallback` | callbacks repeated, late, mixed up; failures after the code is redeemed | one result per login, about that login |
| remote key set (`jwks`) | cached key set per jwks_uri, singleflight group | `Key`, `Keys`, background refresh | late answers, shared entries changed without a lock, rate limit, 304 | a published key is found; the cache catches up |
| refresh token source (`rp/refresh_rotation.go`) | current refresh token | `Refresh`, `Replace` | rotation: an old token revokes the grant; lost answers; retries | no token is replayed; the source is in step with the server |
| token grants (`rp/token_exchange.go`, `dpop.go`, `client_config.go`) | negotiated authentication method, DPoP nonce per endpoint | each grant; reset by `AuthorizationURL` | method and nonce shared by concurrent grants, retries | a method the server accepts is found; errors are reported as they are |
| discovery (`metadata`, `rp/discovery.go`) | cached documents per kind and issuer, singleflight group | `DiscoverProvider`, `DiscoverAuthorizationServer`, WebFinger, background refresh, validation | late refreshes with old tags, shared flights, documents that are not the issuer's | only validated documents are used; they never go back; the cache catches up |
| RP construction (`rp/rp.go`, `options.go`, `client_config.go`) | configuration, provider document, negotiated method, TLS transport | `New`, `NewClientCredentials`, `NewIntrospector`, `NewGrantManager` and the requests they make | options in any order, profiles, discovery modes, method and constraint chosen at different times | what a profile demands holds of every request sent; explicit options are kept |
| client credentials, introspection, grant management, dynamic registration (`rp`) | that of the construction | one request each | method and endpoint chosen per request | errors surface, credentials go where they belong |
| example RP (`cmd/example-rp`) | registry of runtimes, dynamic registrations, request objects, namespaced stores | HTTP handlers, startup actions, cleanup ticker | the registration of the next module while callbacks of the last arrive; a mutex held over the network | a login is completed by the module and issuer that started it, and by its client where the store keeps that; every request returns |
| conformance harness (`conformance/harness`) | jobs, results, the suite's tests, runtime registrations | worker pool, execution of a plan and its modules, polling, browser visits, cleanup | parallel jobs, fail-fast, a suite that moves on between two reads, lost answers, deadlines | every started job has a result; a job is green only with an accepted result for every module; nothing is left behind unnoticed; Execute returns |

`PROJECT.json` lists every component with its files, also those not modelled,
and the hazards at the line where they bite.

## Modules

* `SingleUseTickets`: what a server-backed state store promises: a ticket is
  handed out at most once, to the browser it was issued to, and may be lost.
* `MemoryStore`: `rp/store/memory/store.go`, one action per operation. An
  operation that holds `s.mu` throughout is one step; `LoadState` and
  `LoadValue`, which change from the read to the write lock, are two. A login
  is three: the request leaves the browser with the binding cookie it has,
  `SaveCorrelation` runs, and the response's cookie arrives. A saved item is
  the number of its save, which makes "handed out twice" expressible.
  Refines `SingleUseTickets`.
* `AuthCodeFlow`: `AuthorizationURL` and `HandleCallback` over a ticket store,
  with browsers and an authorization server. `handleCallback` is cut where it
  talks to the server; everything in between is one step, in the order of the
  code: the correlation is consumed before the issuer and the front-channel ID
  token are looked at, and is gone when they are refused. Hashes, signatures
  and nonces are modelled by the login and the code they were made for.
* `RemoteKeySet`: `jwks/remote_keyset.go` with the second attempt of
  `validateIDTokenAs`. Cache entries are in a heap, since
  `markRefreshAttempt` writes through a shared pointer; entries nobody refers
  to are reclaimed. A goroutine started by `Keys` waits in `spawned` until it
  is scheduled, which is how a refresh gets late.
* `CookieStore`: `rp/store/cookie/store.go`. A request carries the cookie its
  browser had, the operations of its handler work on that copy (the session is
  cached in the request, and changed also by a save that fails), and the
  response puts the last saved copy into the jar or is lost. `Second` clock
  ticks make a second, since the payload keeps whole seconds.
* `TokenRefresh`: `RefreshTokenSource` with `executeTokenGrant`,
  `doRequestWithDPoPRetry` and the nonce store, against a token endpoint that
  rotates refresh tokens and revokes a grant when an old one is used.
* `Discovery`: `metadata.Client` under `rp.DiscoverProvider`. A call looks into
  the cache, and waits for a flight, is served at once, or is served and leaves
  a background refresh behind. The flight is four steps (join or lead, answer,
  `Set`, release), so that late goroutines and late answers meet. Keys share
  nothing but the published document: the issuer with and without a trailing
  slash have one URL and two entries.
* `RPConfig`: the four constructors and the requests of what they build. Every
  option is an action of the stage "options"; then come the rules of the
  constructor in their order; then goroutines negotiate the method, choose the
  endpoint and send, in separate steps where the code reads the shared method
  in separate steps. Documents are records of which endpoints they have and
  whether these are checked.
* `Scheduler`: `scheduleJobs`, with jobs that end in any way. `Harness` EXTENDS
  it with one job in detail: `execute`, `executeModule`, the poll loop, the
  browser visit, cancellation and cleanup, against a suite that moves its tests
  on at any time and a network that loses answers.
* `ExampleRP`: the HTTP handlers of the example RP as goroutines with their own
  steps over the registry, the dynamic registrations with their mutex, the
  shared state store behind its namespace and issuer wrappers, and the store of
  request objects.
* `MemoryStoreProofs`, `AuthCodeFlowProofs`, `TokenRefreshProofs`,
  `CookieStoreProofs`, `DiscoveryProofs`, `RPConfigProofs`, `HarnessProofs`,
  `ExampleRPProofs`: the theorems about the module each is named for. Those
  about `Scheduler` are in `HarnessProofs`, which carries them over to
  `Harness`; those about `RemoteKeySet` are in `AuthCodeFlowProofs`, whose
  callbacks validate ID tokens with it.
* `MC*`: constant definitions for TLC, one module per component.

Definitions named as a mutant in `PROJECT.json` (in most modules they end in
`_Something`, and their comment starts with "Mutant") are variants of a
definition after them, with a mistake; they are not part of any specification
and serve to show that the properties notice it.

## Runs

A property in parentheses is a conjunct of the one before it.

| run | shows | bounds |
|---|---|---|
| `MemoryStore` | `TypeOK`, `BindingRespected`, `InitiatorCanFinish`, `AtMostOnce`, `ImplementsTickets`, `LiveEntriesKept` | two browsers with one tab each, another agent, two states on a store with room for one, pushed requests, a value, a loading goroutine |
| `MemoryStoreLoadRace` | violated: `LoadState` deletes a fresh entry | |
| `MemoryStoreSweep` | violated: `SweepsSoonestToExpire`; the sweep evicts by `createdAt` | three saves, no browsers |
| `AuthCodeFlow` | `TypeOK`, `OneResult` (`OneResultPerLogin`, `OneResultPerCode`), `ResultBelongsToLogin`, `NoForeignCodeSpent` | two logins, two codes, two browsers, two callbacks; seven configurations |
| `RemoteKeySetRP` | `KeysTypeOK` (with `TagNamesKeys`), `PublishedKeyIsFound` | two validations with an instance each, one rotation |
| `RemoteKeySetLive` | `WaitersHaveFlight`, and under fairness `CacheCatchesUp` | two callers on one instance, one background refresh at a time |
| `TokenRefresh` | `TypeOK`, `NeverReplays`, `InStep`, `NeverUnauthorized` | two goroutines on one source, other grants of the RP, two grants of up to two generations, two nonces |
| `CookieStore` | `TypeOK`, `ReplayNeedsLoss`, `InitiatorCanFinish` | one browser with one request at a time, two operations per request, two saves, room for two states or values, one change of key |
| `Discovery` | `TypeOK`, `DocumentsTrusted`, `NeverOlder`, `WaitersHaveFlight`, and under fairness `CacheCatchesUp` | two callers, one of them preloading keys, one background refresh at a time, one of three keys per behaviour, two versions, one fault |
| `RPConfig` | `TypeOK`, `FAPIRequests` (`FAPIAuthentication`, `ProfileProtected`), `RequestsFit` (`CredentialPresented`, `PublishedMethod`, `EndpointsChecked`), `SenderConstrained`, `ExplicitKept` | four constructors, up to four options beyond the required ones, two goroutines, three discovered documents, one of OAuth discovery, three configured ones |
| `Harness` | `TypeOK` (with the bound on visits), `PoolSound` (`JobsAccounted`, `ParallelBound`), `ReportTruthful` (`ReportComplete`, `NoFalseGreen`), `NothingLeft` (`NoRuntimeLeft`, `NoTestLeft`), and under fairness `ExecuteReturns` | three jobs, the second in detail with up to two modules, three settings of the pool, one retry, one waiting period, one result the runner accepts and one it does not |
| `ExampleRP` | `TypeOK` (with `LiveObjectKept`), `LoginKept` (`ModuleIsolation`, `ClientKept`, `IssuerKept`), `OneClientPerModule`, and under fairness `RequestsReturn` | two handlers, two aliases, two modules, two logins, two dynamic clients; four kinds of traffic: two modules of a plan with dynamic registration, on the memory store and on the cookie store; two aliases one of which is in `RP_ISSUER`; request objects of a FAPI 1 runtime; failing startup actions |

The bounds are small on purpose: each property relates at most two logins, two
goroutines, two entries or two generations of a token, so two of each, plus one
more where something must overflow, show the ways to break it. Clock bounds are
larger than `TTL` plus the margin, so entries do expire within a run. In
`RemoteKeySet` one background refresh waits for the scheduler at a time
(`MaxSpawned`): a caller that would start another waits until the first runs,
which fairness brings about. Refreshes of two instances that are answered out of
order are in `RemoteKeySetRP`. Symmetry is used only in runs
without liveness and over sets whose members are only compared.

`InitiatorCanFinish` and `ReplayNeedsLoss` of `CookieStore` are checked for a
browser with one request at a time; two tabs that read the same cookie undo each
other's changes, which is how a store without a server works. A restart with a
new key ends every login (the history `login` says so): the cookies stay in the
browsers, and every operation fails until their Max-Age has passed.

What is known not to hold is not a run of its own, except for the race of
`LoadState` and the ranking of the sweep.

* `MemoryStore`: two overlapping first logins of one browser get two binding
  cookies, of which the last one wins.
* `CookieStore`: `pruneExpiredStates` has no caller, so expired states take room
  in the cookie.
* `RemoteKeySet`: a late background refresh writes the time of an old refresh
  attempt back, so the minimum interval between unknown-kid refreshes is not
  always kept. That callers never block after the initial fetch
  (`jwks/doc.go:7`) is true of `Keys`, not of `Key` with an unknown kid.
* `RemoteKeySet`, `Discovery`: a server that accepts a request and never answers
  holds the flight, everyone who joined it, and every later refresh, for ever
  (see Fairness).
* `TokenRefresh`: while the authentication method is a guess, the second attempt
  hides an `invalid_grant`.
* `RPConfig`: metadata merged from configured and discovered parts, and OAuth
  server metadata, are not checked endpoint by endpoint (`EndpointsChecked`
  leaves them out). A provider configured without issuer is discovered again
  with every callback (`Pinned`). An introspection by an RP chooses its method
  after the certificate was or was not put on the transport (left out of
  `CredentialPresented`). A pushed request carries an assertion or the
  certificate, but never the client secret itself (`par.go:94`): with
  `client_secret_basic` or `_post` it goes out without a credential.
* `Harness`: when `waitForTestReady` or `registerRuntimeAlias` fails,
  `executeModule` leaves the test it created running (`loose`). A test that is
  still running but has a result counts as done (`isTestDone`): it is not
  cancelled, and its result may change after it was read (`early`). A skipped
  module is green, and so is one interrupted after an accepted result, since
  `moduleFailed` looks at the result alone; one interrupted without a result
  fails. (`.opencode/agent/conformance-runner.md:161` asks the agent's own
  summaries to call every interrupted test a failure.)
* `ExampleRP`: the payload of the cookie store has no field for the client, so a
  login of a runtime that uses it is completed with the client the callback's RP
  has: the second client of a module, or one registered since (`ClientKept` says
  that it is at least a client of the login's own registration).

`Discovery` asks for one key per behaviour (`MaxAsked`): keys have entries and
flights of their own, and share the published document only. The safety
properties were also checked with two keys at a time, and with two background
refreshes, on instances too large to keep. Servers that send no `ETag` are left
out: they answer every request with a document, which the model has too. So is
an intermediary that alters a document and keeps the server's tag, which the
304s that follow would confirm until the next publication.

`SaveValue` of the memory store adds entries and does not sweep, so between
correlation saves the map may exceed `maxEntries`. The sweep
ranks entries by `createdAt` alone; comments and a test say that it evicts those
that expire soonest. The two differ when a pushed request expires before the
ttl, and when an entry is overwritten, which keeps its first `createdAt`
(`SweepsSoonestToExpire`). `LiveEntriesKept` is what does hold: a live entry
leaves the store when something of it is handed out, the application deletes it
(the history `deleted`), the store is full, or `LoadState` races; not when
another browser tries to consume it.

`ConsumeCorrelation` of the memory store takes a state with values only for a
correlation, the zero one (`handed[0]` counts it), where the cookie store
reports it as not found. No property is stated about it yet; it belongs to a
composition of `AuthCodeFlow` with a store that has application values.

Deadlock is checked except where the bounded model ends (every login and
callback over, no saves left).

### Fairness

`RemoteKeySet`: goroutines are scheduled (weak fairness of a caller's own steps,
of a spawned refresh and of the end of a refresh that has its answer) and time
passes. Nothing is assumed of the network. The default HTTP client is
`http.DefaultClient`, which has no timeout (`jwks/remote_keyset.go:53`,
`metadata/client.go:44`), a background refresh runs under
`context.Background()`, and `group.Do` does not look at the context of those who
wait in it. So that calls return cannot be promised by this code; what it does
promise is the invariant `WaitersHaveFlight`: whoever waits has a flight to wait
for, and is let go when that ends, in success or error. `CacheCatchesUp` has what
it needs of others as its premise: callers keep coming, and a server that is
asked again and again answers again and again (`ServerAnswers`). The property
is "again and again", not "for good": `markRefreshAttempt` may put a replaced
entry back after every success.

`Discovery`: the same; `Work` is what a goroutine does by itself and is fair,
`Network` the end of a request and is not. Documents an intermediary slipped in
are replaced too: `CaughtUp` asks for the issuer's own document.

`Harness`: the pool and the runner keep running, the other jobs end, and every
deadline passes (weak fairness each). Nothing is assumed of the suite or of the
network: `ExecuteReturns` rests on the contexts the code creates.

`ExampleRP`: handlers keep running and the ticker of the cleanup ticks (weak
fairness); a `sync.Mutex` lets no waiting goroutine starve, which is strong
fairness of taking the lock of the dynamic registrations. Requests to the
provider end, with an answer or an error: the example's HTTP client has a
timeout of 15 seconds.

## Proofs

The theorems hold for every value of the constants that satisfies the named
assumption of the module (`StoreAssumption`, `FlowAssumption`, ...), so for any
number of goroutines, browsers, logins, retries and faults. Hardly any property
is inductive. Each proof module begins with the invariant that is, which TLC
checked on the run's instance before it was proved, and has a lemma per action
or per kind of step. Where a theorem needs more than the assumption of its
module, the hypothesis stands in the theorem; the runs satisfy it.

`MemoryStoreProofs`

* `TypeCorrect`; `ConsumedAtMostOnce`: no save is handed out twice;
  `ConsumedByInitiatorOnly`: a correlation bound to a browser is handed only to
  that browser. The invariant is
  `Inv == TypeOK /\ SavesInv /\ AtMostOnce /\ TokensInv /\ BindingRespected`.
  `SavesInv` says that a number in the store is at most `saves`, has not been
  handed out and is in one place only, so consuming it is its first and last
  time. `TokensInv` says that a binding token is the number of the save that
  drew it and is held, by jar, tab and entry, only on behalf of the browser that
  save belongs to, so two browsers never present the same token.
* `StoreImplementsTickets`: the store implements `SingleUseTickets`. The state
  of a ticket is computed from where its number is (in the map, handed out or
  neither); besides `Inv` this needs that an absent entry is empty
  (`AbsentIsEmpty`), or a sweep would seem to bring tickets back.
* `LiveEntriesAreKept`, if `MaxLag <= TTL`: the time a caller puts on a save is
  not older than the lifetime of an entry. `AuthorizationURL` reads the clock
  just before it saves. Besides `TypeOK` it needs that the store is finite, so
  that a sweep which evicts live entries leaves exactly `MaxEntries`.
* `InitiatorFinishes`, if a browser has one login request at a time
  (`OneLoginPerBrowser`; two overlapping first logins do lose a binding, see
  above). `CookieInv` follows the binding of a live entry from the response to
  the jar: until the entry expires it is on its way, or held by a cookie that
  outlives the entry and that no request in flight will replace.

`AuthCodeFlowProofs`: `TypeCorrect`; `LoginGivesOneResult`, `ResultIsOfItsLogin`
and `OnlyOwnCodesSpent`. The invariant says of a callback under way that the
correlation of its state was taken for its browser, that its code is one the
server issued (`CallbacksGrounded`), and what the redeemed code ties together
(`TokensGrounded`: PKCE from the token endpoint on, the nonce once the ID token
was validated). `OneTaker` and `OneRedeemer` are the two barriers, the store's
and the server's, before there is a result to count.

The same module extends `RemoteKeySet` and has its theorems.
`KeysTypeCorrect`: every state is well typed, and a tag names the
keys it is stored with. `KeysInv` says it of every entry in the heap, those out
of use included, since a late refresh starts from one. `AnswerOK` says of a 304
that it was given for the tag of the entry its fetch started from; that the
entry still has this tag rests on the flight keeping it from being reclaimed.
`KeyIsFound`: a validation misses a published key only if a fetch failed, for
any minimum interval, number of instances and number of rotations. `KeysOwed`
says that what a call is owed is published and that a call that failed, or whose
last fetch failed, is owed nothing. The hypothesis `Fallback` is the second
attempt of `validateIDTokenAs`, without the cache; without it the rate limit
does refuse a key that was just published. `NobodyWaitsInVain`
(`WaitersHaveFlight`): the steps that end a flight move on all its waiters.

`TokenRefreshProofs`

* `TypeCorrect`; `RotatedTokenNotReplayed`: no rotated refresh token is
  presented, unless the answer to the rotation was lost or unfit;
  `SourceInStep`: between calls a source holds the newest token of its latest
  grant, with the same exception. The invariant is `Inv == TypeOK /\ Holding /\
  Pending /\ Known /\ FetchedNext /\ Ahead /\ NeverReplays`. `Holding` says
  that a call has the mutex of its source from `Lock` to its return, so calls
  under way have sources of their own. `Pending` carries a rotated token from
  the answer to its adoption: it stays the newest of the source's grant, and the
  grant unrevoked, because only the holder of the mutex sends requests for the
  source. `Known` drops the "between calls" of `InStep`, `FetchedNext` and
  `Ahead` say that the grant `Replace` brings is the next one and untouched.
  Most steps only move a call on and follow from `QuietStep`.
* `GuessIsCorrected`: a guessed method never makes a grant fail for its client
  authentication alone. `GuessInv` says that the shared method is still the
  guess or one that worked, and the same of the copy every call took before it
  sent, however the shared one was settled or reset since. It uses that only
  `client_secret_post`, the default, is a guess (`client_config.go:107`).

`CookieStoreProofs`: `TypeCorrect`, and if a browser has one request at a time
(`OneRequestPerBrowser`) `ReplayOnlyAfterLoss` and `InitiatorFinishes`.
`PayloadsOK` says of every copy of a payload (jar, request, reply) that no save
is in it twice and that a login in it is kept until the last second of its
lifetime although times are rounded down to seconds (`Timely`). `SpentInv` says
that browsers have no save in common (`Apart`) and that what was handed out and
is still in some copy was lost, or was taken by the very request that will
overwrite the cookie (`Spent`). `KeptInv` says that a started login is in the
cookie and in every copy that may replace it, and that the cookie is of the
present key.

`DiscoveryProofs`: `TypeCorrect`, `OnlyTrustedDocuments`, `MetadataNeverOlder`,
`NobodyWaitsInVain`.
The invariant (`CacheOK`, `FlightsLed`, `ThreadOK`) says that every entry, in
the cache or in the hands of a goroutine, was validated for its key and has the
tag of its own document (`Earned`), so that a 304 confirms what it is applied
to; that a goroutine which fetches or stores is the flight of its key; and that
the cache is at least as new as what a goroutine is about to return and no newer
than what it is about to store. The last part holds only because fetch and `Set`
are inside the flight.

`RPConfigProofs`: `TypeCorrect`, `FAPIRequestsHold`, `RequestsAlwaysFit`,
`TokensSenderConstrained` and the action property `ExplicitOptionsKept`, for
every set of metadata documents that satisfies `RPConfigAssumption`. None of the
properties is inductive: they speak of requests, and a request is built from the
configuration, the document and a method that any goroutine may have negotiated
anew in the meantime.

* `Building` carries the constructor from its options to its checks: what was
  not set explicitly has the default of the profile (`ConfigOK`, `Defaulted`), a
  document of a checked origin has no insecure endpoint (`Checked`), and the
  method is an outcome of the negotiation.
* `ConstructorChecked` is what the checks have established once the client is
  returned. Its last conjunct is the heart of the argument: every outcome of
  another negotiation with the same document is as good as the one that was
  checked. It holds because negotiation is a function of configuration and list
  (`SelectOne`), which is also why a provider without an issuer, whose
  document is fetched again, is left out (`Pinned`).
* `MethodOK` is that quality of a method: the credential is there, the
  certificate is on the connection, the profile permits it, the provider
  published it, as far as the properties ask for it. It holds of the shared method, of the copy a goroutine took, and
  of the method of every request. `GuessOK` says that a guess was made only
  because nothing is published, which is why HTTP Basic after a refusal
  (`BasicFits`) breaks none of it.
* `CallOK` says the rest of a goroutine's call: which document, endpoint and
  alias it got hold of, and that a client under construction has no calls.

`ExplicitOptionsKept` needs of all this only the type of the configuration:
`Prepare` is the one step that changes it and does not end in a refusal.

`HarnessProofs` begins with the pool of `Scheduler` by itself: it is well typed
(`PoolTypeCorrect`), accounts for every launched job (`NoJobLost`), keeps its
bound (`ParallelRunsBounded`) and returns a report with job i at place i
(`ReportIsComplete`). The bound is not inductive; `RunningBound` says it of
`running`, which the loop tests, and `ParallelBound` ties `running` to the
goroutines and the unreceived results. `Ordered`, the sort at the end, is
defined by what it returns (a sorted permutation); that one exists is proved
from the distinct indexes. `ImplementsScheduler`: every step of the harness is a
step of the scheduler or leaves its variables alone, so the theorems of the pool
carry over to `Execute` (`ExecutePoolSound`). `HarnessTypeCorrect`,
`NothingIsLeft` and `ReportIsTruthful` rest on `JobInv`: modules run one after
the other (`Progress`, `TestsAhead`), a test that was left behind has ended or is
known to be loose or read early, and has an accepted result unless the job
failed (`TestsBehind`), what the RP
holds is in the list of aliases to delete or was lost (`AliasesKnown`), and a
result says what the job ended with (`ResultSaid`).

`ExampleRPProofs`: `TypeCorrect`, `OneRegistrationPerModule` and
`LoginStaysWithItsModule`; `LoginIsKept`, which adds the issuer, if runtimes
that share a state store agree on whether a login brings an ID token
(`OneConfigPerStore`: a job posts a module with one configuration; a callback
resolved to a runtime without `openid` would not compare the issuer). The
invariant says of every login which configuration started it, of a callback past
the consumption that it took the store, and with the memory store the client,
over from the login (`TakenOver`), that the cache of dynamic registrations holds
the last one of its alias (`CacheOK`), and that the handler at the network holds
the mutex and the cache still lacks its client (`MutexOK`). `OwnInv` adds for
the cookie store that the client of a callback belongs to its registration.

Every safety invariant and action property of the passing runs is stated by a
theorem. Model-checked only is liveness under fairness (`CacheCatchesUp`,
`ExecuteReturns`, `RequestsReturn`), which needs `ENABLED` and is
out of the prover's reach.

## Not modelled

Cryptography, JSON and URL formats, HTTP plumbing, tracing; see the component
list in `PROJECT.json` for each file. In the modelled components: validation of
JWT introspection responses, the status documents of grant management, claims
requests and identity assurance, which are computations on one value; the
matrix, provisioning and report files of the harness, which run before and
after the concurrent part; key generation of the example RP. Registration
management (`rp/dynamic_registration.go`) is a client for one request each and
keeps no state. Application errors outside the library (two sources for one
refresh token, which the documentation forbids) are not modelled either.

## Plan

1. Composition of `Discovery` with `RemoteKeySet` (a document that moves its
   jwks_uri) and of `RPConfig` with the method state of `TokenRefresh`; the
   invariants of the parts are stated over explicit parameters, so that they can
   be cited for an instance.
2. An `AuthCodeFlow` over a store with application values, where an entry
   without a correlation is consumed as one.
