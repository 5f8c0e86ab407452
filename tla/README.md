# A TLA+ model of mcp-oauth-gateway

The gateway is an OAuth 2.1 authorization server and an authenticating reverse
proxy in front of one MCP server, for one operator. It is a single Go process;
its difficulty is in what runs concurrently inside it (HTTP handlers, the
sweeper, the key manager), in what it keeps on disk, and in what a crash or a
failed write leaves behind.

This directory holds the TLA+ modules, the TLC configurations and the TLAPS
proofs. `PROJECT.json` lists components, runs, mutants, findings, hazards and
theorems, and maps every definition to the lines it stands for. Paths below are
relative to `src/`.

## 1. Inventory

| Component | State | Operations | Hard behaviours | What makes it correct | Status |
|---|---|---|---|---|---|
| Session records and the life of a grant (`pkg/repository/kvs*.go`, `sql_sessions.go`, `sql_inventory.go`, `pkg/idp/{authorize,consent,token}.go`, `pkg/mcp-proxy/sweeper.go`) | five kinds of record: authorize requests, codes, PKCE sessions, access and refresh tokens, in bbolt or SQLite | authorize, consent, code exchange, refresh, RFC 7009 revoke, three operator revokes, sweep | every repository call is its own transaction; handlers, revokes and the sweep interleave between them; partial failures; crashes | a revoked grant stays gone; a used code does not come back; the sweep takes nothing that is still accepted and in the end everything that is not | partly: `TokenGrants`, `GrantPresence` |
| MCP proxy (`pkg/proxy`) | none of its own | token check per request, forwarding | the check happens once, the stream goes on | accepts a token only while its record exists | partly: the acceptance rule, in `TokenGrants` |
| Client registration (`pkg/idp/register.go`, `client_source.go`, `pkg/repository/kvs.go`, `sql_clients.go`) | registrations with an expiry, a cap on their number | register, look up, touch, revoke, sweep | an extension is a read and a write; SQLite's sweep lists, then deletes; restarts with another lifetime | how far the cap can be passed; a client in use keeps its registration (both with the exceptions of section 13); a client gets what it declares | modelled: `ClientRegistry`, `ClientMetadata`, and its effect on grants in `TokenGrants` |
| Signing keys (`pkg/keys`, `rotatekey.go`) | `manifest.json`, one file per key, the key set in memory | start, adopt the legacy key, rotate by age / algorithm / command, sweep, sign, verify | crash between two files, failed writes and rollback, stale time, restart with another configuration, power loss | outstanding tokens verify; the manifest can be loaded; memory equals disk; retired keys go | partly: `KeyManager`, `KeyRing` |
| Operator account (`pkg/auth`, `sql_users.go`) | the account, its password flag, passkeys with sign counters | password and passkey login, bootstrap, enrol, delete, password on/off | check-then-act across two transactions; two first logins; lost updates of counters; restart without the password | nobody enters who may not; the operator is not locked out; what is deleted stays deleted | partly: `OperatorAccount` |
| OIDC login and browser session (`pkg/auth/oidc.go`, `routes.go`) | signed cookie | login, callback, logout | rules that are left empty; the cookie is state the browser keeps | only accounts a rule names enter | partly: `OidcPolicy`, in `OperatorAccount` |
| Login lockout, rate limits (`pkg/ratelimit`) | failures of the account, buckets per address | allow, fail, reset, sweep | the clock is read once and used later; check and count are two calls; a sweep with an old time | the number of guesses is bounded; a lock runs its time and is earned | modelled: `LoginLimits` |
| CIMD resolver (`pkg/cimd`) | bounded cache | resolve | concurrent fetches that store in any order, eviction, ages | no stale document outlives its age; the cache stays bounded | modelled: `ClientSource`, `ClientMetadata` |
| Backends, server group (`pkg/backend`, `pkg/mcp-proxy/server.go`) | child process, goroutines, channels, a wait group | start, serve, signal, shut down | a channel nobody reads; who reports first; shutdown not awaited | shutdown ends; the store closes last; an error is reported | partly: `ServerGroup` |
| TLS reload (`pkg/tlsreload`) | cached key pair, two stamps | maybeReload | the pair is two files, stat and read one by one | the served pair matches and follows the files | modelled: `FileReloader` |
| Loopback redirect URIs (`idp/loopback.go`) | none | match | two rules, the gateway's and fosite's, that compare different parts | no other machine or path than declared (section 13) | partly: `ClientMetadata` |
| Client inventory (`repository/inventory.go`, `auth/clients.go`) | none, an aggregation | list | - | counts agree with the records | not modelled |
| Configuration, wiring, pages, logging, random values | none | - | sequential | - | not modelled |

**How the parts interact.** The token endpoint and the consent page write
session records through the repository and ask it (or the CIMD resolver) for
the client; successful issuance touches the client's registration. The token
endpoint signs with the key manager's active key. The proxy verifies with any
key of the key set and requires the token's record to exist. One goroutine, the
sweeper, ages sessions, then clients, then keys, with one time taken at the
start of the pass; it also drops idle limiter buckets and lockout entries. The
operator's pages revoke grants through the repository. The authorize endpoint sends a
browser without a session to the login, whose account is one of the repository's records.
The server group runs all of it and closes the repository last.
Nothing but the database, the key directory and the operator's browser cookie
survives a restart.

The hazards, each at its line and with the properties that cover it, are in
`PROJECT.json`.

## 2. The modules and the plan

What decides whether a token works came first, then the parts by the number of hazards
they have.

| Module | Models | Proofs |
|---|---|---|
| `TokenGrants`, implementing `GrantPresence` | session records (section 3) | `TokenGrantsProofs` |
| `KeyManager`, implementing `KeyRing` | signing keys (4) | `KeyManagerProofs` |
| `ClientRegistry` | stored registrations (5) | `ClientRegistryProofs` |
| `ClientSource`, over `ClientMetadata` | where a client comes from, what it may be (6) | `ClientSourceProofs` |
| `OperatorAccount`, over `OidcPolicy` | the ways to log in (7) | `OperatorAccountProofs` |
| `LoginLimits` | limiter and lockout (8) | `LoginLimitsProofs` |
| `ServerGroup` | the life of the process (9) | `ServerGroupProofs` |
| `FileReloader` | the TLS certificate (10) | `FileReloaderProofs` |

`MC...` modules hold values for TLC. A definition that begins with "Faulty variant of" in
its comment is not part of the specification: it is how a plausible bug would read, and
the mutants of `PROJECT.json` put it in the place of the definition it names.

`ClientSource` and `ClientRegistry` are kept apart on purpose: one is about what a client
is, the other about how long, and their product would only multiply states.
`LoginLimits` and `OperatorAccount` meet at one point, the login whose password was right
and whose account was not locked: `Admit` and `Refuse` in the first stand for what
`CreateUser`/`CountPasskeys` decide in the second.

Left for later: which browser may approve which authorize request (the cookie side of
consent); a composition of grants, keys and clients under one clock and one sweeper;
an abstract specification of the client cache and of the leases of registrations, which
`ClientSource` and `ClientRegistry` would be shown to implement as the grants and the keys are.

## 3. TokenGrants

`TokenGrants` has one variable per record kind and one entry in `proc` per HTTP
handler in flight. A step of a handler is **one repository call**, because each
call commits a transaction of its own; between two of them anything may run.
The OAuth engine (fosite) is a library: the order in which its flows call the
store is taken from the storage interface the repository implements.

| Code | Actions |
|---|---|
| `handleAuth` (idp/authorize.go) | `Authorize` |
| consent POST (idp/consent.go) | `ConsentLoad`, `ConsentCode`, `ConsentPKCE`, `ConsentFails`, `ConsentDone` |
| token endpoint, code | `RedeemStart`, `RedeemLoad`, `RedeemPKCE`, `RedeemBurn`, `RedeemAgain`, `RedeemInvalidate` |
| token endpoint, refresh | `RefreshStart`, `RefreshLoad`, `RotateGet`, `RotatePut` |
| issuance, both | `MintAccess`, `MintRefresh`, `Reply` (with TouchClient), `Abort` |
| `handleRevoke` (idp/token.go) | `RevokeLoad`, `RevokeRefresh`, `RevokeAccess` |
| operator revokes (kvs_inventory.go, sql_inventory.go) | `RevokeGrant`, `RevokeClient`, `RevokeAll`, all through `Kill` |
| `DeleteExpiredSessions`, `startSweeper` | `SweepStart`, `Sweep(kind)`, `SweepFails` |
| registrations, clock, process | `RegistrationExpires`, `RegistrationSwept`, `Tick`, `Crash` |

`Backend` selects what differs between the stores: bbolt ages a record by the
request's own time, SQLite by the time the row was made; bbolt refuses to
rotate a token that has gone, SQLite's UPDATE matches no row and succeeds.
A signature is a number, a grant a model value; the ID of an authorize request
is the request ID all its codes and tokens carry. `spent`, `redeemed`,
`killed`, `dead`, `surrendered` and a handler's `tainted` are history variables
that only properties read.

`GrantPresence` is the abstract promise: a grant enters the store once; whoever
writes a record of it later found one before; nothing else puts it back.

**Properties.** `KilledGrantsStayDead`: an operator revoke that meets no handler
in the middle of a write is final, for all five kinds. `SurrenderedGrantsHoldNoToken`:
the same for a client's RFC 7009 revocation, whose two deletions are separate
transactions, provided nothing else of the grant was pending.
`LateRedemptionFails`: after an exchange consumed a code's PKCE session, an exchange
that begins later never reaches issuance. `ImplementsGrantPresence`: the refinement.
`SweepTakesOnlyExpired`: what the sweep deletes no handler would accept any more.
`ExpiredRecordsAreReclaimed` (liveness): every overdue record goes in the end,
although one failing table ends a pass.

## 4. KeyManager

The key directory is `manifest` and `files`; `mem` is the key set of the process
and `proc` what it is doing. A pass (`NewManager`'s start-up, or `Maintain` from
the sweeper, or `rotate-key`) goes through

    first -> write -> due -> (rotate -> write ->) sweep -> (write -> remove ->) free

and holds the manager's lock on the way, so nobody reads the key set between
its steps; but the process may die after any of them, and every write may fail.

| Code | Actions |
|---|---|
| `NewManager`, `load` | `Start` (refuses a manifest with a missing key file) |
| `initialize`, `adoptLegacyKey` | `SaveFirstKey`, `WriteManifest` |
| `Maintain` | `BeginMaintain`, by `RotationDue` |
| `rotateLocked` | `SaveNewKey`, `WriteManifest`, `PassFails` (roll back) |
| `sweepLocked` | `Sweep`, `WriteManifest`, `RemoveFile`, `PassFails` |
| `rotateKey` (rotatekey.go) | `Start("cli", ...)`, then `PassDone` goes on to the forced rotation, `Exit` |
| `startSweeper` | `TickerFires`: the time is taken here, the keys are reached up to `MaxDelay` later |
| `FositeSigner.Generate` | `Sign` |
| operating system | `Crash`, `FlushFiles`, `LosePower` |

`tokens` are those the proxy would still accept by their expiry and leeway;
`Tick` removes the others. A restart may bring another `KEY_ALG` and another
`ACCESS_TOKEN_TTL`. `unsynced` are key files that were written but, as
`SavePrivateKey` does not sync, may be lost with the power; the manifest is
synced before it is renamed.

`KeyRing` is the abstract promise: one key signs, a replaced key goes on
verifying, is given up only when no accepted token was signed with it, and never
comes back.

**Properties.** `OutstandingTokensVerify`; `ConfiguredAlgSigns` (a serving gateway signs
with the configured algorithm); `MemoryMatchesDisk` (what is served is what a restart
would load); `ManifestComplete` (a restart never fails fast on a state the gateway
made itself); `ImplementsKeyRing`; `RetiredKeysLeave` (liveness).

## 5. ClientRegistry

`clients` is the store: an ID and its expiry, as the last tick at which the registration
is valid. `conf` holds the store's kind and the `DCR_CLIENT_TTL` of the process.

| Code | Actions |
|---|---|
| `handleRegister`, `RegisterClient` | `Register`, when `Admits` (count and insert are one transaction) |
| `GetClient` at the token endpoint | `Load` |
| `TouchClient` after issuance | `TouchRead`, `TouchWrite` |
| a refused grant, an error | `Abort` |
| operator revokes | `RevokeClient`, `RevokeAll` |
| `DeleteExpiredClients`, bbolt | `SweepStart`, `SweepKvs` (one transaction) |
| `DeleteExpiredClients`, SQLite | `SweepStart`, `ListExpired`, `DeleteOne`, `ListDone` |
| errors, clock, process | `SweepFails`, `Tick`, `Restart` |

The sweep works with the time at which its pass began. `lease` is history: how long a
registration was promised to last. It begins with the registration's own lifetime. An
extension prolongs it, and never shortens it, to the earliest expiry (`Promised`) of the
extensions of that client that are then about to be written (`Pending`): each computed its expiry
before, and the one that writes last counts. A restart shortens it to the new `DCR_CLIENT_TTL`
at most, since the next extension will store that. An extension of a client that SQLite's sweep
has on its list promises nothing more: there the code really takes the registration away
(section 13, `viol_touch`).

**Properties.** `RevokedStayGone`; `OvershootBounded`: SPEC.md 1.4's hard cap is not kept
(section 13, `viol_cap`), as `TouchClient` does not look whether the registration is still valid,
so one that expired and was replaced under the cap comes back; but the cap is passed by at most
the number of requests in flight; `LeaseKept`: what was promised is kept, also when extensions
overtake each other, a sweep works with an old time or the lifetime changes at a restart;
`ExpiredAreReclaimed` (liveness).

## 6. ClientSource and ClientMetadata

`ClientMetadata` has no state: what `validateDocument`, `validateRegistration`,
`ValidateRedirectURI`, the dialer's address check and the loopback matching accept, and
what they make of a document. A URI is a record of the parts that are looked at, an
address a class. Its `path` is the path and the query, as the matching compares them; `rest` is
what parsing separates from them: how the path is escaped, and a fragment. `LocalhostSpelling` are
the spellings of "localhost" that `strings.EqualFold` takes for the same, `LoopbackIP` the hosts
that `net.ParseIP` finds to be loopback addresses; `HostAssumption` is what is known of the two.
`ClientSource` is the cache and its users.

| Code | Actions |
|---|---|
| `Resolve`: look-up under the lock | `Hit`, `Miss` |
| `fetch`, without the lock | `Fetch`, `FetchFails` |
| `store`: purge, evict, insert | `Store`, by `Room` and `Survivors` |
| `GetClient` | `Return`, `LookupStored` |
| registration, and its end | `Register`, `Forget` |
| clock | `Tick` |

Times are relative to now, so the state space is finite without a bound on the clock.

**Properties.** `CacheBounded`, `EvictionIsLast` (a good entry goes only if all are good),
`AnswersAreFresh` (no order of stores makes an answer older than a lifetime and a fetch),
`FailuresAreForgotten` (liveness), `ClientsGetWhatTheyDeclare`, `RedirectsStayDeclared`: a URI that
the authorize endpoint accepts for a client is one a document under the client's own ID lists, or
plain HTTP to this machine at a path that document lists, for the same loopback address or for
plain-HTTP `localhost` (`SamePlace`). The run matches what clients list against `Redirect`: other
ports, other spellings of the host, other loopback addresses, other paths, user information. For
the IP literals the listed URI need not be plain HTTP itself: fosite looks only at the scheme of
the requested one, so a document that lists `https://127.0.0.1/cb` is also served at
`http://127.0.0.1:7777/cb`. For `localhost`, which the gateway matches itself (idp/loopback.go),
both have to be. This is less than "nothing but the port": section 13, `viol_redirect`.

`DocumentAssumption` is what tells the two sources apart: a registered client's generated ID is no
URL, so `GetClient` can send an ID to the resolver by its scheme.

## 7. OperatorAccount and OidcPolicy

One variable per table (`users`, `creds`), the sessions that a browser may hold, and what
each request is doing; a step is a repository call.

| Code | Actions |
|---|---|
| `handleLoginPost`, `ensureUser` | `PasswordLogin`, `CreateUser` or `CountPasskeys`, `Respond` |
| the provider's callback | `OidcLogin`, `Respond` |
| `handleWebAuthnLoginFinish` | `PasskeyLogin`, `Asserts`, `Persist`, `Respond` |
| `requireOwnUser` | `OwnRequest`, `OwnPasskeys` |
| `handleSettingsPassword` | `SavePassword` |
| `handleSettingsCredentialDelete` | `DeletePasskey` |
| `handleWebAuthnRegisterFinish` | `AddPasskey` |
| logout, errors, process | `SessionEnds`, `StoreFails`, `Restart` |

`conf` is the deployment: the store, whether a password hash is configured, and the OIDC
rules; `Starts` is what a gateway refuses to start with. The two stores differ where
requests overlap: bbolt has one key for the account, SQLite a table; bbolt overwrites a
passkey it has, SQLite refuses. `seen`, `deleted`, `floor` and `settled` are history: which
requests saw the password open, what was deleted, the highest count accepted, and the
account that was created while nobody else was about to create one.

**Properties.** `AccountIsForLife`: once there is an account there always is one, and only a
bootstrap that had found none, or bbolt's save of an account that was replaced, changes which one
`GetUser` returns (`Replacing`); overlapping first logins do just that, and when the last of these
requests is over the account is for life. `DeletedPasskeysStayDeleted`, `SignCountIsKept` (unless two
requests are at the passkey: then an update is lost, as `persistUsedCredential` reads and
writes in two transactions), `OnlyTheAllowedEnter`, `PasswordLoginsWereAllowed`,
`LockedOutByOwnHandOnly`.

## 8. LoginLimits

`Arrive` is the limiter's middleware; `Compare` bcrypt and the reading of the clock; `Fail`,
`Check`, `Admit` and `Refuse` the rest of `handleLoginPost`, each a call under the lockout's
mutex; `SweepStart`, `SweepLimiter`, `SweepLockout` the sweeper's part. `Lag` bounds the time
between the reading of the clock and its use. `ideal`, `guesses` and `fresh` are history: the
buckets without the sweeper, and the wrong passwords judged while the account was not locked,
when they came and how many came since the last lock.

**Properties.** `GuessesAreRationed`: a guess in the clear and the `Threshold`-th after it are as far
apart as a lock surely lasts, so that no shorter window has more than `Threshold` of them, whatever
interleaves; `LockRunsItsTime`; `LocksAreEarned`;
`SweepIsInvisible`. "At most `Threshold`" holds although `Locked` and `Fail` are two calls,
because a wrong password is counted whether or not the account is locked; only a right one
asks `Locked`.

## 9. ServerGroup

One variable per goroutine: `main` (Run), `waiter` and `setup` (ProxyBackend.Run), `watch`
(watchUpstream), `srv` and `shut` per listener. The unbuffered `errCh` is a joint step of its
sender and receiver (`RunReturns`, `UpstreamReturns`); `exit` is the buffered channel of the
group. The deployments are a stdio upstream behind one or two listeners, and an HTTP upstream
behind two.

| Code | Actions |
|---|---|
| the upstream's process | `ProcessExits`, `ProcessKilled` |
| `ProxyBackend.Run` | `WaiterReturns`, `SetupReturns`, `RunReturns` |
| `gateway.serve`, start-up | `Serve`, `StartFails` |
| `serverGroup.serve` | `ListenerFails`, `ListenerCloses`, `ListenerReports`, `Shutdown`, `Drained` |
| `watchUpstream` | `UpstreamReturns`, `UpstreamJudged`, `UpstreamReports` |
| `wait`, the deferred Close | `FirstReport`, `Joined`, `CloseRepo` |
| signals, requests | `Signal`, `Accept`, `Respond` |

**Properties.** `RepoOutlivesListeners`, `QuietEndsAreAsked` (no error is lost among those it causes),
`StopsOnceStopping` (liveness: it ends, unless a stdio upstream had ended with status 0).

## 10. FileReloader

A file is the pair it belongs to and its stamp (modification time and size). A handshake is
`StatCert`, `StatKey`, `LoadCert`, `LoadKey`, `Store`; the program that renews the certificate
is `Renew`, `Replace`, `Remove`. Two writes within one tick of the file system's clock leave
the same stamp: `coarse` records that this happened, and the properties then say nothing, as
neither does the code.

**Properties.** `UnchangedFilesAreServed` (a certificate is served with its own key, and a pair whose
stamps are remembered is the pair in memory); `RenewedPairIsServed` (liveness).

## 11. Runs

| Run | Instance | Shows |
|---|---|---|
| `grants_flow` | bbolt, 1 grant, 1 DCR client, 2 handlers (symmetric), clock stopped; 0.94 M states, depth 54 | safety of the flows under all interleavings of two handlers with the revokes, expiry of the registration, failures and crashes |
| `grants_time` | SQLite, 1 grant, 1 CIMD client, 1 handler, time 0-5; 0.2 M states | what the sweep may take, and that it takes all of it in the end |
| `keys` | 2 algorithms, legacy key, skew 1, interval 2, late sweeps, power loss; 0.47 M states | safety of the key set, and the refinement |
| `keys_live` | 1 algorithm, time 0-5, 4 keys, no power loss; 10,678 states | the manifest stays complete; retired keys leave |
| `registry` | both stores, 2 requests, cap 1, lifetime 0, 1 or 2, 4 IDs, time 1-3; 0.91 M states | the cap, extensions against sweeps and revokes |
| `client_source` | 2 requests, 3 URLs, cache of 2, 12 pages, 3 registrations, 19 redirect URIs; 0.36 M states | the cache under concurrent fetches; what clients get |
| `account` | both stores, 2 requests, 2 account IDs, 2 passkeys, 3 sets of rules (symmetric); 1.36 M states | every login against the settings page |
| `login` | 2 logins, threshold 2, lock of 3 ticks, lag 1, time 1-6; 1.31 M states | limiter and lockout against late clocks and the sweep |
| `servers` | 3 deployments, 1 request per listener; 50,774 states | start, failure, shutdown |
| `tls` | 3 pairs, clock 1-5; 20,470 states | reload against renewal |
| `viol_rotated` | 1 handler | a refresh token is accepted again after its rotation |
| `viol_upstream` | as `servers`, no requests | a stdio upstream that ends with status 0 is not noticed |

Eleven more configurations reach a counterexample each and are kept for section 13: `viol_code`,
`viol_revoke`, `viol_sweep`, `viol_areq` (module `MCTokenGrants`), `viol_keys_ttl`, `viol_keys_power`
(`KeyManager`), `viol_cap`, `viol_touch` (`ClientRegistry`), `viol_redirect` (`MCClientSource`),
`viol_lockout` (`MCOperatorAccount`), `viol_drain` (`MCServerGroup`).

**Bounds.** *Grants and keys.* `MaxTime` stops the clock, `MaxCodes` and `MaxTokens` the supply of
signatures, `MaxKeys` that of keys. `grants_flow` stops the clock (`MaxTime` 0):
its properties are about the order of transactions, and expiry only removes
records, which `Abort` and the revokes do as well; two codes and two token pairs
let both handlers redeem, or one redeem and the other refresh. Two handlers are
enough for every race the code has: each transaction deletes or writes by one
key or one grant, and a hazard needs one handler between two steps of another.
`grants_time` has one handler because the sweep is the second actor; its times
let every kind of record be created, expire and be swept, in that order. In `keys`
time 7 with an interval of 2 fits two rotations and the removal of the first
key; `MaxKeys` 3 is two rotations after the legacy key. What the bound on keys
must not cause is a gateway that cannot start: `KeysNeeded` keeps `Start` from
beginning what would run out of keys, `Stranded` does the same for a crash
before the first manifest, and a rotation for which no key is left is not due.
`MaxDelay` is the longest a sweep takes from reading the clock to the keys: a
parameter of the environment as much as a bound. With `MaxDelay > Skew` the property
`OutstandingTokensVerify` does not hold: the margin for clock skew is also what
covers a slow sweep.

*The others.* `registry`: with a cap of one and four IDs, a registration expires, is
replaced and is revived, twice; `OvershootBounded` reaches its bound only with as many requests as
handlers. Two positive lifetimes let a restart shorten what requests have promised before it; 0
is a gateway whose registrations do not expire. `client_source` has no bound on time: `Tick` counts down; three URLs are one more than
the cache holds, each page but the good ones has one thing wrong. `account`: `MaxCount` 1 is
enough to tell a lower count from a higher one (an instance with 2 was run as well: 3.2 M
states); two account IDs are what two overlapping first logins need. `login`: time 6 is two locks
in a row; `Lag` is less than the lock, as a login that holds its clock reading for a whole lock
could judge by it anything. `servers`: a request in flight is there or not. `tls`: two renewals on
top of the first pair, the second may overtake the handshake of the first.

`keys` sets `CHECK_DEADLOCK FALSE`: after a power loss the gateway may refuse to
start for good. So do the runs of sections 5 to 10: the process of `ServerGroup` ends, the
renewals of `FileReloader` and the clock of `LoginLimits` run out, the requests of
the others may stay away.

**Fairness.** `FairSpec` of `TokenGrants`: time passes; a pass of the sweeper is
begun again and again (`startSweeper`'s ticker); and no table fails at every
pass, so each `Sweep(kind)` is strongly fair. The handlers have none: a client may
leave at any time. `FairSpec` of `KeyManager`: time passes, the gateway is
started again when it is down (the restart policy of its deployment), its ticker
fires, and each step of a pass, infinitely often possible, succeeds in the end:
disks and processes fail, not always at the same place. Without that assumption
`RetiredKeysLeave` is false, as a directory that can never be written keeps its keys.
`ClientRegistry`: the same of the sweep's steps, and nothing of the requests. `ClientSource`: time
passes, a fetch ends by itself or by the HTTP client's timeout, and a handler runs on; that
fetches succeed is a premise of `FailuresAreForgotten`, not assumed. `ServerGroup`: Go's runtime
runs every goroutine that can run; nothing is assumed of signals, requests, the upstream's answers
or of what fails, and nothing of `Drained`, as nobody waits for it. `FileReloader`: handshakes
keep coming, and a renewal that has begun is finished.

Every property of a passing run has a mutant: a definition changed as a plausible
bug would, under which TLC finds the property violated.

## 12. Proofs

Checked by TLAPS for every value of the constants. There are assumptions only on the
types of the constants (`...Assumption` in each module) and those a theorem names itself.

| Theorem | Module | Says |
|---|---|---|
| `TypesHold`, `TypeCorrect` | `TokenGrantsProofs` | `Spec => []TypeInv`, `Spec => []TypeOK` |
| `StoreKeepsPromise` | `TokenGrantsProofs` | `Spec => ImplementsGrantPresence` |
| `RevokesAreFinal` | `TokenGrantsProofs` | `Spec => []KilledGrantsStayDead` |
| `SurrendersAreFinal` | `TokenGrantsProofs` | `Spec => []SurrenderedGrantsHoldNoToken` |
| `LateExchangesFail` | `TokenGrantsProofs` | `Spec => []LateRedemptionFails` |
| `SqlSweepIsHarmless` | `TokenGrantsProofs` | `Spec => SweepTakesOnlyExpired`, for SQLite |
| `KeyTypeCorrect`, `MemoryIsDurable` | `KeyManagerProofs` | `Spec => []TypeOK`, `Spec => []MemoryMatchesDisk` |
| `ManifestStaysComplete` | `KeyManagerProofs` | `Spec => []ManifestComplete`, without power loss |
| `ServesConfiguredAlg` | `KeyManagerProofs` | `Spec => []ConfiguredAlgSigns` |
| `TokensVerify` | `KeyManagerProofs` | `Spec => []OutstandingTokensVerify`, for one TTL and `MaxDelay <= Skew` |
| `KeyRingImplemented` | `KeyManagerProofs` | `Spec => ImplementsKeyRing`, under the same assumptions |
| `RegistryTypeCorrect`, `RevokedAreGone`, `OvershootIsBounded`, `LeasesAreKept` | `ClientRegistryProofs` | `TypeOK`, `RevokedStayGone`, `OvershootBounded`, `LeaseKept` |
| `AccountTypeCorrect`, `AccountStays`, `DeletedStayDeleted`, `SignCountsAreKept`, `OnlyAllowedEnter`, `GrantedLoginsWereAllowed`, `LockedOutByOneself` | `OperatorAccountProofs` | `TypeOK`, and every property of run `account` |
| `AllowListIsExact` | `OperatorAccountProofs` | the provider lets in whom the settings name, and nobody else |
| `SourceTyped`, `AnswersStayFresh`, `ClientsAreDeclared`, `RedirectsAreDeclared`, `CacheStaysBounded`, `GoodEntriesGoLast` | `ClientSourceProofs` | `TypeOK` with the ages of the entries, and every safety property of run `client_source` |
| `LimitsTypeCorrect`, `SweptBucketsWereFull`, `LocksRunTheirTime`, `LocksWereEarned`, `GuessesWereRationed` | `LoginLimitsProofs` | `TypeOK`, and every property of run `login` |
| `GroupTypeCorrect`, `RepoIsClosedLast`, `QuietEndAsked` | `ServerGroupProofs` | `TypeOK`, `RepoOutlivesListeners`, `QuietEndsAreAsked` |
| `ReloaderTypeCorrect`, `UnchangedFilesServed` | `FileReloaderProofs` | `TypeOK`, `UnchangedFilesAreServed` |

*TokenGrants.* `TypeOK` alone is not inductive: a record is written with the
grant its handler loaded, so that it names a known grant rests on what handlers
hold. `TypeInv` adds that records and handlers bear IDs that were handed out
(`GrantsKnown`, `HandlersKnow`). The refinement needs one lemma per flow: a load
from a record is `Load`, a write `Write`, everything else `Shrink` or a stutter.
`RevokesAreFinal` then follows from the abstract specification: a dead grant has
neither a record nor a pending handler (`DeadInv`), and no step of
`GrantPresence` brings such a grant back. That is why there is an abstract
specification at all: the argument is made once, not once per handler.

`SurrendersAreFinal` cannot use it: an access record may outlive the client's revocation for one
transaction. Its invariant is about the grants that are `Open`, those a pending handler or a
record other than an access record could still bring a token of; no step opens one again except
`Authorize`, which starts a new one (`NothingReopens`), and the revocation closes its grant before
it deletes the access records.
`LateExchangesFail` rests on `CodeInv`: a code leaves the gateway once, only codes that left are
exchanged, and once its PKCE session is consumed none is created for it again, so that a late
exchange never gets past the step that needs one. `SqlSweepIsHarmless` rests on `StampInv`: a record's
lifetime counts from no later than its stamp, and a pass's cutoff is not of the future. On bbolt the
stamp is the time of the authorize request and the first part fails, as `viol_sweep` shows: the
assumption that the backend is SQLite is needed.

*KeyManager.* `KeyInv` ties the phases together: the process holds the manifest
(`Loaded`), keys are older than the next one and listed once (`Minted`), a key set
about to be written is as good as the present one (`NextGood`), and files about to
go belong to keys that have left (`DoomedGone`). `MemoryMatchesDisk` is part of it.
`FilesInv` adds that the new key's file precedes its manifest; it fails with a
power loss, hence the assumption. `TokInv(T)` is the timing argument: while
a pass holds the lock no token is signed, so none expires later than
`at + MaxDelay + T` (`Reckoned`); a retiring key lasts until
`at + T + 2 * Skew`, which covers that plus the leeway when `MaxDelay <= Skew`;
and a retiring key is given up only when every token of it is over (`Covers`). Both
assumptions are needed: `viol_keys_ttl` is the counterexample without the first,
a slow sweep the one without the second. `NextForm` says what a prepared key set looks
like, so that `WriteManifest` is `Install`, `Rotate` or `Drop` of `KeyRing`. `AlgInv`, for
`ServesConfiguredAlg`, follows a start through its pass: a key set with another algorithm is due for a
rotation, which has a key left, and no start gets to serving past it.

*ClientRegistry.* Neither `OvershootBounded` nor `LeaseKept` is inductive. `RegistryInv` adds to
both: `ReachBounded`, that the usable registrations together with those a request is about to
extend are at most the cap and one for each such request, so that a write adds nothing that was
not counted at its read; `SweepIsPast`, that the sweeper's time is not of the future; `LeasesHold`,
that a promise still runs, that the stored expiry covers it, that SQLite's list does not name it
and that an extension made now would not be shorter; and `WritesGood`, that an extension about to
be written is no shorter than what is promised, which is why `lease` takes the earliest one
pending.

*OperatorAccount.* `AccountInv` is a conjunction of parts, each kept by the actions on its own:
`Shape` (types, and what a request in each state holds), `SettledIsAlone` (once an account is settled
no other appears), `AddsAreNew` (a passkey being added was not deleted), `CountsRise`
(a count about to be written is no lower than the highest accepted alone),
`WitnessesSaw` (a request that read no account, or one with the flag off, saw the password open) and
`OneAccountUnhashed` (without a password nobody creates an account, so every request has the one
`GetUser` returns). `AccountStays` is a property of steps (`AccountStep`): only `CreateUser` adds an
account, a save keeps the accounts' IDs except bbolt's of a replaced account (`RowsKeepAccount`,
`SaveKeepsAccount`), and once nobody is `Replacing` a request that begins finds the account that
counts (`NobodyReplaces`). `Account` is the least ID in a finite set;
that it exists is proved once, from the well-foundedness of the naturals.

`AllowListIsExact` needs no invariant: `isAllowed`, as the provider compiled from the settings runs it, is
equivalent to the union of the rules (`Admitted`), blank patterns left out.

*ClientSource.* `SourceInv` is types and ages: an entry's age and what is left of it add up to no more than
a fetch and a lifetime, which is what `AnswersAreFresh` needs when an entry is used on its last
tick. `ClientInv` follows each client back to its source: what is in the cache, in a
registration or in a request is a failure, or comes from a document that passed the checks under that
very ID (`Resolved`, `Enrolled`). `CacheBounded` and `EvictionIsLast` are a count: what `Room` leaves and
the new entry are at most `MaxEntries`, and if nothing had expired exactly one entry makes room.
The attempt to prove an earlier form of `RedirectsStayDeclared`, which had the declared loopback URI be
plain HTTP too, failed on fosite's rule for the IP literals; section 6 says what holds.

*LoginLimits.* `LimitsInv` adds `StreakIsEarned`, that below the threshold there is no lock and every
stored failure was judged in the clear, and `IdealIsPast`, that no bucket was last used in the future.
`SweepIsInvisible` is then inductive: a bucket that has been idle for a window is full, as is
the new one that takes its place. `RationInv` is for `GuessesAreRationed`. The entry's failures, up to the
threshold, are the last of the guesses in the clear; those before them are as old as a lock surely lasts
when the streak begins (`StreaksAreApart`); that is so because a streak ends by a lock that outlasts
every guess before it (`LockCoversGuesses`), or by the sweeper, which goes by the last failure, and
no guess is later than that by more than a reading's age (`EntryKeepsPace`, `ReadingsAreRecent`).

*ServerGroup.* `GroupInv` adds `PhaseMatches` (what is started and what has ended in each phase of `main`)
and `QuietStirIsAsked` (once any part stops or reports, an error is kept or a signal was sent).

*FileReloader.* `ReloaderInv` adds `StampsGrow` (no stamp that was taken is ahead of its file) and,
unless `coarse`, `ReadsFresh` and `ServedFresh` (a stamp that still matches is that of the part read after it).

All these invariants were checked with TLC before they were proved.

**Only model-checked.** The liveness properties (`ExpiredRecordsAreReclaimed`, `RetiredKeysLeave`,
`ExpiredAreReclaimed`, `FailuresAreForgotten`, `StopsOnceStopping`, `RenewedPairIsServed`): fairness is
outside the prover's reach. Every invariant and every action property that a passing run checks is
proved, some under the assumptions named above.

## 13. Where code and documentation differ

Two runs show a disagreement as a finding, with the quotation in `PROJECT.json`: rotated refresh
tokens are accepted again (SPEC.md 1.6 says they are not), and a stdio upstream that ends with
status 0 leaves the gateway running (pkg/mcp-proxy/server.go:79-80).

These have a property and a configuration that reaches the counterexample:

- `viol_code`, `CodeIsSingleUse`: a code can be exchanged twice when two exchanges overlap
  (SPEC.md 1.5).
- `viol_revoke`, `RevokeEndsAccess`: a handler in flight can write a token after a revoke
  (SPEC.md 1.12).
- `viol_sweep`, `SweepTakesOnlyExpired` on bbolt: the sweep ages a code from the authorize request,
  so it may go before it expires. SQLite ages it from its row, see `grants_time`.
- `viol_areq`, `ExpiredAuthorizeRequestIsAbsent`: an expired authorize request can be approved until
  the sweep comes (SPEC.md 2.1).
- `viol_keys_ttl`, `OutstandingTokensVerify`: after a restart with a shorter `ACCESS_TOKEN_TTL` a
  rotation retires a key too early.
- `viol_keys_power`, `ManifestComplete`: the key file is not synced before the manifest that names it.
- `viol_cap`, `CapIsHard`: "at most N stored DCR clients", with a check "so the cap cannot be
  exceeded by concurrent registrations" (SPEC.md:189-192). Registrations alone keep to it, count and
  insert being one transaction, but `TouchClient` revives a registration that has expired and been
  replaced, on both stores. What has expired and waits for the sweep is stored as well and not
  counted (`CountClients`). `OvershootBounded` is what does hold.
- `viol_touch`, `SweepSparesTheActive`: "active clients never expire mid-use" (SPEC.md:187). SQLite's
  `DeleteExpiredClients` lists the expired registrations and deletes them one by one, without looking
  again: a `TouchClient` in between is lost with the registration (sql_clients.go:158-171).
- `viol_redirect`, `OnlyThePortMayDiffer`: a redirect URI may differ "in nothing but the port"
  (SPEC.md:139-146), "every component other than the port must be identical"
  (pkg/idp/loopback.go:31). `matchesLoopbackHostPort` compares scheme, host, decoded path and query, so
  `http://me@localhost:5000/cb` and another escaping of the path match `http://localhost/cb`; the
  case of the host may differ by intent (loopback_test.go:31). For the IP literals fosite does not
  compare the listed scheme either (section 6). `RedirectsStayDeclared` is what does hold.
- `viol_lockout`, `NeverLockedOut`: "so the operator can never lock themselves out entirely"
  (pkg/auth/login.go:158-160) does not hold of a gateway without a password hash, whose last passkey
  can be deleted. `LockedOutByOwnHandOnly` is what does hold.
- `viol_drain`, `RequestsAreDrained`: the comment at pkg/mcp-proxy/server.go:64-67 wants requests in
  flight drained, but `wait` does not wait for the goroutines that call Shutdown, and the process
  may end first.

And these were met while reading, without a run: SPEC.md 1.3 caps a cached client document by the
upstream's `Cache-Control: max-age`, which pkg/cimd does not read; "each begin allows exactly one finish"
(pkg/auth/webauthn.go:105-106) is not so for two overlapping requests with the same cookie, as the
ceremony lives in the cookie; "the table never holds more than one row" (pkg/repository/sql_users.go:30-31)
is not so after two overlapping first logins, as `users` shows, and on bbolt the second of them
replaces the account the first one created, which `AccountIsForLife` allows only while they last; the gateway drains on SIGINT only, a
SIGTERM ends it at once (pkg/mcp-proxy/main.go:199).

## 14. What is left out

Of the modelled parts: scopes, resources, claims and the checks of a request's
parameters (a failing check is an `Abort`); introspection, which only reads; records
that cannot be decoded; the static key from `JWT_PRIVATE_KEY`, which has no
state; `rotate-key` on the directory of a running gateway, which its help text tells the
operator to avoid or to follow with a restart (rotatekey.go:37-40); a manifest or key
files edited by hand; clocks that run backwards; the challenge, the CSRF token and the OIDC
state in the signed cookie, and the cryptography of an assertion; the MCP messages of the stdio
bridge; the redirects, forwarding headers and streams of the proxy and the transparent backend;
ACME certificates, which `autocert` manages.

Of the others: the client inventory is an aggregation that no other code reads; configuration is
parsed once, before anything runs; pages, logging and random values keep no state of their own. See
the notes in `PROJECT.json`.
