# Xinjing: verification of the platform's core

TLA+ models of the Go program under `src/`, model-checked with TLC and proved
with TLAPS. This file says what the system is, which module models which part,
what each run and each theorem shows, on which bounds and assumptions, and what
is left out. Source positions are `file:line` of the repository.

## 1. Inventory of the system

Two services are built from the repository. `cmd/auth` owns the tables `users`
and `refresh_tokens` and serves `/register`, `/token`, `/refresh`, `/revoke`.
`cmd/server` is the gateway: it verifies access tokens with the public key only,
limits rates and serves the routes registered with `internal/gateway`. Each
migrates its own database when it starts, and any number of instances of each
may share that database. The object store and the wasm kernel are packages with
tests that no command uses yet.

| component | code | state it keeps | operations | model |
|---|---|---|---|---|
| Schema migration lock | `persistence/migrate/migrate.go` | the single row of `schema_lock` (token, acquired_at), goose's version table, locals of `acquireLock` | `Run`, `acquireLock`, `releaseLock` | `SchemaLock` |
| Token endpoints | `handler/token.go`, `auth/refresh.go`, `repo/refresh_token_repo.go` | rows of `refresh_tokens`; per request a copy of one row | `/token`, `/refresh`, `/revoke` | `TokenHandler`, `GrantLedger` |
| Registration | `handler/token.go`, `repo/user_repo.go` | rows of `users` | `/register` | `Registration` |
| Rate limiter | `ratelimit/*.go`, `middleware/ratelimit.go` | cache entries (tokens, last), a mutex | `Allow` | `RateLimiter`, `TokenBucketLaw` |
| Memory cache | `persistence/cache/memory.go` | a map with expiry times under a mutex | `Get`, `Set`, `Delete`, `Incr` | `Get`/`Set` inside `RateLimiter` |
| Route registry | `gateway/registry.go`, `gateway/named.go` | slices of routes, whose middleware slices may share arrays | `Add`, `Sub`, `SubRouter.Add`, `Include`, `Mount` | `GatewayRegistry`, `RouteTable` |
| Gateway request path | `middleware/*.go`, `auth/authenticator.go`, `auth/scope.go`, `handler/health.go`, `handler/me.go` | the request's context, the status AccessLog sees | the chain Recovery, Trace, AccessLog, CORS, mux, Authenticate, RequireScope, RateLimit, handler | `GatewayServer` |
| Service life cycle | `cmd/server/main.go`, `cmd/auth/main.go` | where main is, the listening goroutine, the signal context | boot, serve, shut down | `GatewayServer` (boot to exit), `SchemaLock` (start) |
| JWT and keys | `auth/jwt.go`, `auth/keys.go`, `cmd/keygen` | the key pair | `Issue`, `Verify`, PEM files | what `Verify` decides in `GatewayServer`, signatures as a set in `TokenHandler` |
| Object store | `persistence/objectstore/*.go` | object files with `.sum` files; S3 objects | `Put`, `Get`, `Stat`, `Delete`, `Presign` | `LocalStore` |
| Wasm kernel | `wasm/runtime.go`, `wasm/capability.go` | the cache of compiled modules under an RWMutex; instances; the capability map | `Compile`, `Call`, `Close`, `Add`, `RegisterAll` | `WasmRuntime` |
| Repositories, models, config, logging | `persistence/repo`, `models`, `config`, `logging` | rows; nothing of their own | CRUD, environment, log lines | as the handlers use them |

How they interact:

- a starting instance calls `migrate.Run` before anything else; instances meet
  only in the database, on the `schema_lock` row;
- `/refresh` hands a row copy from `ValidateRefreshToken` to `Update` and to
  `Create`. No handler opens a transaction, so requests of any two goroutines or
  instances interleave between statements;
- the gateway calls authentication, then the scope test, then the limiter, then
  the handler; the limiter keeps its state as JSON in the cache, which has its
  own clock and its own idea of when a state is gone;
- the gateway's main goroutine, its listening goroutine and the requests meet in
  `http.Server`: `Shutdown` closes the listener, waits for requests, and `main`
  returning ends whatever still runs;
- the gateway never sees a revocation: access tokens live until they expire. The
  auth service's promises about the refresh token are all there is to revoke.

What is hard in it, and what correctness means (PROJECT.json lists each hazard at
its line):

- *Schema lock.* A holder may die, stall, or lose the answer of a statement;
  clocks of machines differ. Correct: nobody enters while a lease is young,
  nobody's row is deleted by another, success means a migrated schema, and every
  caller returns.
- *Tokens.* Whole-row saves of stale copies, a two-statement rotation, retries
  after lost answers. Correct: a revoked token stays revoked, successors inherit
  exactly user and scopes, 200 to `/revoke` is true, a rotated token is not
  rotated again, nothing is signed without a stored token beside it.
- *Registration.* Lookup and insert are two statements. Correct: whoever is told
  201 owns the account, and a refusal tells the truth.
- *Rate limiter.* Lazy refill over five clock readings, forgetting by expiry,
  fail-open. Correct: no key ever gets more than the token bucket of its policy
  allows, and nobody is left holding the mutex.
- *Route registry.* `append` to slices that share a backing array, conflict
  policies evaluated in one pass, an early return of `Mount`. Correct: a registry is
  a list of routes that own their middlewares, each route is served by exactly its
  chain, and middlewares of different owners do not displace each other.
- *Gateway.* Status codes that depend on the order of seven layers, panics through them, a
  shutdown with a deadline. Correct: the order of the checks, a truthful access log for
  what returns, an answer to every request of `/me`, a drain that cuts nobody early and an
  end to every drain.
- *Object store.* Two files per object, truncated in place, no lock. Correct: what
  one undisturbed writer stored is what readers get, from either back end, whatever
  fails or dies, and the sum tells a whole object from a part or a mixture.
- *Wasm kernel.* A cache keyed by name, a lock released before its result is used,
  instances to be closed on every path. Correct: one binary per name, no instance
  left behind, calls that do not disturb each other.

## 2. Modules

Each component has a module; the `MC...` modules instantiate them for TLC;
`...Proofs` hold the theorems. `GrantLedger`, `TokenBucketLaw` and `RouteTable`
are abstract specifications: what the token endpoints, the limiter and the registry
promise, without requests, statements, caches or arrays. `TokenHandler`, `RateLimiter`
and `GatewayRegistry` are checked to implement them (`KeepsLedger`, `KeepsTheLaw`,
`KeepsTable`). `LocalStore` implements no atomic store: during a `Put` the directory no
longer shows the old object and not yet the new one. Its answers are compared with S3's
instead (`AnswersAsS3`).
`GatewayServer` EXTENDS `RateLimiter` and composes it, step by step, with the life of the
process and the chain of middlewares.

Conventions. One action is one database statement, system call, cache call or clock
reading with the local code up to the next one. `Answers` is what the caller
learns of a statement: `ok`, `fail` (no effect), or `lost` (it took effect and
the caller got an error). `Crash` ends a request or a process anywhere. These
exist when the constant `Faults` is TRUE. Definitions called `Mutant: ...` in a
comment are the faulty variants that show that a property bites; nothing else
refers to them.

### SchemaLock (`internal/persistence/migrate/migrate.go`)

An element of `Runs` is one call of `Run`. `holder` and `acquiredAt` are the row,
`now`, `deadline`, `wake` the locals of `acquireLock`, `next` the list goose drew
up, `applied` its version table. `Start` (CREATE TABLE and the two readings of the
clock), `Insert`, `Takeover`, `Confirm`, `Poll`, `Cancel` are `acquireLock`; `Plan`
and `Apply` are goose's `Up`, which lists the pending files and then applies them
one by one; `Release` is the deferred `releaseLock`, whose error is dropped. The
clock counts half seconds, the poll interval; `acquired_at` and the cutoff are whole
seconds of each machine's own clock (`Wall`), the deadline is monotonic. `lease` and
`clashed` are history variables.

### TokenHandler (`internal/handler/token.go`, `auth/refresh.go`, repositories)

`store[t]` is the row whose `token_hash` belongs to plaintext `t`, `req[s]` the request a
goroutine serves with its copy of the row. `/token` is `Login`, `FindUser`, `Mint`,
`Issue`; `/refresh` is `Present`, `Validate...`, `Retire`, `Mint`, `Issue`; `/revoke` is
`Present`, `Validate...`, `Retire`. `IDCallbacks` says whether the connection fills in
primary keys (`models.RegisterIDCallbacks`); when it does not, `Retire` and `Mint` do what
GORM does with an empty key. `acked` and `raced` are history variables, `signed` is the
set of access tokens ever signed. Expiry is judged by `time.Now()` in `ValidateAccepts`,
and `Retire` reads the handler's clock, at that moment or later, for the revocation and
the new expiry. `late` and `expired` in a request are history: it came after an
acknowledged revocation, or after its token had expired. Clients present only plaintexts a
response carried (`Wallet`) or one that matches no row. A response that is lost is covered
by `Wallet`: nothing obliges the client to use what it was sent, and it may present the
old token any number of times.

### Registration (`HandleRegister`)

`Submit` is the checks of the form, `Lookup` the SELECT by email, `Create` the
INSERT with the UNIQUE constraint on the email and the primary key
(`authmigrations/00001_create_users.sql`). `answered` records responses.

### RateLimiter (`internal/ratelimit`, `middleware/ratelimit.go`, `cache/memory.go`)

`Allow` is `Lock`, `Load` or `LoadFails`, `Take`, `Stamp`, `Store`: at most one
clock reading to a step, so time may pass between any two. `cell` is the cache,
indexed like its keys by scope and caller (the policy is not part of the key).
Tokens are counted in units small enough that every policy accrues a whole number
per tick. `level` is a history variable: the ideal buckets of `TokenBucketLaw`.
The module covers one life of the process, since the cache dies with it.

### GatewayServer (`cmd/server/main.go`, `internal/middleware`, `internal/handler`)

`main` is where the main goroutine is (five boot steps, `serve`, `drain`, `gone`),
`listener` the goroutine of `ListenAndServe`, `status` how the process ended. `Exit` ends
the process with everything in memory, the limiter included. A request occupies a
slot: `GetMe` is everything before the limiter (extracting and verifying the token,
the scope), `WaitForMutex`, `InLimiter`, `LimiterFails`, `LimiterDecides` are `Allow`
and the middleware around it, `HandleMe`, `HandlePing`, `HandlerPanics` the handlers.
`call[s]` records the status that went over the wire (`sent`), the one AccessLog's
writer saw (`seen`) and the one it logged (`line`), so that `Wrote`, `Logged` and
`Recovered` are the three layers that touch a response on its way out. `entitled` is a
history field: what the comments of the middlewares promise about this client.

### GatewayRegistry (`internal/gateway`)

`heap` holds backing arrays, a slice is `[at, len]` and `GoAppend` is Go's `append`: in place
when the array has room, otherwise to a fresh array of twice the capacity. `Add`,
`Sub`, `SubAdd`, `Include` are the operations before `Mount`, which is one action per
route; `Consider` is the loop body of `dedupeMiddlewares` and `Merged` the one of `Include`,
`Deduping` and `Merging` their loops, as recursive functions of the number of turns; `Chain`
is the layers `Mount` wraps around a handler. `Survivors` and `Refused` define the documented
outcome of deduplication without a loop, from sets of positions. `RegistryAssumption` says
that callers pass slices of existing arrays and records of the right shape.

### LocalStore (`internal/persistence/objectstore`)

`link` maps paths to inodes, directories or nothing, `data` inodes to contents: an open
file keeps its inode when the path is removed or replaced. `Put` is `PutCreate` (MkdirAll
and Create), a `PutCopy` per chunk, `PutSum` and `PutDone` (the two halves of WriteFile);
`Delete` is `DeleteFile`, `DeleteSum`; `Get` is `GetOpen` and a `GetRead` per chunk of the
caller's reading; `Stat` is `StatFile`, `StatSum`. The root is a path like others, a
directory at first; the key `.` names it, so that `Delete` may remove it when it is empty.
Opening a directory succeeds, reading one does not. Keys are sequences of segments, so
`path`, `sumPath` and `validateKey` do what they do in the code, and keys may share files
and directories (`Collide`). `stored`, `spoilt`, `offered` and `last` are history: what
the calls that returned should have left, which keys other writers got in the way of, what
was put where, what a call answered. `S3Get` and `S3Stat` are what `s3.go` answers for a
version.

### WasmRuntime (`internal/wasm`)

`cache` and `writer` are the compile cache and the write half of its RWMutex (`CompileLock`,
`CompileModule`); `Lookup`, `Instantiate`, `NoFunction`, `Run` are `Call`; `live` are the
instances, `hosts` the host modules; `Add`, `RegisterAll`, `Register` are the capability
registry, one `Register` per capability in any order. wazero is external and
described in the module's head.

## 3. Runs

| run | instance | shows |
|---|---|---|
| `schema_lock_faults` | 2 runs, lease 1 s, 2 migrations, faults, a clock 1.5 s ahead, a cancellable context | `FreshExclusive`, `ClashOnlyAfterOverrun`, `SuccessMeansMigrated`, `LeaseRespected`, `MigratesUnderLock`, and `Terminates` under fairness |
| `schema_lock_exclusive` | 2 runs, no faults | violation: `MutualExclusion` |
| `token_faults` | 2 requests, 3 tokens, faults | five safety properties of the rows and the refinement of `GrantLedger` |
| `token_revoke_race` | 2 requests, no faults | violation: `NoRedeemAfterRevoke` |
| `registration_faults` | 2 requests, 2 emails, 3 passwords, faults | `AcknowledgedAccountsKept`, `ConflictIsTrue` |
| `registration_blank_ids` | 1 request at a time, no faults, as `cmd/auth` opens its connection | violation: `RefusedMeansTaken` |
| `rate_limiter_law` | 2 goroutines, 2 policies of different scope | refinement of `TokenBucketLaw` |
| `gateway_registry` | 2 registries, 1 sub-router, 4 calls, slices with and without room | refinement of `RouteTable`, `RewrittenOnlyBehindSharedPrefix`, `MountStopsAtFirstFault`, `OnlyNamesakesDisplace` |
| `gateway_server` | 2 requests, 5 tokens, cache errors, panics, a clock that is set, an interrupt | `ServedInOrder`, `LinesOfReturned`, `DrainCutsNobodyEarly`, and `AnsweredAndStopped` under fairness |
| `gateway_access_lines` | 1 request at a time, the same otherwise | violation: `LinesTellAnswers` |
| `object_store` | 2 calls at a time, 3 writes, 5 keys that collide, faults | `IntactUnlessSpoilt`, `SumVouches`, `AnswersAsS3` |
| `wasm_runtime` | 2 goroutines, 2 names, 4 binaries, 2 capabilities, fair | `NoOrphans`, `ArtifactsFixed`, `RegisteredMeansAll`, `SoundCallsSucceed` |

A violation run shows a disagreement between the code and what its own comments say;
PROJECT.json quotes both sides. The properties of the passing runs are stated so that they
hold *with* the disagreements: `FreshExclusive` allows two holders exactly when one has
outlived its lease, `SuccessorsRaced` allows two successors exactly when two refreshes
validated the token before either saved it, `LateRequestsStopped` says what is left of "at
once": only requests that arrived before the acknowledgement can still redeem the token;
`RewrittenOnlyBehindSharedPrefix`, `OnlyNamesakesDisplace` and `MountStopsAtFirstFault`
say exactly when a route changes behind the caller's back, when a middleware displaces
another owner's, and when `Mount` panics; `LinesOfReturned` says that only a panic keeps a
request out of the access log; `IntactUnlessSpoilt` says which keys the local store
vouches for, and `SumVouches` how a reader of the others can tell. So each finding comes
with a proof or a check that there is no other way to get there.

Two properties of `TokenHandler`, `LineageInherits` and `RevocationPermanent`, are in no run
because `KeepsLedger` implies them; both are proved.

### Disagreements without a run

Schema lock and auth service:

- a waiter's deadline is `lockTTL` after *its own* start (`migrate.go:112`) and the row
  is taken over only when older than `lockTTL` in whole seconds, so one that
  starts within a second after a holder that crashed gives up just when the row
  expires, although `migrate.go:23` promises a takeover;
- two refreshes of one token that validate before either saves give it two
  successors, although a rotation is to leave one (`SuccessorsRaced` says when);
- of two registrations of one email that both pass the lookup the second is answered
  500 (`token.go:337`), not 409 as `token.go:284` says, with the id callback too;
- without the id callback (`registration_blank_ids` shows the second user of the service
  turned away) `/refresh` and `/revoke` of a valid token fail as well: GORM saves a row
  with an empty primary key by an INSERT, which meets that row (`Retire`);
- a rotation that a fault cuts between its two statements ends the session
  (`token.go:156`); no comment promises otherwise;
- `JWTManager` takes a clock but `Verify` uses the library's (`jwt.go:32`, `:76`).

Limiter and cache:

- policies of one scope share one bucket, each with its own burst
  (`tokenbucket.go:43`); `cmd/server` mounts one policy;
- a bucket whose burst is larger than what accrues until its entry expires is
  full again after the expiry (`tokenbucket.go:71`);
- after the wall clock is set back the refill is negative (`tokenbucket.go:58`): the
  JSON round trip drops Go's monotonic reading;
- an expired cache entry is reported missing but never deleted (`memory.go:38`), in
  spite of "lazy deletion" there and of `tokenbucket.go:76`: nothing bounds the map.

Gateway:

- a second interrupt is ignored while draining, SIGTERM is not handled at all, the
  database ping of the health check has no timeout (`health.go:19`), and requests
  still running after ten seconds are cut off although they may take fifteen;
- `lookupRateLimitPolicy` installs the default for the life of the process on any
  error of its one query (`main.go:138`);
- keys of middlewares collide after all when a bare name contains a colon
  (`named.go:73`, `:78`), a keep-last duplicate without `Apply` makes `Mount` panic
  (`registry.go:186`), and `append` may write into a caller's array (`registry.go:96`, `:123`).

Object store and wasm:

- `.` segments are not refused (`objectstore.go:50`), so `./a` and `a` are one object on
  disk and two in S3, and `Delete` of `.` removes an empty root; the key `a.sum` is the
  digest file of `a`; `a` and `a/b` exclude each other on disk only;
- overlapping or failing `Put`s leave a part of an object or a mixture of two on disk,
  with a sum that does not fit it (`SumVouches`), where S3 keeps one version whole
  (`objectstore.go:2` calls the back ends interchangeable);
- a local `Stat` that cannot read the sum answers nil with an empty one (`local.go:104`);
- `Delete` of a missing object answers nil on S3 and `ErrNotFound` locally
  (`objectstore.go:28`, `s3.go:104`), and `Stat` has a digest on S3 only if the server reports
  it unasked; a local `Put` may answer nil although a concurrent `Delete` took the file away;
- `CallTimeout` has no effect: the runtime is not configured to stop a function when
  its context ends (`runtime.go:21`, `:95`);
- a second call of a module with a name section fails while the first runs
  (`runtime.go:84`).

### Bounds

- *SchemaLock.* Two runs suffice for holder and successor. `LockTTL = 1` makes a
  lease two ticks, so overrun, expiry at the strict `<` and the deadline all fall
  inside `MaxTime = 7`; the skew of three ticks exceeds the lease. Two migrations let a
  run be overtaken between them. `MaxStart` bounds when a run may start. Past
  `MaxTime` the clock only moves while somebody sleeps, so that deadlines are
  reached. Larger numbers of runs are the business of the theorems.
- *TokenHandler.* Two requests at a time are enough for every race of two copies; three
  tokens are a login and two successors (siblings, or a chain of two rotations).
  `RefreshTTL = 1`, `MaxTime = 2` put both sides of the expiry within reach. `Room`
  keeps a plaintext free for every request that mints.
- *Registration.* Two requests (one in `registration_blank_ids`), two emails, passwords of
  7 (refused), 8 and 72 bytes.
- *RateLimiter.* One tick is half a window; entries expire after four ticks, and
  `MaxTime = 7` lets an entry expire and be recreated.
- *GatewayServer.* Two requests are enough for one to wait for the mutex of the other and
  for a drain that one of them delays. The five tokens are one for each way a client can
  be refused or served: a reader whose token expires under way, an admin, a writer
  without the scope, an empty subject, a forged signature. `MaxTime = 1` and a single
  clock change of one tick (`MaxSlew`) bring a token to its expiry and back; the law
  of the bucket over longer times is `rate_limiter_law`'s business. The wall clock is set at
  most once. `gateway_access_lines` needs one request, a cache that answers and no clock change.
- *GatewayRegistry.* `MaxCalls = 4` allows a sub-router with two routes beside a third one,
  or a registry that is included after it was filled and included again. The shared
  array has no room, or one or two free cells; the offered middlewares have a
  namesake that keeps the first, one without `Apply`, one with a colon in its
  name, one with an invalid provider.
- *LocalStore.* `MaxWrites = 3` with two calls at a time: an object, a writer that
  replaces it and one that gets in its way, while reads are not bounded. Of the keys
  `a`, `a.sum`, `a/b`, `.` and `../a`, four share files or directories in different ways and one
  is refused; contents are of one and of two chunks, none of them a sum. Two names of one
  object (`a`, `./a`) are left to the theorems.
- *WasmRuntime.* Four binaries: a sound one with an import, one with a name section
  and no function, one that loops under the name of a capability, and a broken one.
  State is finite without bounds.

Symmetry is used in safety runs only, over goroutines, tokens, callers and emails;
skewed runs of `SchemaLock` are not symmetric and use none. `CHECK_DEADLOCK FALSE`
stands where the system really stops: every run of `migrate.Run` may be over and the
clock at its bound, `Mount` is the last call on a registry, a gateway that has exited
stays down.

### Fairness

`SchemaLock!FairSpec`: a goroutine that can execute its next statement does so, and
the clock advances.
`GatewayServer!FairServerSpec`: weak fairness of `Handle`, a request that can go on goes on;
strong fairness of `WaitForMutex`, since a waiter of `sync.Mutex` is passed over only
for a bounded time (starvation mode after 1 ms); weak fairness of `GraceExpires`, the
timer of Shutdown's context. Neither the ping of the database nor any signal is fair.
`WasmRuntime`: strong fairness of each goroutine's `Step`, which only the RWMutex can
disable again, and a waiting `Lock` keeps later readers out; a function that spins has
no step. Arrivals, crashes, cancellation and clock changes are never fair. Statements may
fail under these assumptions: fairness is of the step, not of its outcome.

## 4. Proofs

All theorems hold for every value of the constants that satisfies the named
assumptions of the module; none assumes bounds.

- **SchemaLockProofs.** `TypeCorrect`; `Exclusive` (`FreshExclusive`); `LeaseKept`
  (`LeaseRespected`); `MigrationsSafe` (`MigratesUnderLock`); `MigratedSafe`
  (`SuccessMeansMigrated`); `ClashSafe` (`ClashOnlyAfterOverrun`). `FreshExclusive` is not
  inductive. The invariant `LockInv` adds that the row's `acquired_at` is the one its
  owner remembers, that a local `now` never runs ahead of its machine's clock, and that a
  holder has the row or has outlived its lease; the heart is that a takeover proves an
  overrun (`TakeoverMeansOverrun`) and that an overrun lasts (`OverrunStable`). `Migrated` adds
  what a run that found nothing left to plan knows of `applied`; `PlannedIsPast` and
  `StaleAfterOverrun` relate the list a planner drew up to what is applied since.
- **TokenHandlerProofs.** `TypeCorrect`, `LineageSafe`, `RenewalSafe`, `LateSafe`,
  `AckSafe`, `SignedSafe`, `RevocationSafe`, `SuccessorSafe` and `Refinement`
  (`Spec => KeepsLedger`). The properties speak of rows, but rows are written from copies,
  so `IInv` says what a request between two statements knows: its copy agrees with
  the row in all but the revocation mark, the token it rotates is already revoked,
  the row it signs beside exists, its `now` lies between the validation, at which the
  token had not expired, and the present.
  `SuccessorSafe` adds that, as long as a token is not in `raced`, at most one refresh
  or row is its heir.
- **RegistrationProofs.** `TypeCorrect`, `AccountsSafe`, `ConflictSafe`, with the create
  callback or without it. The argument is about steps, not states: a row once written
  is never written again (`WriteOnce`).
- **RateLimiterProofs.** `TypeCorrect` (including: `mu` is held by exactly the request
  inside `Allow`) and `LawKept`: a `Sound` configuration implements `TokenBucketLaw`.
  `Sound` is: the cache answers, nobody sets the clock, no two policies share a scope,
  and `Capacity <= TTL * Flow`. The default policy of `cmd/server` (100 in 60 s, burst 10)
  satisfies it. The invariant `Credit` says that what is on record for a key, plus what
  has accrued since, never exceeds the ideal bucket.
- **GatewayServerProofs.** `ServerTypeCorrect`, `OrderSafe` (`ServedInOrder`), `LinesSafe`
  (`LinesOfReturned`), `DrainSafe` (`DrainCutsNobodyEarly`), for any number of requests,
  tokens and policies. Every step of the server is a step of the limiter, a stutter or
  the end of the process (`LimiterStep`), so the limiter's `TypeStep` is used as it is.
  `ServedInOrder` and `LinesOfReturned` are not inductive: `Good` adds that nothing is sent,
  logged or recovered before the answer, and that the layers keep what they found.
- **WasmRuntimeProofs.** `TypeCorrect` (including: the write lock is held by exactly the
  goroutine that compiles), `ArtifactsSafe` (`ArtifactsFixed`), `OrphansSafe` (`NoOrphans`),
  `RegisteredSafe` (`RegisteredMeansAll`), whatever binaries import, export and are called.
  The invariant `Artifacts` says what a goroutine between two steps relies on: no
  binary under the name it compiles, the cached one for the call it makes.
- **LocalStoreProofs.** `TypeCorrect`, `IntactSafe` (`IntactUnlessSpoilt`), `AnswersSafe`
  (`AnswersAsS3`) and `VouchSafe` (`SumVouches`), for any keys, contents and number of callers,
  from `LocalStoreAssumption` (below). The first three rest on `StoreInv`. It says
  who is in whose way: a writer has spoilt the keys near its own (`Claimed`), one that is
  calm is alone there (`Alone`), nobody writes what an expecting reader reads (`Quiet`).
  It says how far an undisturbed call has come (`Progress`): the file holds the chunks
  copied so far, the sum's file is the one it has open, what was read is a beginning of
  the version found. And the files of an unspoilt key are its object's, or nothing keeps
  one from being created (`Kept`). A step touches the files of one key and the directories above
  them (`LocalTo`), so keys that share none are `Steady`; `Preserved` combines what a step does
  to its own call with what it leaves the others, once for all actions. `InodeLeft` shows by
  the pigeonhole principle that `Opened` always finds a free inode.
  `VouchSafe` takes `NoSumsPut`: no content that is put contains a sum, as a caller that puts
  a forged sum under `a.sum` could. Then every sum in a file was written there by
  `PutDone`, for content put under the path beside it (`Backed`), and `sumPath` tells that
  path (`SumPathTells`). The theorem holds for spoilt keys too.
  `LocalStoreAssumption`: finitely many slots, inodes distinct from `NoFile` and `Dir`,
  contents are sequences of chunks, and the path of a key is a sequence of segments. No
  valid key is excluded.
- **GatewayRegistryProofs.** `TypeCorrect`, `RewritesBehindPrefix`
  (`RewrittenOnlyBehindSharedPrefix`), `ImplementsTable` (`Spec => KeepsTable`), `DedupeIs`,
  `MountsUpToFault` (`MountStopsAtFirstFault`), `NamesakesDisplace` (`OnlyNamesakesDisplace`),
  for any registries, arrays, lists and number of calls, from `RegistryAssumption`.
  About slices: `append` writes in place behind the window it extends or into an array of
  its own (`AppendIs`), so windows stay windows (`Grows`) and show something else only when
  they reach behind that slice (`AppendKeeps`); a slice without room never does. About the
  two loops: `IncludedSoFar` and `DedupedSoFar` say what has been done after n turns.
  The heart of the second is a correspondence: the list kept so far has, for each
  leader (first of its key) among the n seen, the last overrider, or the leader, in the
  order of the leaders; so key lookup finds a leader exactly when the next one is none
  (`SeenIs`). The library's induction theorems take an operator as a parameter,
  which the provers cannot instantiate; `UpTo` is induction for a set instead, from the
  least counterexample (`Least`), which the well-foundedness of the naturals gives.
  `MountInv` adds to `MountStopsAtFirstFault` that nothing is served before the loop,
  so calls that change arrays or routes find nothing they could spoil.
  `OnlyNamesakesDisplace` is not an invariant of its own but follows: a served route has
  the survivors of its list, one of them with the key of any middleware declared
  (`SurvivorOf`), and keys with a provider split at the first colon (`SameQualified`).

Only model-checked: all liveness (`Terminates`, `AnsweredAndStopped`,
`SoundCallsSucceed`), as liveness and ENABLED are beyond the prover's backends.

## 5. Not modelled, and why

- Request decoding and its 400 answers (they touch no state); bcrypt, SHA-256 and RS256
  (taken to be injective or unforgeable; signing is an element of a set); goose,
  GORM and the drivers beyond what the handlers rely on; log lines, configuration,
  headers set by CORS and Trace; models no code uses yet. `dialectFor` and `rebind` of
  `migrate.go` are pure string functions.
- The branches for corrupt cache data (the limiter reads only what it wrote) and for
  unauthenticated callers (`scopeKey`'s fallback to the address: every mounted route
  authenticates).
- `Memory.Delete` and `Memory.Incr`, repositories' `GetByID`, `List`, `Delete`: no code calls
  them outside tests.
- `Presign`, sizes and modification times, and the choice of the back end from the
  environment; permissions and symbolic links of the file system.
- The life of `cmd/auth` from boot to exit: it is the one of `cmd/server` with two durations
  to parse in place of a policy to look up, and its request path is `TokenHandler`'s.
- Executing a wasm module, memory limits and the `log_write` host function: wazero's
  contract.
- Key generation and the PEM formats of `auth/keys.go`: file formats without state.

## 6. Plan

Done: `SchemaLock`, `TokenHandler`, `Registration`, `RateLimiter`, `GatewayRegistry`,
`GatewayServer`, `LocalStore`, `WasmRuntime`, with the proofs above. What could follow:

1. `MemoryCache` of concurrent callers, once something but the limiter calls `Delete` or
   `Incr`.
2. The wasm kernel inside the gateway, and the object store behind it, once a command
   uses them.
