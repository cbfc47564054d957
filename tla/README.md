# mofgw: TLA+ models, model checking and proofs

mofgw is an OpenAI-compatible gateway in Go. It authenticates a client, admits
the request under concurrency limits, answers it from a cache or from another
request's flight when it may, and otherwise walks a chain of upstream providers
until one of them answers; it charges what was used, films what happened, and
keeps its books across restarts. A second program, `mofgw-sync`, rewrites the
gateway's configuration from public catalogs, restarts it and rolls back.

This directory holds the TLA+ project kept beside that code. Paths below are
relative to the repository's root.

## 1. Inventory

| Component (source) | State it keeps | Operations | Interacts with | What is hard | What makes it correct |
|---|---|---|---|---|---|
| Fallback router (`internal/router`) | cooldowns, sticky affinity, degradation counter; per request: ready list, exclusions, attempts, last error | `complete`, `stream`, `candidates`, `resolveReady`, `fastFail`, `recordFailure`, `applyStickyReorder`, `nextCyclicCandidate` | reads the health store, calls providers, writes attempt events, is called by the proxy | locks taken provider by provider, stale ready lists, sleeps, cancellation | each eligible provider at most once and in chain order; failing only when exhausted; the caller's own errors cool nobody |
| Request admission (`internal/limiter`, `proxy.go` 582-616) | a global semaphore, one per client, one per agent with its last use | `Acquire`, `AcquireClient`, `AcquireAgent`, `Release`, the lazy purge | first stage of `handleChat` | deferred releases on every path, purge of entries in use | limits respected, no slot lost, everybody leaves |
| Chat pipeline (`internal/proxy` with `responses.go` and `embeddings.go`, `singleflight`, `respcache`, `absorb`) | cache, flights, charged usage, terminal events | `handleChat`, `handleResponses`, `handleEmbeddings`, `handleStream`, `handleChainError`, `Group.Do`, `Get`/`Set`, `Absorb` | admission before it, router or Ollama inside it, accounting and registry after it | check-then-charge, followers, panics, eviction, three endpoints over one cache | no answer crosses clients or endpoints, ledgers agree, one outcome per request, bounded overshoot |
| Provider client, stream relay (`internal/provider`, `internal/stream`, `handleStream`) | per request: one pump per attempt, a merge, a capture, bounded channels | `Stream`, the first-token race, `CaptureUsage`, `Copy` | the router opens it, the proxy copies it to the client | a reader that leaves, an attempt abandoned with a full channel, a body that ends early | one attempt per answer, in order; the usage billed is the client's; a break is told; the handler ends |
| Health store (`internal/health`, `cmd/mofgw`) | a verdict per provider and its age | `Register`, `CheckNow`, `CheckDue`, `IsHealthy` | router, `/healthz`, ticker | probes one after the other, dropped ticks, boot and ticker at once | a verdict is soon true; both readers agree while serving |
| Accounting (`internal/metrics`, `cmd/mofgw`) | usage, cost, session and context records; the state file | `IncUsage`, `IncCost`, `RecordSession`, `RecordContext`, `UpdateContextUsage`, `SaveState`, `LoadState`, shutdown | called by the proxy, timer, main | snapshot book by book, two savers, crash, retention | nothing saved is lost, nothing is charged twice, retention holds |
| Subprocess engine (`internal/subprocess`) | session directories, locks, last sweep | `Complete`, `Stream`, `resolveSession`, `acquireLock`, `sweepStale` | a provider of the router | lock taken after the decision, sweep | one process per session |
| Models caches (`internal/modelscache`, `modelsdev`, `upstream`) | cache file, sidecar, lock file | `Refresh`, `Get` | mofgw-sync, the sources | two processes, sidecar first, fail-soft | a cache is whole, never goes back and is eventually fresh |
| Catalog merge, serializer (`internal/catalogmerge`, `configsync/serialize.go`) | `config.yaml` | `Merge`, `Serialize`, `validate` | configuration sync, the wire | curation by several sources, what the operator wrote | idempotent, touches nothing else, no order decides |
| Configuration sync (`internal/configsync`, `internal/reloadsig`, `cmd/mofgw-sync`) | config file, sidecar, the running service | `Apply`, `Run`, `rollback` | caches, systemd, the gateway | failure or kill at any step | exit codes tell the truth, rollback serves, the timer retries |
| Bodies on the wire (`internal/clamp`, `proxy.go`, `router.go`) | none | clamps, window check, `include_usage`, thinking injection | proxy, router, what the sync wrote | limits of two origins, a body per attempt | what was admitted fits; an effort is one the model lists |
| Request registry (`internal/registry`) | the current file | `Write` | router and proxy write to it, the summary reads it | rotation from outside, failed writes | one line per event |
| Catalog and client configurations (`proxy.go` 1250-1326, `proxy/clientconfig.go`, `internal/clientconfig`) | none | `modelCatalogEntry`, `configCatalogModels`, `handleClientConfig`, three `modelFragment` | what the sync wrote, the clients' own files | fields that are zero, absent or fallbacks of another | a client is told what the gateway enforces and serves |
| Composition, timeouts | none | `Analyze`, `Attempt` | proxy, router | - | pure |
| Configuration, auth, client registry, web search, read-only endpoints, factory, logging, Odoo addon, scripts | read once at start, or none | parsing, look-ups, translation | - | - | not modelled, section 9 |

`PROJECT.json` lists every component with its status, and under "hazards" what
is hard to test in this code, at its line, with the properties that watch it.

## 2. Modules

| Module | Models | Role |
|---|---|---|
| `Router` | the fallback chain | state machine, properties, inductive strengthening |
| `RouterPromise` | what the chain promises its caller | abstract specification, implemented by `Router` |
| `Admission` | the three limiters as `handleChat` takes them | state machine |
| `Chat` | `handleChat` after admission, `handleResponses`, `handleEmbeddings` | state machine |
| `StreamRelay` | one streaming call, from its attempts to the client | state machine |
| `Health` | the health store, its ticker and its readers | state machine |
| `Accounting` | the books and their life across restarts | state machine |
| `Subprocess` | sessions of the subprocess engine | state machine |
| `ModelsCache` | the cache of one source under several runs of mofgw-sync | state machine |
| `SyncPlan` | what a run makes of `config.yaml` and the catalogs | pure definitions, iterated |
| `Wire` | the bodies a request becomes, over the file `SyncPlan` leaves | pure definitions |
| `ClientConfig` | what clients are told of limits, models and efforts, over the same file | pure definitions |
| `ConfigSync` | a run of mofgw-sync and the service it restarts | state machine |
| `RouterProofs`, `AdmissionProofs`, `ChatProofs`, `StreamRelayProofs`, `AccountingProofs`, `ConfigSyncProofs` | | theorems about the module of the same name |
| `ProvidersProofs` | | theorems about `Health` and `Subprocess` |
| `CatalogsProofs` | | theorems about `SyncPlan`, `Wire`, `ClientConfig` and `ModelsCache` |
| `MCRouter`, `MCAdmission`, `MCChat`, `MCAccounting`, `MCConfigSync`, `MCSubprocess`, `MCSyncPlan` | | values of the constants for TLC |

The modules meet where the code's components meet. `Chat` takes from `Admission`
one thing, that a client has at most `Slots` requests inside, which
`AdmissionProofs!SlotsCorrect` and the run `AdmissionMixed` establish. It takes
from `Router` the outcomes a chain may end with (`ErrorCodes`), which are the
results of `Router`, and a stream, one step there, is `StreamRelay`. `Accounting`
begins where `Chat` charges. `Health` produces what `Router`'s `HealthFlip`
leaves open. `ModelsCache` leaves the catalogs that `SyncPlan` merges; what
`SyncPlan` makes of them is `ConfigSync`'s candidate, and `Wire` EXTENDS
`SyncPlan` because its limits and levels are what the runs of the sync left.
`ClientConfig` EXTENDS `Wire` to compare what is told with what is done.

Definitions whose name starts with `Slip` are mistakes that could be made in
that place of the code: for each property one of them is used to see that the
property would notice.

### 2.1 Router

A request (`pc`) is scanned (`ScanProvider`, one provider per step, because
`candidates` takes the locks of cooldowns and health one provider at a time),
may sleep once in grace (`StartGrace`, `GraceElapsed`), fails fast or starts its
chain (`StartChain`, where the sticky reorder happens), and then visits
providers: `Visit` is the cyclic choice and the exclusion of what was visited,
`DelayElapsed` the inter-attempt delay on a shared endpoint, `CallOk`,
`CallRefused` (a 4xx), `CallRetried`, `CallFailed` and `PrepareFailed` the ways
an attempt ends, `BackoffElapsed` the retry of the same provider. `complete`
and `stream` are one action set: where they differ (`Kept`: the status kept in
`lastChain`; cancellation) the set `Streaming` decides. `Tick` lets every
cooldown and sleep run; a jittered length is any member of `CoolTimes`.
`HealthFlip` and `Cancel` are the environment's. `FastFail` counts in
`degraded`, which all requests share and a success resets; `OverLimit` is the
comparison that turns its 502 into a 503.

### 2.2 Admission

`TakeGlobal`, `GiveUpGlobal`, `TakeClient`, `RefuseClient`, `LookUpAgent` (the
map's mutex: purge, look-up or creation), `TryAgent`, `RefuseAgent`, and the
deferred releases in reverse order (`Finish`, `FreeAgent`, `FreeClient`,
`FreeGlobal`). An agent's entry may be purged and created again: its semaphores
are numbered generations, and a request keeps the one it looked up. Requests in
`Hanging` need never end: their upstream owes nothing.

### 2.3 Chat

The steps of a request are those between which another request can be seen:
`CacheHit`/`CacheMiss`, `RejectLong`, `RejectBudget`, `PassLimits`, then
`Direct` (a stream or a request that may not be shared), `Join` (a follower),
`Lead` or `Alone` (the group is full), the chain's end (`ChainServes`,
`ChainFails`, `ChainPanics`; `EndStream`), `Store`, `Land` and `Remove` (the two
halves of `Group.Do`'s end), `FollowServed`/`FollowFailed`, `Bill`,
`FilmSuccess`, `Write`. What is charged and filmed are tokens, one per answer,
which come from the same usage in both places. Dollars are left out: those
charged and those filmed have two sources, and disagree (section 8).

The three endpoints share these steps and differ in constants: `Responses` have
a cache key and a flight key of their own and, with web search (`Searching`),
are not kept; `Embeddings` pass no limiter, no cache and no chain, are served by
Ollama, charged, filmed when they succeed and not when they fail. The bodies a
cache or a flight may take for the same are those of one `Canonical` form.

### 2.4 Accounting

Each book has a mutex of its own in the code and a step of its own here, on the
side of the request (`IncUsage`, `IncCost`, `RecordSession`, `RecordContext`,
`UpdateContextUsage`) and on the side of the snapshot (`CaptureUsage` ...
`CaptureContexts`). Two savers exist, the ticker's goroutine and the final save
of the deferred function; `Rename` is the only step that changes the file.
`Terminate`, `Close`, `FinalSave`, `Exit` are main's shutdown, `Crash` is the
process's end without it. `Boot` is the restoration, down to the limits in force
before the configuration is applied (`DefaultRetained`, `DefaultHistory`), after
which the configured one counts (`retained`, from `LimitAfter`, one per life).
`BootClean` is `LoadState`'s error: the books start clean and the file stays
until the next save overwrites it. Requests outside `Served` fail, and leave a
record of their composition only. Three variables tell a history: `safe`, what
had been recorded completely when a save that reached the disk began; `gone`,
what of it memory lacks because its boot could not read the file; `erased`, what
of it the file lacks because such a process has saved since.

### 2.5 ConfigSync

A configuration is a pair, what the operator wrote and the models the sync
derives, and a digest is the configuration it was computed from: SHA-256 is
taken as injective. `Start` is the single read that feeds the run; `Reject`,
`Skip`, `WriteSidecar`, `WriteConfig`, `WriteFails` are `Apply`; the rest up to
`Verify2` is `reloadsig.Run` in its order. The gateway is what it was started
with (`running`) or down; `Unfit` models keep it from coming up. `Kill` ends
the run at any point, `ServerReturns` is the unit's `Restart=on-failure`.

### 2.6 Subprocess

A session is a client's: its directory (`dirs`, `dirAge`), its entry in the lock
map (`entry`, `used`) and the conversation the CLI keeps. The channel of an
entry is a slot, named by the request that made it, so that an entry evicted and
made again is another slot. `Sweep`/`SkipSweep`, `Stat`, `Mkdir`/`MkdirFails`
are `resolveSession`, which runs before the lock; `LookUp` is the part of
`acquireLock` under the mutex, `Take`/`GiveUp` its select, `Release` the receive
that hands the slot to a blocked sender, as Go's channels do. `Spawn`,
`NoProcess`, `Served`, `NotFound`, `RunFails` are `Complete` and `Stream` under
the slot: they differ in the retry of a lost conversation only, and the reader
of a stream who leaves is a `RunFails`. `Restart` forgets the map and ends the
processes, `Tick` lets everything age, up to the TTL.

### 2.7 StreamRelay

A goroutine is named by the channel it sends on. The pump of an attempt reads
lines (`Line`, `ReadError`, `EndOfBody`) and sends them; no send looks at a
context, so that an abandoned pump stays where it is. The router opens attempts
(`Open`, `Refused`, `Exhausted`), waits for the first event (`FirstTokenTimeout`,
`ClosedBeforeFirst`, `FirstIsError`) and after `Commit` never goes back.
`Receive`, `Send`, `End` are the merge and the capture, the latter taking the
usage on the way; `Write`, `WriteFails`, `ChannelClosed` are `Copy` and what
`handleStream` makes of its result. `Disconnect` is the client's or the write
deadline's; the upstream's stall is a line that never comes. An event carries its
attempt and its position, which is what `OneAnswer` reads.

### 2.8 Health

Time has no clock: what is kept is the age of each verdict, the phase of the
ticker, whether a tick waits in its channel of one, and how long a probe has
taken. `CheckDue` takes the tick and lists who is due (`Due`); `BeginProbe` and
`EndProbe` are `checkOne` of the ticker's goroutine and of the boot's; `Serve`
is main, which listens after `CheckNow`. `Advance` lets a unit of time pass, but
not past a probe's timeout nor past a tick that somebody can take. `wrong`
counts for how long a provider that does not change has had the other verdict.

### 2.9 ModelsCache

A run locks (`Lock`, `LockBusy`), or does not where the store has no lock, looks
at the knob and the age (`StatDisabled`, `StatFresh`, `StatStale`), fetches with
one retry (`FetchRetried`), compares digests (`SkipIdentical`), writes the
sidecar and then the file (`WriteSidecar`, `WriteCache`, `WriteFails`), and loads
what is there or the embedded snapshot (`Load`). `Kill` ends it anywhere and
frees the flock, as the kernel does. Bytes are numbered in the order the source
publishes them, which is what makes "older" a comparison.

### 2.10 SyncPlan, Wire and ClientConfig

`Candidate` is `Serialize` of `Merge`: the access of each provider (`Access`,
`PlannedModels`), the provider of models.dev that describes it (`Mirror`,
`Lister`), what each source gives for a field (`Given`, `Givers`, `Winner`) and
what of the operator's stays (`Written`, `Default`, `NewModels`). `Valid` is the
part of `validate` a catalog can break. A step is a run of the sync: it publishes
a valid candidate and leaves the file otherwise. `Wire` takes a client's body
through the clamp by model, the window check, the clamp by provider and the
injection of the prescribed effort, per attempt (`AttemptBody`, `Sent`).
`ClientConfig` goes the other way: `CatalogEntry` is what `/v1/models` says of a
model, `Fragment` what each renderer keeps of it, with the fallback between two
keys of one limit (`FirstPositive`), and `HandleClientConfig` the endpoint. Its
two properties are conjunctions, `LimitsAgree` of `AdmittedFits` and
`ToldIsEnforced`, `EffortsAgree` of `EffortIsListed` and `ToldIsServed`.
`SlipZeroToo`, a fallback that takes a zero for a value, is a second mutant that
`LimitsAgree` notices.

## 3. Runs and what they show

| Run | Question (every answer is yes) |
|---|---|
| `RouterShared` | Two requests, one streaming, over two providers, one of them private, with cooldowns, grace, health flips, one sticky key and cancellation: is an unhealthy provider only called as the last resort (`UnhealthyIsLastResort`), and does the chain implement `RouterPromise` (`RefinesPromise`)? And of the counter of degraded requests they share: is the limit told only after it is used up, and is nobody let through beyond it (`DegradedIsEarned`)? |
| `RouterChain` | Three providers with a shared endpoint, a retry, an inter-attempt delay, a visit budget below the number of providers, a model only the last provider serves and one nobody serves: do visits follow the chain (`VisitsFollowChain`), is exhaustion real (`ExhaustionIsReal`), does the last 4xx reach the caller (`Last4xxReachesCaller`), is everybody answered (`Answered`)? |
| `AdmissionMixed` | Four requests, two clients with different limits, entries that are purged, requests of one client that hang for ever: do slots match holders (`SlotsMatchHolders`), does an agent's budget hold for requests younger than its entry (`YoungAgentBudget`), does everybody else get through and leave although no backpressure timer fires (`Leaves`)? |
| `ChatShared` | Five deterministic requests of two clients, two of them to responses and one of these with a search, one cache entry, one flight: does anything leak (`CacheNeverLeaks`), do the three ledgers of tokens agree (`LedgersAgree`), is every outcome told once (`OutcomeFilmedOnce`), is a body sent once at a time (`NoDuplicateCall`)? |
| `ChatBudget` | A budget, a stream, a panic, an embedding, an oversize request: is the overshoot what the concurrency allows (`OvershootBounded`), is everybody answered (`Answered`)? |
| `StreamRelay` | Two attempts, errors at any step, a client that leaves at any moment: is what the client sees one attempt's answer in order (`OneAnswer`), is what is billed what it saw (`UsageIsTheClients`), is a break told (`BreakIsTold`), does the handler end (`Ends`)? |
| `Health` | Two providers that fail and recover at any time, ticks that are dropped: is a wrong verdict gone within the bound (`SoonTruthful`), do the router and `/healthz` read the same (`ReadersAgree`)? |
| `Accounting` | Saves, shutdown and crash at any moment, a boot that reads the file or cannot, a limit lowered at the restart: is what was saved kept, but for what a boot could not read (`SavedNeverLost`), does retention hold and is a client's record complete (`ClientRecordComplete`), does the process stop (`Stops`)? |
| `Subprocess` | Two completions and a stream of one client, sweeps, lost conversations, a restart: does one process run at a time (`OneProcess`), in a directory that stays (`RunningKeepsDir`), and does every request end (`Answered`)? |
| `ModelsCache` | Two runs with and without the lock, failures and kills at any step: does one run at a time act on a stale file (`StaleIsSeenOnce`), does the cache never go back (`NeverOlder`), what keeps it from being fresh (`FreshUnlessTrapped`)? |
| `SyncPlan` | All mixes of sources and offers, run after run: does the file stay valid (`StaysValid`), has a second run nothing to do (`Fixpoint`), is the rest of the file untouched (`NothingElseTouched`), does the order of the document not matter (`OrderHasNoSay`)? And of the bodies over every such file: does what was admitted fit, and is a client told the limits that are enforced (`LimitsAgree`); is an effort one the model lists, and is it, like every model, what the client is told (`EffortsAgree`)? |
| `ConfigSync` | Failures at every step and kills: does exit code zero mean published (`ZeroMeansPublished`), does a rollback serve (`RolledBackServes`), what stops the timer from publishing (`PublishedUnlessTrapped`)? |

The properties are stated in the modules, each with the behaviour it is about.
Some of them name the states in which the code does not do what is promised,
instead of leaving those states out: `FreshUnlessTrapped` and
`PublishedUnlessTrapped` (the sidecar written before a body that was never
written, or was rolled back), `YoungAgentBudget` (a request older than its
entry), `SavedNeverLost` (a file that could not be read) and
`ClientRecordComplete` (a limit below the default); section 8 has them.

## 4. Bounds

- `RouterShared` has two requests and two providers because every rule about
  shared state relates a request to one other that cools, heals or re-sticks a
  provider under it. `RouterChain` has three providers because a cyclic scan
  that starts at `attempts % n` with a hole in the middle needs three. Cooldowns
  are one or two ticks and grace one, so that a cooldown is within grace or
  beyond it. `StickyCap = 1` with two keys makes the affinity store evict.
- `AdmissionMixed`: `TTL = 2` ticks gives ages below, at and above the TTL and
  a purge interval of one; the global limit is below the sum of the requests. The
client whose two requests may hang has a budget of one and the global limit is
two: the other client has the slot that isolation leaves it, and no more.
- `ChatShared` and `ChatBudget`: `MaxEntries = 1` and `MaxFlights = 1` make
  eviction and a full group happen with two bodies; one leader, one follower and
  a bystander of another client is what the flight's rules relate, and the two
  endpoints that share the cache are both there with the same body. A budget of
  one unit with two slots is the smallest that can be overshot, and an embedding
  comes on top of the slots.
- `StreamRelay`: two attempts are one abandoned and one committed to; channels
  of one event (eight in the code) are full as soon as the reader is behind, and
  three lines fill every channel and hand of the pipeline behind a client that
  left. Attempts, lines and the capacity are constants of the theorem.
- `Health`: `Interval = 3` and `Timeout = 2` with two probed providers make a
  round of probes longer than an interval, so that ticks are dropped and the
  boot's probes overlap the ticker's. Ages stop beyond the interval.
- `ModelsCache`: three versions, one of which does not parse, and two failures:
  a failed write and the fault of a later run. `TTL = 1`: fresh or not.
- `SyncPlan`: four models, one an alias and one shared by two providers; offers
  with all, some and no prices, and a negative one; each other source present or
  absent; bodies with each limit and effort, below and above a ceiling, and
  values of `supported_parameters` and `modality` with and without tools and a
  second input. Every order of what three catalogs leave behind is reached, because
  the file of a run is the next one's.
- `Accounting`: `MaxStops = 1` stop (so two lives of the process, each of which
  may have read the file or not) and `MaxSaves = 1` periodic save beside the
  final one. Three requests, each with a session, two of one client; the other
  client's may not be served. Three sessions are retained in the first life and
  one in the second, whose boot evicts down to the default of two: so the boot
  evicts, and the lowered limit is one that it does not enforce. Histories have
  one entry. `MaxTime = 2`, and the clock goes on at one moment only
  (`ClockBetween`, an action constraint): after the first request has left its
  records and before the others begin. So evictions meet records of the same
  second, which leaves every choice to them, and records of which one is older;
  the clock is asked for no fairness, so that the constraint hides no progress.
- `Subprocess`: three requests of one client are a process, a waiter and one
  that sweeps; clients share nothing but the time of the last sweep, and the
  sweep that another client's request would make is one of its own. `TTL = 2`
  gives ages below and at the TTL and a throttle of one tick. Ages stop at the
  TTL, so that time needs no bound; `MaxRestarts = 1`.
- `ConfigSync`: `MaxFailures = 2` lets a run fail and its rollback fail too;
  `MaxChanges = 2` lets the catalogs turn bad and good again, or the operator
  edit in between. After the budget the environment is quiet, which is what the
  liveness property is about.

## 5. Fairness

- Router: weak fairness of each request's steps and of time. A goroutine that
  can run runs, an upstream call ends (attempt timeout, TTFB timer or the
  client's context), timers fire. Nothing is assumed of clients or of health.
- Admission: weak fairness of each request's steps through the limiters and of
  its releases. `GiveUpGlobal` is not among them, although the wait has a deadline
  (`backpressureTimeout`): what is asked is that the others are let through. A
  request inside ends, because the chain does, unless it is in `Hanging`. Nothing
  is assumed of the order in which waiters are served.
- Chat: weak fairness of each request's steps; a chain ends (`Answered` of
  Router). A follower waits for its leader without a deadline, so that its
  progress rests on the leader's.
- StreamRelay: goroutines run and the first-token timer fires. The upstream owes
  nothing, not even an end; the one exception is the read of a body whose
  context ended, which fails.
- Health: none. What should happen soon is a bound in time, and time passes no
  further than a probe's timeout and a tick that can be taken; a run in which
  time stands still violates nothing and is not counted as progress.
- Accounting: weak fairness of two goroutines, the ticker's, which ends the save
  it has begun, and main's, whose steps follow one another once it was told to
  stop (`ShutDown`). Requests owe nothing: the drain has its own deadline of ten
  seconds.
- Subprocess: weak fairness of each request's steps; a process ends by itself,
  with the attempt's timeout or with the client's context. Giving up a wait is
  not among the fair steps: a slot is handed on without it. `Tick` waits for a
  goroutine that can take its slot, the model's one assumption on speed: a TTL is
  longer than a goroutine's way from the map to the channel.
- ModelsCache, ConfigSync: the timer fires for ever and a run takes its steps;
  fetches and every wait in `reloadsig` have a window, and time passes. Operator,
  catalogs, failures and the unit's restart owe nothing.

Deadlock is checked in every run; the modules let a finished system stutter.

## 6. What is proved

TLAPS proves, for all values of the constants that satisfy the assumption named
in each module. `PROJECT.json` lists the theorems; this is how they go.

- **Router** (`RouterAssumption`: providers are `1..N`, the tables have the
  right domains). `ChainInvariant`: `Inductive` is inductive. It says that the
  lists of a scan are increasing and hold eligible providers already looked at
  (`ScanInv`), and that during the walk the closed providers are exactly those of
  the first visits of the chain, in its order (`WalkInv`, `ChainInv`). It is
  needed because the properties speak of the events only, while the next visit
  depends on `attempts`, `excluded` and the cyclic choice: the heart of the
  argument is that with `k` visits closed the cyclic scan from `k` finds position
  `k` open. From it: `TypeCorrect`, `VisitsOnceInOrder`, `EligibleOnly`,
  `ExhaustedForReal`. `Annotated` adds what a request notes on the way (`Notes`):
  it has no result before its end, its last error is the cause of its last event,
  and its chain is made of one of the two lists. From it: `RefusalReachesCaller`,
  `LastResortOnly` and the refinement `PromiseKept`. For the latter the providers
  tried are counted: they are the first `attempts` of a chain without repetition,
  so they are `attempts` many (`FirstCount`, `TriedIsFirst`), which gives the
  promise's budget; then every step is a step of `RouterPromise` or a stutter,
  group by group (`StartKept`, `TryKept`, `ResolveKept`, `WalkKept`).
  `DegradedIsEarnedAlways` counts as well (`Counted`): up to the limit the shared
  counter is at most the number of plain refusals, which a success leaves behind;
  until the first success it is no less; and beyond it there are as many plain
  refusals as the limit allows.
- **Admission** (`AdmissionAssumption`: finitely many requests). `IInv` says
  who knows a generation of the agent's semaphore and counts the generations
  (`LimiterKnown`, `GenerationsCounted`), that every semaphore holds one slot per
  holder and no more than it has, and that a request younger than the TTL still
  holds the current generation (`YoungHoldsCurrent`). Cardinalities change by
  one per step (`CountPlus`, `CountMinus`).
- **Chat** (`ChatAssumption`). One invariant per question. `Stage` says what the
  place of a request tells of its history, `FlightsLed` that a flight is led by a
  request that still has its key: `NoDuplicateCallAlways`. `OwnAnswer` and
  `CacheFiled`, the origin of each answer and entry: `CacheNeverLeaksAlways`. What
  has been filmed at each place: `OutcomeFilmedOnceAlways`, which is stated for
  runs without a panic, because a panic of the leader leaves its followers
  unfilmed. That the books of the client and of the provider differ by what is
  between the two charges: `LedgersAgreeAlways`. That what a client was charged
  is bounded by its budget, its requests beyond the check and those that ended
  after it: `OvershootBoundedAlways`.
- **StreamRelay** (`StreamAssumption`). `Pipelined` gives every event its place:
  counting back from the client, through channel and hand of each goroutine, the
  positions of the committed attempt's events follow one another without a gap.
  A weaker statement about neighbours is not inductive, for a send moves an event
  from a hand into a channel whose tail must be known. From it `OneAnswerAlways`.
  `Told` goes on from there to the end of the answer: while it flows, nothing
  follows a terminator, the lines read and the events under way agree up to an
  error, and the captured usage is the last one capture has seen; goroutines end
  from the upstream on, and when the last has ended all they held has been seen.
  From it `UsageIsTheClientsAlways` and `BreakIsToldAlways`.
- **Health** (`HealthAssumption`). Until the boot's round reaches a provider it is
  on its list (`BootHasIt`), so once main serves every provider has a verdict
  (`ProbedFirst`): `ReadersAgreeAlways`.
  `Wait` is the most time until the ticker has probed a provider anew, made of
  what is left of its round, the time until the verdict is old (which a probe
  that saw the provider before its change may renew once), and the next tick. No
  step lets it grow while a verdict stays wrong, a unit of time takes one off it,
  and it never exceeds `Bound`: `SoonTruthfulAlways`. The proof corrected the
  bound: where a round of probes outlasts the interval a verdict waits for a
  round of the others and then for its own, which two providers do not show.
- **Accounting** (`AccountingAssumption`). A book is bounded from below by the
  requests that certainly reached it and from above by those that may have: usage
  between `Charged` and `Billed`, cost between `Paid` and `PaidOrLost`, an image
  under way and the file between what is safe and the same upper bounds. The lower
  bounds are less what a boot could not read: `gone` for memory and the images
  taken from it, `erased` for the file. The upper
  ones only grow, also across a crash, so that what an old image holds stays
  within them; the lower one of an image is what was done when its save began,
  although its books are captured one after the other. `Savings` adds
  that there is one saver at a time, without which an older image could be renamed
  over a newer one. From it `SavedNeverLostAlways`. Of the records of contexts, in
  memory, images and file alike, `Sound` says that a session's has its client's
  beside it, which counts no less, and that a history knows only requests that have
  begun; in memory, what a record has counted in full and what the requests of its
  history may still add are no more than its requests. With a bound on the number
  of records, by the larger of the limit in force and the default, over any
  sequence of limits, it gives `ClientRecordCompleteAlways`.
- **ModelsCache** (`CacheAssumption`). With the lock, a run past it owns it and
  the file it decided to replace is still stale; nothing in hand is newer than
  the source nor older than the file: `StaleIsSeenOnceAlways`, `NeverOlderAlways`.
- **SyncPlan** (`SyncPlanAssumption`: finitely many providers and models, named
  by numbers, initial files that `config.Parse` accepts, catalogs whose tables hold
  numbers). `FileInv` is inductive: every file is typed and valid, and prescribes
  no default but the operator's or none. `Fixpoint`: models of the plan are among
  the file's, so that the second plan is the first one, field by field, and a
  number given is given again (`PlannedAgain`, `GiversAgain`). `Ascending` is a
  `CHOOSE` of the n-th smallest, and that it lists each member of a finite set once
  rests on a rank being injective and, by the pigeonhole principle, onto
  (`RankInjective`, `RankSurjective`); that a finite set of integers has a least
  and a greatest member, on well-foundedness of strict inclusion below a finite set
  (`MinIsLeast`, `MaxIsGreatest`). From these `StaysValidAlways`, `FixpointAlways`,
  `NothingElseTouchedAlways` and `OrderHasNoSayAlways`.
- **Wire and ClientConfig** (`WireAssumption`: bodies are functions of their
  fields, limits are numbers). `SentIs` says of every attempt which fields its
  body has and what is in them: two cuts (`CutsAreMin`: the least of what is asked
  and the ceilings) and at most the path's injection. `EntryIs` and `LimitsAre` say
  the same of what is told. Over the files of `FileInv` they give
  `LimitsAgreeAlways` and `EffortsAgreeAlways`: a default is only told and only
  injected where it is one of the levels. That a model marked as unforced gets no
  effort is proved where marks are not mixed with efforts in one list (`Mixed`):
  with both, the first decides, and the order of a catalog's list is the catalog's.
- **ConfigSync** (`ConfigSyncAssumption`). `IInv` relates the point of the run
  to the file (`FileFollows`: what the run found up to the body's write and
  after a restore, the candidate in between) and to the gateway
  (`GatewayFollows`). From it `TypeCorrect`, `FailLoudCorrect`, `ZeroCorrect`,
  `RollbackCorrect`.
- **Subprocess** (`SubprocessAssumption`). `IInv` relates slots, holders and
  entries: who holds a slot runs under it and the other way round
  (`HoldersRun`, `RunnersHold`), the entry of whoever waits or holds is in the
  map (`InFlightKeepsEntry`), and who waits for a free slot looked it up in this
  tick (`FreeIsFresh`). The last conjunct is why the sweep's two tests, age and
  a free slot, are enough together: neither alone protects a request between the
  mutex and the channel. From it `TypeCorrect`, `EntryKept`, `OneProcessEver`,
  `DirKept`.

Only model-checked: liveness (`Answered` of three modules, `Leaves`, `Stops`,
`Ends`, `FreshUnlessTrapped`, `PublishedUnlessTrapped`), which under fairness is
out of the prover's reach. Every other property of the runs is a theorem. No
theorem is by induction over data, which the installed provers cannot instantiate:
the modules have no recursion, counts change by one per step, and where a proof
needs an extreme of a set it goes through finite sets, as above.

Only proved, checked by no run any more: the type invariants of Router,
Admission, Chat, StreamRelay, ConfigSync and Subprocess, the limits of Admission
(`Bounded`), `EligibleOnly`, `FailLoudCorrect` and `EntryKept`. They held in the
runs that preceded their proofs and say little that the other properties do not.

## 7. Abstractions worth knowing

- Time is ticks or ages; a jitter or a `Retry-After` is a choice from a set.
- Tokens are units, one per answer, and so are the dollars of `Accounting`, whose
  ledger of cost is charged in one place only; `Chat` has no dollars. Bytes are
  units; a body is a model value, its limits and effort are all that `Wire` keeps
  of it.
- The 502 of a stream into whose body `include_usage` cannot be written
  (`router.go:1117`) is left out: the proxy has parsed that body before.
- The upstream, the operator, systemd, catalogs and clients are nondeterministic.
- A data race of the code (the router's `randSource`) is covered by a free choice
  of the value it yields.
- The operator edits the configuration between two runs of the sync only.
- A digest is what it was computed from: SHA-256 is taken as injective.
- A stream is one step of `Chat`; its inside is `StreamRelay`.

## 8. Where code and documents disagree

Met while modelling. Where a property touches one, the property is stated for
what the code does and its comment says so.

Serving:

- A stream keeps no status of its failures (`internal/router/router.go:1211`,
  `Kept` in Router): after a 429 it does delay the next candidate, against P4 of
  015-001, and when its last candidate refuses with a 4xx it is answered
  `chain_exhausted`, against D1 of 021-001. `Last4xxReachesCaller` is therefore
  stated for the other requests.
- `router.go:733` says the client sees the real 4xx; for a 403 of the provider
  `absorb` answers 502 `provider_auth_error`.
- `thinkingProfile` takes the first level it knows (`router.go:607`): two models
  with the same levels in another order get different profiles.
- An upstream that closes without `[DONE]` and without an error passes for
  complete (`internal/stream/stream.go:210`): `BreakIsTold` is about errors.
- The goroutines behind a client that left stay blocked in their sends
  (`stream.go:168`, `:206`); 001-005 asks that the stream's resources be freed.
  What does end is the handler (`Ends`).
- The purge drops an agent's entry although its slots are taken
  (`internal/limiter/limiter.go:223`), so that an agent may exceed the budget
  that `limiter.go:115` states. `YoungAgentBudget` holds for requests younger
  than the entry.
- `limiter.go:14` promises an immediate 429; a client over its budget first
  waits for the global semaphore (`internal/proxy/proxy.go:587`), and when others
  hold it until the deadline the answer is `global_timeout`. `Leaves` is about
  what it does to the others.
- A flight's key has no client (`proxy.go:269`), although providers may be
  private: a follower may get the completion of a provider it could not call.
  `CacheNeverLeaks` is about the cache, whose key has the client.
- Followers of a failed flight film nothing (`proxy.go:822` against 014-001), nor
  do failures of embeddings; embeddings pass no limiter either.
- A terminal event may hold 403 while the client got 502 (`proxy.go:1034`).
- The terminal event's cost is the upstream's, the charged one the table's,
  although `proxy.go:951` says they agree (`proxy.go:978-991`, `:919`). Only
  tokens do: `LedgersAgree` is about tokens.
- The window check counts `max_tokens` only (`proxy.go:701`), although the clamp
  before it knows `max_completion_tokens` too; the one of `/v1/responses` counts
  the model's `MaxOutput` whatever the client asked (`responses.go:481`).
- All the calls of one response have the same `id` (`responses.go:526`).
- A provider is unhealthy from `Register` to its first probe, while `IsHealthy`
  documents it as healthy. The age of a verdict counts from the end of its probe
  (`internal/health/health.go:145`) and is compared when the ticker fires, so
  that a provider is probed every second interval, where 002-002 says each one.

Books:

- At the limit a new session's record evicts itself, because it is made without
  a last use (`internal/metrics/metrics.go:361`, against P2 and P4 of 008-003).
- `SnapshotClient` assigns the tokens per model instead of adding them over the
  providers that served it (`metrics.go:309`).
- 009-001 keeps the aggregate of an evicted entry; `context.go:198` drops it.
- `docs/USER-GUIDE.md:636` bounds the overshoot of a budget by one request; it
  is bounded by the client's concurrency (`OvershootBounded`).
- `USER-GUIDE.md:633` says nothing is persisted; `persist.go` does.
- TECHDEBT #13 lets the accounting survive a restart. A file that cannot be read
  or parsed, or has a newer version, is left aside with a warning
  (`cmd/mofgw/main.go:184`), so that a boot is never prevented; the next save then
  overwrites it, and with it what was saved. `SavedNeverLost` excepts exactly
  that.
- `LoadState` runs before the configured retention is set
  (`cmd/mofgw/main.go:184`, `:285`), so that a boot evicts sessions and cuts
  histories to the defaults, 100 and 50, whatever is configured. A lower
  `max_sessions_retained` is then not enforced on what the boot brought back:
  setting it evicts nothing (`internal/metrics/metrics.go:443`), and a new record
  evicts one. `ClientRecordComplete` asks for the larger of the two.
- P7 of 020-002 counts each event of the registry exactly once because rotated
  files are disjoint; the summary reads them one after the other, and one that
  logrotate renames in between is read twice.
- After a line beyond 64 KiB the summary goes on with a buffered reader of its
  own (`metricssummary.go:148`) and drops what that has read past the line's end,
  up to 4 KiB of the events that `metricssummary.go:107` says are parsed.

Synchronisation:

- After a failed write of the file its sidecar already holds the candidate's
  digest, and every later run with the same catalogs skips
  (`internal/configsync/apply.go:55`), although `apply.go:41` calls writing the
  sidecar first what heals. A rollback leaves the same trap: P14 of 019-005
  expects the next run to find a mismatch. A run killed before the restart, or
  with `--no-reload`, leaves a file the gateway does not run. The next run skips
  with exit code 1 and 0 respectively. `PublishedUnlessTrapped` names the traps.
- The models cache has the same order and the same trap (`store.go:156`,
  `FreshUnlessTrapped`), against `store.go:154`.
- Without the catalog of OpenRouter an alias is dropped from its provider's
  models with a warning (`internal/catalogmerge/catalogmerge.go:167`), and so
  from the file, although D8 of 019-003 costs an absent OpenRouter only its
  parameters.

Subprocess engine:

- It ages a directory by its files' times (`engine.go:558`), which a conversation
  kept elsewhere by the CLI need not touch: after a restart, with no entry in the
  lock map, the first sweep removes directories used minutes ago, although P5 of
  013-004 speaks of the client's activity. The next request then opens a new
  session. A sweep that comes due between a request's `MkdirAll` and its lookup
  of the lock removes an old directory that `resolveSession` says must exist to
  spawn.
- `Stream` kills a process whose stdin cannot be written without waiting for it
  and gives the slot back at once (`engine.go:351`).

## 9. What is not modelled

- **Request registry.** A write is one step of `Router` and `Chat` (an event);
  the file is not modelled. What is hard there comes from outside the process:
  the writer keeps its descriptor after logrotate renames the file, a summary
  that reads both files across a rotation counts twice, and a failed partial
  write spoils the next line.
- **Translation of the responses dialect, web search results, read-only
  endpoints, summary**: functions of a request
  or of the books, without state; what `Chat` needs of them is whether an answer
  may be kept and for whom.
- **Configuration, authentication, client registry, provider factory, logging**:
  read once at start. `Valid` of `SyncPlan` is the part of `validate` a catalog
  can break.
- **Odoo addon, scripts, systemd units**: outside the Go program; systemd appears
  as the restart of the unit in `ConfigSync`.

## 10. Plan

1. `Gateway`: `Admission` and `Chat` in one specification, so that `Slots` is no
   constant but what the limiter holds, with a promise to the client (answered
   once, charged for what it got) that it implements.
2. The registry's file with a rotation and the summary's two reads.
3. `Health` composed with `Router` in place of `HealthFlip`, `ModelsCache` with
   `ConfigSync` so that the catalogs are files two runs refresh.
4. Theorems: that a run of `ConfigSync` with `SyncPlan!Candidate` for its `Merge`
   keeps what `SyncPlan` proves of a file; the slots of `Chat` from those of
   `Admission`.
