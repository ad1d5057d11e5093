# Headnet: a TLA+ verification project

Headnet is the control plane of a WireGuard overlay network: a Go server with an
SQL database (PostgreSQL, or SQLite for one machine), a web client, and the key
storage of the future device daemon. This directory holds TLA+ models of the parts
of it in which something can go wrong that a test would hardly reach, TLC
configurations that check them on small instances, and TLAPS proofs of the most
important results for every value of the parameters.

`PROJECT.json` is the index: components, runs, the faults each property is known to
catch, the source lines behind every definition, hazards, findings and theorems.

## 1. The system

| Component | State | Operations | Interacts with |
|---|---|---|---|
| Device registry (`internal/devices`) | tables `setup_keys`, `devices`, `device_tokens` | create and revoke setup keys, register, enrol, revoke, authenticate, heartbeat | the allocator inside its transactions; HTTP handlers |
| Address allocation (`internal/network/ipam.go`) | table `ip_allocations` | `Allocate`, `Release` | runs on its caller's transaction |
| Device handlers (`internal/server/devices.go`, `device_auth.go`) | none | decode, refuse early, call the registry, map errors to answers | registry, sessions |
| Accounts and first-run claim (`internal/server/auth.go`, `internal/auth/user.go`, `storage/metadata.go`) | `users`, the metadata row `bootstrap_claimed_at` | claim the installation, sign in | sessions, the browser |
| Browser sessions (`internal/auth/session.go`, `server/middleware.go`) | `sessions`; the cookie in the browser | `Issue`, `Lookup` (with expiry and touch), `Revoke`, `requireSession`, `requireCSRF` | every signed-in route |
| Rate limiting (`internal/httpapi/ratelimit.go`, `middleware.go`) | a map of buckets behind a mutex | `Allow`, lazy refill, sweeps, the `Retry-After` header | every request; a tighter budget for signing in and enrolling |
| Migrations and instance identity (`internal/storage`) | the schema, `schema_migrations`, the metadata row `instance_id` | `Migrate`, `verifyLedger`, `applyOne`, `InstanceID` | several servers on one database |
| Database handle (`storage/storage.go`) | the connection pool | `InTx`, `Open`, `Rebind` | everything above |
| Server lifecycle and probes (`internal/server/server.go`, `routes.go`, `apps/server/main.go`) | the process: main goroutine, listener, channel, handlers | open, migrate, serve, drain, close, probes | signals, the database, migrations |
| Protocol negotiation (`packages/protocol`, `apps/cli/diagnostics.go`) | none; the builds of the two ends | agree on a version and capabilities, diagnose | clients of other builds |
| Device key store (`internal/wireguard/keystore*.go`) | the private-key file and its directory | `Load`, `Create`, `LoadOrCreate`, one file operation after the other | the file system, other daemons, an operator |
| Configuration (`internal/config`, `packages/config`) | none after start-up | defaults, file, environment, validation | an operator; gives the other models' constants their ranges |
| Web client (`apps/web`) | session store, route, page state, requests in flight | refresh, sign in and out, list and change devices | the HTTP API, the cookie |
| Command line (`apps/cli`), HTTP plumbing, logging, version, password hashing | none across requests | | |

### What is hard in it

* **Concurrency over SQL.** Handlers run at READ COMMITTED and do much of their
  reading outside the transaction that writes: a setup key is looked up, judged, and
  spent later; a device is found, and retired later; a session is read, and touched
  or deleted later. Correctness rests on the WHERE clauses of single statements, on
  unique indexes and on which statements share a transaction.
* **Waiting.** Statements wait for rows of open transactions; the pool is finite, and
  with SQLite it is one connection, which a transaction must never ask for twice.
* **Failure.** Every statement can fail, a request can be cancelled at any point, and
  a commit can take effect while its acknowledgement is lost.
* **Responses are messages.** A browser has several requests under way and one
  cookie; responses overtake each other and are lost.
* **Several servers.** Nothing prevents two servers, of different builds, from
  starting on one database at once.
* **Files.** A daemon's only identity is a file which other daemons, an operator, a
  crash or a power loss may meet half-written.
* **Ending.** A signal, a failing listener, slow requests and the closing of the
  database come together, in goroutines of their own.
* **Overlapping continuations.** The web client's components are gone when the answers
  to their requests arrive.
* **Boundaries.** The last use of a key, the last address of a pool, the last attempt
  of an allocation, rounding of waits, an idle time to live against the time a bucket
  needs to fill.

### What makes each component correct

* Registry: limits on keys hold under any number of concurrent enrolments; an address
  is never held twice nor leaked; revocation is final; a credential exists exactly for
  enrolled, active devices; public keys are never reused; nobody learns of another
  user's device.
* Accounts: one administrator, claim and account together. Sessions: what has ended
  stays ended, idle and absolute limits are enforced against real use, signing out
  reports success only when it happened.
* Limiter: for each client a token bucket, of which a sweep forgets at most what the client
  has not used for the time to live; idle memory goes.
* Start-up: the ledger describes the schema, a serving server runs on what it embeds,
  one identity, a probe that tells when a newer server has migrated the database, and
  everybody comes up in the end.
* Lifecycle: a signalled process ends, answers what it has accepted if that ends within
  the grace period, says so if it did not, and never reports a failed listener as success.
* Key store: a key that was reported as created stays, is the only one, and is used only
  from a file nobody else can reach; a daemon comes to have a key.
* Configuration: what is accepted is usable by the rest; what is refused can be put
  right. Negotiation: both ends come to the same, best version or blame the same end.
* Web client: signed out means signed out, a user sees his own changes, nothing stays
  disabled for ever unless a response stops after its headers.

## 2. The modules

| Module | What it is |
|---|---|
| `Registry` | Abstract specification of the device registry: four tables, each operation one indivisible step, and the properties of the tables. |
| `Devices` | The registry as the code runs it: workers, SQL statements, row locks, the pool. EXTENDS `Registry`; the tables are the same variables, so `RegSpec` is the refinement property with the identity mapping. |
| `RegistryProofs`, `DevicesProofs` | Theorems about these two. |
| `Accounts` | First-run claim, sign-in, sessions, the cookie of a browser. |
| `AccountsProofs` | Theorems about it. |
| `TokenBucket` | Abstract specification of the limiter. |
| `RateLimiter` | `httpapi.Limiter` and the `RateLimit` middleware, with `TB == INSTANCE TokenBucket` under a refinement mapping. |
| `RateLimiterProofs` | Theorems about it. |
| `Startup` | Migrations, instance identity and probes of several servers. |
| `StartupProofs` | Theorems about it. |
| `KeyStore` | The private-key file with several daemons, on Unix and Windows. |
| `KeyStoreProofs` | Theorems about it. |
| `WebClient` | One tab of the web client, with the server and the cookie it talks to. |
| `WebClientProofs` | Theorems about it. |
| `Config` | Loading and validating the configuration, with the operator who corrects it. |
| `Negotiation` | Protocol negotiation and `headnet diagnostics` across upgrades of the server. |
| `Lifecycle` | The end of a serving process. |
| `ServerProofs` | Theorems about these three. |
| `MCDevices`, `MCAccounts`, `MCRateLimiter`, `MCStartup`, `MCKeyStore`, `MCWebClient` | Symmetries and instance constants for TLC. |
| `MCServer` | `Config`, `Negotiation` and `Lifecycle` side by side: they share no state, so a behaviour is one of one of them, chosen by `part`. |

Operators whose comment begins with "Fault:" are not part of a specification. Each is
a plausible mistake in the code of the definition that follows it; `PROJECT.json` says
which property finds which one.

### Registry and Devices

`keys`, `devs`, `alloc` and `tokens` are the tables, by identifier; `None` is NULL or
no row. A row of `devs` keeps the address columns (`ip`) apart from `alloc`, as the
schema does, because the code writes them in different statements. Addresses are
numbers in two disjoint ranges; `Usable` leaves out the network address and, for IPv4,
the broadcast address. Names, tags, hostnames and token bytes are left out: a setup
key's or device's secret is identified with the row it opens, which is the assumption
that random tokens are not guessed.

A worker of `Devices` is a goroutine with one request. `pc` is the statement it runs
next:

```
enroll     lookup -> begin -> consume -> pick -> claim [-> pick -> claim] -> insert -> commit
register             begin ->            pick -> claim [-> pick -> claim] -> insert -> commit
revoke     find   -> begin -> release -> retire -> commit
heartbeat  auth   -> begin -> beat
createKey            begin -> issue           revokeKey  begin -> cancel
```

The second `pick -> claim` is the IPv6 family. Reading the clock is part of accepting
the request, as in the handlers; only the heartbeat reads it after authentication.
What an open transaction has written follows from `pc`, `req` and `held`, so locks
are derived predicates (`KeyPending`, `AddressPending`, `PublicKeyPending`,
`DevicePending`; these are PostgreSQL's behaviour and marked external) and a rollback
forgets the worker's locals. `CommitCreate` and `CommitRevoke` change the tables.
`Acknowledge` answers success or, the acknowledgement lost, an internal error. `Fail`
can strike at every statement.

`PickCandidate` and `ClaimAddress` are `allocateFrom`: lowest free address first,
then, after a conflict, a scattered choice among the `ScatterWindow` lowest, for at
most `MaxAttempts` attempts; the candidate that was lost counts as taken.

Two simplifications make fewer behaviours than PostgreSQL has, and are harmless. The
statements `INSERT INTO devices` and `INSERT INTO device_tokens`, and likewise the
`UPDATE devices` and `DELETE FROM device_tokens` of a revocation, are one step each,
since the second touches only rows of a device the transaction already holds. And the
snapshot read of `takenIn` and the choice of the candidate are one step, since only
the INSERT that follows decides.

### Accounts

A session is `unissued`, `live` or `ended` (no row; a token is never drawn twice). A
worker goes through `requireSession` (`read`, then `expire` or `touch`), `requireCSRF`
(`check`) and the handler; its answer waits in `reply` with what it does to the cookie
(keep, clear, set) until `Deliver` or `Lose`. A request carries the cookie the browser
had when it was sent. `used` is a history variable: when each session was last issued
or accepted. Passwords are reduced to whether they match.

### TokenBucket and RateLimiter

Amounts are counted in what a bucket gains in one tick, so a token costs `Cost` and a
full bucket holds `Cap` (burst times `Cost`). This replaces floating point by exact
arithmetic. `Allow` holds the mutex throughout and is one step, its sweep included.
`spent`, `seen` and `promise` are history variables. The refinement mapping gives a client
without a bucket a full one: `LevelOf(c)` is what the bucket would hold had it been
kept and refilled continuously.

`sweepLocked` calls a bucket that is old enough to be swept "indistinguishable from a
client that never existed". That is so only if it fills up within the time to live, which
the configuration does not ensure. `TokenBucket` therefore lets a client that has been away
for longer than `IdleTTL` find its bucket full, and nobody else; `RateBound` adds what that
can give away: `Shortfall`, the part a bucket still lacks after the time to live, once in
each time to live.

### Startup

Each server has a build (the newest migration it embeds), possibly an edited file, and
possibly the flag `-migrate-only`. `applied` is what it read of the ledger at the
beginning plus what it has applied itself: the code never reads it again, which is
what makes concurrent starts interesting. DDL is transactional, and a `CREATE TABLE`
waits for a transaction that is creating the same table and fails if it committed.
`CheckDatabase` is what `/health` and `/ready` conclude from the highest version in the
ledger while the database answers.

### KeyStore

`path` leads to a file and a file is named by the key it was made for, so a handle stays
with its file when the path is given to another one. `whole` are the files with a
complete key, `synced` those whose content survives a power loss. A daemon goes

```
load    stateDir -> open -> verify -> read -> on
create  mkdir -> restrictDir -> create -> write -> sync -> close -> restrict
               -> stateDir -> open -> verify -> finish -> on       (remove on failure)
```

`VerifyStateDir` and `VerifyOpenKeyFile` judge owner, kind, mode bits or access control
list; `DispositionOf` classifies entries as the Windows code does and refuses what it does
not know. Windows' sharing modes are in `SharingViolation` and `Held`. `createStateDir` is
two steps: a directory that `MkdirAll` has made has on Windows what it `Inherited` until
`RestrictStateDir`, and keeps it if that fails.

`save` syncs the file and never the directory. `lingering` are all the files the path has
led to since the last power loss, no file among them, and `PowerLoss` puts back any one of
these, or takes the whole directory unless it was there from the start (`rooted`). Of the
file that comes back, content that was not synced is complete or not. `created` is history:
the last key reported as created, until the operator or a power loss takes its entry away.

Two simplifications: the operator does not replace the file while a daemon is saving, and a
key nobody refers to any more may be drawn again, which stands for a new one. A daemon may
load a key whose creator then fails to sync and removes the file; the model has this
behaviour, and `CreatedKeyStays` is therefore about keys whose creation was reported.

### WebClient

A request is sent, served, and delivered or abandoned in separate steps, in any order. An
answer arrives at once (`Deliver`) or in two steps: `ReceiveHeaders` sets the cookie and
clears the timer, as `fetch` and the `finally` of `#request` do, and `ReadBody`, some time
or never, goes on with the answer or with the error of a body that broke off.
`here` says that the component which waits for it is still on screen; when the view
changes, `Show` detaches the old component's requests, and their continuations run
without a page. `busy`, `signingOut` and `page` are the local state of what is on screen.
`shown`, `left`, `revived`, `confirmed` and `overlap` are history: `revived` marks a
shell that came back through a refresh which was under way at the sign-out, or through a
sign-in whose cookie had come, and been signed out of, before its body; `overlap`
that a load was under way when a change was confirmed. Both really happen, and the
properties say exactly that nothing else does. The route `/login` stands for `/setup`
too. `left` records a session once the server has answered its sign-out.

### Config

A setting's value stands for everything validation treats alike. `Fields` keeps the order
in which `applyEnv` walks, since it stops at the first variable it cannot store. Pools
are prefixes of a small address space, with masking and overlap computed as `netip` does.
The operator sets up to `MaxEdits` settings, in the file or the environment, starts the
server, and then corrects one named setting after the other where it takes effect from.

### Negotiation

`Negotiate` is the function of `packages/protocol`; `NegotiateResponse` and
`VersionResponse` are the two handlers, `CheckDNS`, `CheckReachable` and `CheckProtocol`
the steps of `headnet diagnostics`. `since` is a history variable: the builds the server
has run since it was first asked. A server may also report its version without the oldest
one (`terse`), or a service that is not Headnet no version at all (`Silent`).

### Lifecycle

`main` is where the main goroutine is: in its select, in `Shutdown`, waiting for the
accepting goroutine, returning, or past the deferred close of the database. `serveErr` is
the channel; `sent` remembers what went into it. Handlers may take any time. Shutdown's own
error (`"shutting down"`) and that of the listener (`"error"`) are different results.

## 3. The runs

| Run | Instance | States | Checks |
|---|---|---|---|
| `devices_pg` | 2 workers, 2 connections, 1 setup key, 2 devices, 2 public keys, two families, one attempt, all operations | 487k | the tables' invariants, `OpenTransactionsSound`, finality of revocation, `RegSpec` |
| `devices_pool` | 2 workers, 2 connections, administrator and user, 3 addresses, two attempts, register and revoke | 58k | `NoAddressHandover` through conflicts, scopes, `RequestsFinish` |
| `devices_sqlite` | 2 workers, 1 connection, all operations | 36k | `RequestsFinish` |
| `accounts` | 2 workers, 1 browser, 2 account ids, 2 tokens, clock to 3 | 1.06M | one administrator, sessions |
| `limiter` | 2 clients, burst of 3 tokens of 5 ticks, time to live 9, clock to 16 | 1.17M | `RateBound`, `IsTokenBucket`, `IdleBucketsGo`, `ComeBackAdmitted` |
| `startup` | 3 servers: one a build behind, one with an edited file, one migrate-only; 2 faults, 1 shutdown | 21k | ledger and schema, identity, the health probe, `EveryServerStarts` |
| `keystore` | 2 daemons, both platforms, 6 protections of a file; failing operations, a crash or power loss, the operator | 1.12M | `CreatedKeyStays`, `ExposedKeyIsNotUsed`, `OneCreation`, `EveryDaemonGetsAKey` |
| `web` | 2 requests in flight, 2 sessions, 5 acts of the user, 2 faults | 641k | `SignedOutShellStays`, `OwnChangesAreListed`, `BusyEnds` |
| `server` | every configuration two settings away from the defaults, in file or environment; versions to 3, every pair of builds, an upgrade; 3 requests at shutdown | 335k | `AcceptedIsUsable`, `CorrectionsConverge`; `OutcomesAreRight`, `VerdictsAgree`; `RequestsAreDrained`, `ListenerErrorIsReported`, `SignalEndsProcess` |
| `accounts_late_refusal`, `keystore_truncated`, `config_providers` | smallest that shows it | | one documented statement each, refuted: section 6 |

**Why the bounds are enough for what they show.** A race in this code is between two
requests about one row, or one request and a revocation or an expiry; two workers and two
identifiers produce each of them. One key with one use, two devices and two addresses put
every limit within reach: a key is spent, refused, revoked and expired, a pool fills up.
Two workers can take one address from each other once, so an allocation gives up in
`devices_pg`, where it has one attempt, its key already consumed, and retries with a
scattered choice in `devices_pool`, where it has two. `MaxTime` reaches the expiry of the
shortest-lived key and session, so that both sides of each expiry occur, and is 16 in
`limiter` so that a bucket drains, idles past the time to live and is swept more than
once, before it is full as well (15 units against a time to live of 9), and so that a
wait which is not a whole number of seconds occurs. Two daemons are enough for the key
store: its operations concern one path, and a third would play the part of one of the
two. In the web client two slots let a refresh, a load, a change or a late sign-in
overlap with a sign-out or with each other, and two faults let a body be late and its
session end. Two settings are what the checks of the configuration relate; a third that
is wrong is a further round of corrections. Protocol versions up to 3 give ranges that
are apart, touch, overlap and contain each other. Beyond the bounds the safety properties
of every component are covered by the proofs. `Served` restricts the operations of
`devices_pool` for size; `devices_pg` and `devices_sqlite` have all of them. Identifiers
are interchangeable, so symmetry is used in the runs without liveness.

**Deadlock** is not an error in these instances: identifiers and clock are bounded, so
every instance can come to rest. What must not get stuck is stated as liveness.

**Fairness.** `Devices!Fairness` is strong fairness of a worker's steps. A statement that
waits for a row or a connection is enabled now and then; PostgreSQL's lock queue and the
request queue of `database/sql` serve waiters in order of arrival, which is what strong
fairness abstracts. Nothing is assumed of arriving requests, of the clock or of failures.
In `Startup` a process runs and is started again when it ends, as `restart:
unless-stopped` in the deployments under `deploy/` has it; the number of failures is
finite (`MaxFaults`), and nothing is assumed about when they strike. `KeyStore` assumes
the same of the device daemon: weak fairness of its steps, the start among them. In
`WebClient` a request is answered or abandoned and the headers of its answer arrive,
because its timer runs until then; that a body follows is not assumed, nor anything of
the user or of what the server does with a request that was given up. In `Lifecycle` the
main goroutine, the return of `http.Server.Serve` and the timer of the grace period are
fair, handlers, clients and signals are not. In `Config` the operator starts the server
in the end and goes on correcting what it names, to any value that is not refused in its
place.

## 4. What is proved

All proofs are checked by TLAPS with SMT, Zenon and LS4, for any finite set of workers
and any sets of keys, devices, users, addresses and clients.

**The atomic registry** (`RegistryProofs`). `RegInv` joins the properties of the tables
with `BlankRows` (identifiers without a row are blank). It is inductive, which none of
its parts is: that a use counter equals the number of devices enrolled with the key
needs that the new device's identifier named no device before, and that an address is
owned once needs both tables. `RegRevocationIsFinal` derives the action properties.

**The code** (`DevicesProofs`). The argument has two layers. `DevInv`, that is
`TypeOK` and `OpenTransactionsSound`, says that everything an
open transaction found out or wrote still holds of the committed tables and that no
two open transactions rely on one row. It is inductive (`DevInvariance`), one lemma
for each action. The hard cases are commits, where one worker changes tables that
others rely on: the `Pending` guards, in the code the row locks and conditional
UPDATEs, are exactly what they need. From it follows `RefinesStep`: every step is a
step of `Registry` or leaves the tables alone. Hence `DevicesRefineRegistry`, and
with the first layer's theorems `DevicesConsistent` and `DevicesRevocationIsFinal`.
`DevicesStayInScope` needs one thing more, `ScopeInv`: a revocation past its lookup is of
a device in its user's scope, although the owner is not looked at again. It is kept
because a row never loses its owner, which is read off the steps of `Registry`
(`OwnersStay`).

**The limiter** (`RateLimiterProofs`). `SweepInv` says that a bucket which survived the
last sweep was within its time to live then; with it, a client whose bucket is gone has
been away for longer than that. `LimiterIsTokenBucket` and `LimiterRateBound` hold for
every burst, rate and time to live, also where a bucket is swept before it is full.
`LimiterReclaims` and `LimiterKeepsPromises` are about the memory and the header. The
second rests on `PromiseInv`: a second after the promised time the refused bucket, if no
sweep has taken it, holds a token, whatever was rounded off.

**Start-up** (`StartupProofs`), for any set of servers and any builds. A server compares
the ledger with its build once. `StartupInv` adds to the properties what makes that
enough: `ReadsHold`, what a server takes to be applied is applied from the file it embeds;
`MigrationsInOrder`, what is below the migration it applies is applied, and an open
transaction creates tables that neither exist nor are being created; `SchemaIsPrefix`,
without which a highest version need not exist; `Identified`, an identity exists before
anyone serves. One lemma for each action; the two commits are the ones that change
what other servers rely on. `StartupSafety` concludes the four invariants of the run.

**Accounts and sessions** (`AccountsProofs`), for any workers, browsers, accounts, tokens
and durations. `AccountsInv` says what each worker relies on (`Sound`), that one
transaction at a time holds the claim (`OneClaim`), and that a recorded time of use is
that of a use (`UsesAreReal`), without which an idle session could be accepted. Steps of
one worker move rows of sessions only forward (`Evolves`), which is all the others need.
`AccountsSafety` concludes the two invariants of the run, `SessionsEnd` its two action
properties.

**The key store** (`KeyStoreProofs`), for any daemons, keys and protections and any
number of failures. In `KeyInv` a daemon *owns* the path from the creation of its file
until `save` ends: the path leads to its file and no creation counts as successful
meanwhile. That O_EXCL lets nobody else become an owner is the heart of the argument; the
sync before the report makes a key complete that a power loss leaves in place. Nothing is
assumed of the directory: a power loss may take the entry, and `created` with it.
`VerifiedIsPrivate` compares the checks with what the platforms let other accounts do.
`KeySafety` concludes the run's three safety properties.

**The lifecycle** (`ServerProofs`), for any set of requests. `LifecycleInv` says what
the channel may carry (`ChannelFlow`) and which requests may still be running
(`RequestFlow`) at each point of the main goroutine. `LifecycleSafety` concludes that
success means drained, that only the grace period or a failed listener cuts requests off,
and that the listener's error is reported, unless the grace period ended and the error is
still in the channel when `Serve` returns Shutdown's own.

**Negotiation** (`ServerProofs`). `NegotiateIsRight` and `NegotiateIsSymmetric` are
about the function, for all integers. `NegotiationSafety` is about the protocol, for any
builds and any number of upgrades; its invariant `NegInv` says that a verdict and an
answer were computed from a build in `since`. It includes `PassMeansCompatible`: a service
that reports no range never passes for a compatible server.

**The configuration** (`ServerProofs`), for addresses of any width. The state machine is
simple: `ConfigInv` says that every layer holds values an operator may write and that what
was accepted is what validation looked at. The work is in the arithmetic behind
`AcceptedIsUsable`. Validation compares masked addresses, the property speaks of the
addresses themselves; `OverlapsIsRight` shows that masking two prefixes to the shorter
length tells whether they have an address in common, because of two blocks whose sizes
are powers of two the smaller lies inside the larger. The facts on powers of two are
proved by induction over the number of bits. The library's induction theorems cannot be
instantiated here, so the induction is by a least counterexample (`LeastNumber`), which
exists because strict inclusion of the finite sets 0..n is well-founded. `ConfigSafety`
concludes the invariant of the run.

**The web client** (`WebClientProofs`), for any finite number of requests in flight, any
sessions, and any number of acts and faults. Each step of the browser moves requests in
the same few ways (`BrowserMove`), and most conjuncts are kept by whatever moves like that.
`WebInv` has three parts besides typing. `Counted`: the server has made no more
changes than the user asked for. `RequestInv` and `CookieInv`: a request carries a cookie
that was issued, and one that carries a session which was left is marked as older than the
sign-out; the cookie itself is never one of a session that was left. `GrantInv`: a session
that was granted and not yet delivered is used by no request, so nobody can have left it.
Together they give `SignedOutShellStays`, which alone is far from inductive: a sign-in
whose answer is on its way must be known to bring another session.
`OwnChangesAreListed` rests on `PageInv`: the requests on screen belong to the view
(`ScreenInv`), the page works on one change at a time and reloads after it (`WorkInv`),
and an answer on its way to the page is as new as what the user has been told, unless the
page is marked as overlapped (`VersionInv`). The proof does not need that the page is
idle, so the property does not ask for it.

Type correctness of every component is a part of these invariants and so is proved.

Assumptions on constants are named and are those the code justifies
(`PoolAssumption`, `RowAssumption`, `WorkerAssumption`, `LimiterAssumption`,
`DurationAssumption`, `NameAssumption`, `BuildAssumption`, `KeyStoreAssumption`,
`LifecycleAssumption`, `NegotiationAssumption`, `ConfigAssumption`,
`DefaultPoolsAssumption`, `WebAssumption`, `NoneAssumption`):
disjoint pools, `None` outside every set, sizes positive where `config.validate` or a
constant of the code says so, default pools that an operator could have written too,
finitely many requests in flight. `PowersAssumption` is of another kind: it states the
recursion that defines `^`, of which the prover knows nothing; TLC evaluates it for the
width of the instance.

**Only model-checked.** Liveness (`RequestsFinish`, `EveryServerStarts`,
`EveryDaemonGetsAKey`, `BusyEnds`, `CorrectionsConverge`, `SignalEndsProcess`),
because the prover does not reason about fairness and ENABLED; and that the three refuted
statements fail, which a run shows by a counterexample. Every safety property of every
passing run is proved.

## 5. What is not modelled

* Password hashing, token hashing, WireGuard key encoding: computation on bytes.
* JSON, logging, headers, redaction of secrets, version output, command-line parsing
  (`internal/cliutil`): no state that a property is about.
* `Rebind` and the building of database addresses: string conversions.
* Settings nothing validates (relay, metrics, `log.add_source`).
* SQLite's locking: with one connection there is none to see, except the connection.
* The web client's dashboard, which only reads, and the contents of its forms and
  dialogs.
* The key file's permissions changing between their check and the reading of the file: the
  operator of the model can do it, and no property forbids it.
* `Store.RecordSeen`, `RevokeAllForUser`, `DeleteExpired`, `UpdatePassword`: no code
  outside tests calls them.
* `internal/acl`, `dns`, `relay`, `routes`, `signaling`: a package comment, no code.

## 6. What the models found

Three documented statements are refuted by runs of their own; `PROJECT.json` quotes the
lines.

* `accounts_late_refusal`: a 401 expires the cookie by name. In the run a request carries a
  token that expires, a sign-in issues another session and its response arrives first; the
  refusal of the old token then clears the new and valid session's cookie.
* `keystore_truncated`: `save` removes a key file it could not write in full, and ignores
  the error. On Windows the removal fails while another daemon reads the file, and every
  later start then fails to parse it. A process that dies between creating and writing the
  file leaves the same behind.
* `config_providers`: a supported list in `HEADNET_AUTH_PROVIDERS` makes the server panic
  while it loads its configuration, because a `[]string` cannot be stored in a
  `[]AuthProvider`.

The following were met in the models and have no run of their own.

* `Lookup` deletes by id a session it has found idle, although a request accepted in time
  may have moved `last_used_at` meanwhile (`session.go:238`).
* With an idle timeout no longer than the touch interval of a minute, the window does not
  slide (`session.go:245`).
* `Retry-After` rounds the wait down, so a client that obeys it may be refused once more
  (`httpapi/middleware.go:183`); a second later it is admitted, which is
  `ComeBackAdmitted`.
* With a burst worth more than ten minutes of refill, which the configuration accepts
  (`config.go:566-596`), a sweep gives a client a full bucket early (`ratelimit.go:127`,
  against the comment at `ratelimit.go:119`); `RateBound` says by how much.
* Two servers that start together on an empty database do not converge without one of
  them exiting (`migrate.go:120` against the comment at `migrate.go:69`).
  `EveryServerStarts` shows that a restart mends it.
* An older server that read the ledger before a newer one migrated goes on to serve
  (`migrate.go:84`); `HealthyMeansCurrent` shows that its probe then says so.
* An allocation whose lost candidate has been released meanwhile reports an exhausted
  pool with an address free (`ipam.go:205` against the comment at `ipam.go:36`).
* The `revoked_at` of a setup key can precede the `created_at` of a device enrolled with
  it, because the time is read before the UPDATE waits (`setupkey.go:243-246`).
* `expires_in_hours` times an hour can overflow (`server/devices.go:253`): the key then
  lives shorter than requested, for the default time, or is refused; never longer.
* An empty list of providers hides every other problem of the section `auth`, although
  the documentation has all problems reported at once (`docs/configuration.md:54`).
* A variable in the environment cannot turn IPv6 off: an empty one counts as not set.
* In the web client a refresh that is under way at a sign-out can bring the shell back
  (`revived`), and a load that was under way at a change can overwrite the newer list
  (`overlap`). A sign-in whose body is late can show a session that has been signed out
  since.
* The timer of a request is cleared when the headers have come (`api.ts:320`), so a body that
  stalls leaves its form disabled for ever, against the comment at `api.ts:173`; `BusyEnds`
  names exactly this exception.
* A listener's error that is in the channel when the grace period ends is not reported
  (`server.go:247-252`); the process still does not report success.
* `save` syncs the key file and not its directory (`keystore.go:215-241`), so a power loss
  after a successful creation may take the file with it; the device then enrols anew.
* On Windows a directory that was created and could not be restricted stays as its parent's
  list has it (`keystore_windows.go:51-58`), and later starts refuse it.

## 7. Plan

Done: every component of section 1 that keeps state across steps is modelled, checked and
has its safety properties proved; the registry and the limiter are shown to implement
abstract specifications.

Left, in this order:

1. The allocator's choice: that `FreeAddresses` is empty only if the pool is full, for
   pools of any size, which the induction of `LeastNumber` now makes possible.
2. The safety half of the liveness properties: that no set of requests waits for each
   other in `Devices`, and that nobody waits in `Startup` for a transaction that nobody
   runs.
3. The web client's dashboard.
