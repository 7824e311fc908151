# TLA+ models and proofs for capsium-js

capsium-js packs static sites, datasets and handlers into `.cap` archives and
serves them from several *reactors*: a service worker in a browser (`swsws`), a
Cloudflare Worker, and a Node server. This directory holds TLA+ modules for the
parts of it whose correctness depends on order, interleaving, crashes and
recovery, and for the pure algorithms that every reactor shares. All source
paths below are relative to `src/packages/`.

## 1. Inventory

### Reactors' stores and life cycles

| Component | State | Operations | What is hard |
|---|---|---|---|
| Cloudflare package store (`reactor-cloudflare/src/store.ts`, `create-worker.ts`) | per isolate: `installed`, `initPromise`; shared per colo: the manifest entry and one cache entry per file | `install`, `restore`, `clearStored`, the memoised `initialize`, the install endpoint | every cache call is an `await`; installs and restores of one or several isolates interleave; isolates vanish; entries are evicted; cache calls fail |
| Service worker package store (`swsws/src/package-store.ts`, `sw.ts`) | in the Cache: `CAP_KEY`, `DEPS_KEY`, one key per dependency index; in memory: `installed`, `storePromise`, `deployConfig` | `install`, `restore`, `clear`, the message handler | a worker is stopped at any `await`; puts are not atomic; dependency blobs are found by position |
| Node reactor (`reactor-node/src/loader.ts`, `reactor.ts`, `cli.ts`) | none after start; one immutable loaded package | read, decrypt, verify, load dependencies, serve | order of the gates; the files it reads are edited and written meanwhile |

### Request handling

| Component | State | Operations | What is hard |
|---|---|---|---|
| Authentication (`swsws/src/auth/`) | pending OAuth2 logins, the authenticator cached per model, `deployConfig` | `gate`, `handleCallback`, session encode/decode, htpasswd verify | the callback suspends; states are single use; sessions and pending logins expire; the configuration arrives by message in any order |
| Handler executor (`swsws/src/handler-executor.ts`) | memoised module promises per package | execute | a rejected import stays memoised |
| Fetch handler (`swsws/src/fetch-handler.ts`), Cloudflare and Node serving | executors and authenticators per model | `handleRequest`, static and dataset serving, introspection | the installed package is read before an `await` and used after it; three codes for one contract |
| Route resolution (`core/src/resolver.ts`) | none | parse, generate, `resolve` | three forms of `routes.json`; precedence, 404 against 405 |
| Layers (`core/src/layers.ts`) | none | `resolveLayeredPath`, `visibleLayers` | tombstones and visibility across layers |
| Composite packages (`core/src/composite.ts`, `semver.ts`) | none | `planDependencies`, `resolveDependencyResource`, version ranges | visibility of a dependency's resources, choice among versions |

### Building packages

| Component | State | Operations | What is hard |
|---|---|---|---|
| Packager (`packager/src/package-writer.ts`, `package-signer.ts`, `package-cipher.ts`, `package-reader.ts`) | a package directory and archives | pack, sign, encrypt, decrypt, extract, read, verify | files are read and written one after another, edited meanwhile, half written when a process stops |
| Package store directory (`packager/src/store-directory.ts`) | a directory, optionally with `index.json` | `list`, `resolve`, `loadDependencies` | which version wins; archives are listed, chosen and read at different times |
| Core formats (`core/src/package.ts`, `checksums.ts`, `signatures.ts`, `routes.ts`, `storage.ts`, `generate/`) | none | parse, verify, generate | mostly validation |
| Test runner (`core/src/testing.ts`), harness, Ruby interoperability scripts | none | run a package's declared tests | sequential |

### How the components interact

* A reactor owns one **package store** and reads it once per request
  (`store.current`); everything after that works on the model it read. An install
  replaces the store's package between two requests, or while one is suspended.
* The **stores** call the core parser and verifier on bytes, then a cache they do
  not own: the Cloudflare `caches.default` (shared by the isolates of a data
  centre, evicting at will) or the browser's Cache Storage (durable, but the worker
  that writes it is stopped at will). Both reactors memoise a promise for their
  first restore, and every request awaits it.
* The **service worker** receives messages from its pages (`install-package`,
  `deploy-config`, `status`) in any order and between any two awaits of a request.
* A request passes **authentication**, then **route resolution**, then **layers**
  or **dependency resources** or the **handler executor**. Authentication suspends
  on cryptography and on the identity provider.
* The **packager** and the **core formats** produce the archives; a reactor sees
  them only as bytes that verify or do not.
* The **Node reactor** does everything once, at start, and is stateless after it.

### What makes each component correct

| Component | Properties |
|---|---|
| Package stores | what is served is one package that was submitted and verified, never a mixture; memory and cache agree between installs; a restart brings back the old package or the new one; restore drops only damaged installs; a rejected cache call does no more harm than it must; every install message is answered |
| Authentication | content is served only through the gate of the package it belongs to; a login opens at most one session; expired sessions admit nobody; roles hold; a configuration that was acknowledged takes effect |
| Layers, dependency resources | the topmost visible file that no tombstone at or above it deletes; private layers and private resources stay out of dependents' sight |
| Route resolution | first declared route of a path wins, handlers by method, 405 only where nothing else matches |
| Dependency planning | the newest version in range, whatever the order of the candidates; all or none |
| Handler executor | a module is imported once per package and a request is answered by the package it was routed by |
| Packager | what verifies is what one run saw, all of it; what verifies under a key was signed with it; an archive that was written verifies; running again repairs what a stop left |
| Node loader | nothing is served before it and its dependencies passed their gates |
| Reactors' serving | a declared route, its body and its length are the same on all three, up to the differences they document; a generated path is one file's, chosen by the order of names |

## 2. Modules

| Module | What it models |
|---|---|
| `PackageSlot` | Abstract: one durable slot, replaced as a whole, and a memory that takes the slot's value as a whole |
| `CacheStore` | `reactor-cloudflare/src/store.ts` and the initialisation and install paths of `create-worker.ts` |
| `SwPackageStore` | `swsws/src/package-store.ts` behind `getStore` and the message handler of `sw.ts` |
| `LoginTickets` | Abstract: a login's `state` value opens at most one session |
| `AuthGate` | the gate of `handleRequest`, `authenticator.ts`, `oauth2.ts`, `session.ts`, the `htpasswd` outcome, `deploy-config` messages |
| `Layers` | the loop of `resolveLayeredPath` (`core/src/layers.ts`) and `resolveDependencyResource` (`core/src/composite.ts`) |
| `StoreDirectory` | `packager/src/store-directory.ts`, version choice (`core/src/composite.ts`, `semver.ts`), the loading of dependencies in `reactor-node/src/loader.ts` |
| `Serving` | operators: `routes.json` read and generated, resolved, and answered by the Node, Cloudflare and service worker pipelines |
| `Requests` | `handleRequest` after the gate and `handler-executor.ts`, with installs between its awaits; the other two reactors answer the same request. EXTENDS `Serving` |
| `Publishing` | the packager's operations, checksums, signatures, encryption, the package reader and `loadPackage`, on one directory and its archives |
| `CacheStoreProofs`, `SwPackageStoreProofs`, `AuthGateProofs`, `RequestsProofs`, `PublishingProofs` | theorems about the module they EXTEND |
| `CacheStoreMemoryProofs`, `PublishingRunsProofs` | continue `CacheStoreProofs` and `PublishingProofs` |
| `CompositeProofs` | theorems about `Layers` and `StoreDirectory` |
| `MC_*` | values of the constants, symmetry sets, refinement mappings, the choice of inputs; `MC_Composite` puts `Layers` and `StoreDirectory` side by side |

Operators called *Variant* in a module are not part of its specification: each is
a definition as a plausible mistake would leave it, and the property named for it
in `PROJECT.json` fails when it stands in for the original. That is how we know
that a property depends on the code.

### CacheStore

One task per promise chain: task `<<i, 0>>` is isolate `i`'s `initPromise`, the
others are requests. `pc` names the await a task stands at, and one action is the
code between two awaits. `manifest` and `stored` are the shared cache, with keys
made of the package *name* and a path, as `fileKey` makes them; `installed` is
`this.installed`, kept as the reported hash and the bytes served, so that one
package's bytes under another's hash can be expressed. The loops of `restore`,
`clearStored` and `install` visit files in any order (the code's order is the
archive's; nothing depends on it, and any order includes it).

| Code | Actions |
|---|---|
| `fetch`, memoised `initialize` (`create-worker.ts`) | `Arrive`, `Resume`, `ResumeRejected`, `Startup`, `GiveUp` |
| `restore` (`store.ts`) | `RestoreManifest`, `RestoreFile`, `RestoreCheck` |
| `clearStored` | `ClearManifestRead`, `ClearFile`, `ClearManifest` |
| `install` | `Verify`, `PutFile`, `PutManifest`, `Adopt` |
| the platform | `EvictManifest`, `EvictFile`, `CacheCallFails`, `Restart` |

Bytes are told apart by the package they come from, so a checksum comparison is
an equality of origins. A restored package without `security.json` is compared
with nothing: if its files are a mixture the verdict is either. Two packages that
share identical files are not distinguished from packages that do not; that only
adds mismatches.

### SwPackageStore

Task 0 is `storePromise`; the others handle `install-package` messages or calls of
`clear`. `capEntry`, `indexEntry`, `depEntry` are the three kinds of keys; a
dependency's blob lies under its *position*. A bundle is the main blob and the
list of guids and blobs in the insertion order of the `Map`. `Stop` loses the
memory at any await; `CorruptCap` and `CorruptDep` damage what is stored.
`OpenFails` is a `caches.open` that rejects; `PutFails`, `ClearFails` and
`RestoreFails` are a put of `install`, a delete of `clear` and any call of `restore`
that rejects: what was written before stays, the install is answered `ok: false`, and
a restore leaves nothing installed. `answer` is the `install-result` last posted to a
task's page. `behind` is history: a call of this worker was rejected and no install or
clear has ended since, so memory and cache may differ. Verification has three outcomes, as in
`verifyComposite`: valid, a report with issues (`Tampered`), an exception
(`Broken`); restore treats the last two differently and so does the model.

### AuthGate

A model is the object `parsePackage` made; its index tells it from a later parse
of the same package, because the authenticators live in a `WeakMap` keyed by that
object. A request captures the model before its first await and `Reply` answers
from it. The await points are the session's signature (`gate`), the password
(`passwd`), the PKCE hash (`pkce`), the two calls of the identity provider
(`token`, `userinfo`) and the signature of the new cookie (`encode`). Cookies are
records with the secret they were signed with: nobody forges one in the model.
`Visits` offers every cookie the user's browser was ever given, expired or from
before an install. A user in `Unreadable[p]` has an entry of a hash type that is not
supported (501). An answer of status 0 is a network error: a fetch of the callback that
was rejected, or an identity provider whose answer is no JSON. `owner`, `answer` and a
request's `configured` are history: who was redirected, what the last step answered, and
the secret that had been posted when the request arrived.

### Layers

One behaviour is one call, from the top layer down to `content/`, on a package
chosen in `Init`. `Visit` is one turn of the loop: the flag first, then the file.
`Skip` is a layer that `visibleLayers` filters out. The overlay it should
implement (`Shows`, `Hides`) is written without a loop, by the position of the
topmost file and of the tombstones.

### StoreDirectory

One behaviour is one call of `loadDependencies`: `ReadIndex`, `Identify` once per
archive in `readdir`'s order, `PlanAll` (no await inside), `ReadChosen` and
`VerifyLoaded` per dependency. `Rewrite` is another process that replaces an
archive already listed. A version is its triple and the suffix that comparisons
drop; a range is the set of its comparators. `Newest` is the loop of `newestSatisfying` as a
recursive function over the candidates' positions in the listing, `Best` the version it
chooses and `Chosen` the first entry that has it. `PlanCorrect` states the choice by
intervals of versions and by the newest of *all* candidates, and never mentions
the fold or the comparator that the code uses.

### Serving and Requests

A path is the sequence of its segments, a package a record of what its files would
answer (what `resolveLayeredPath` and `resolveDependencyResource` return is
`Layers`' matter). `ParseRoutes` is the union of the three schemas tried in the
code's order, `BuildRoutes` the generator: `SortedNames` is the order that the generator's
sort puts names in, and the place of a generated route is the one it has in the list of
an inventory that lacks nothing (`RoutesInOrder`); a missing name leaves a gap, since only the order of
routes counts. `ServingAssumption` has what the proofs need of that order: a name is in it
once, and a name without its extension is a proper prefix, so as a name it comes first. `Resolve` stands for the two maps: a map that
keeps the first route of its key is the set of the positions that have the key, and its
entry their `First`. An `allow` header is the set of its methods; the order in which it lists
them is left out. `NodeServe`, `CloudflareServe` and the worker's operators are separate
translations of separate code; `NodeSends` and `CloudflareSends` are what
leaves the other two reactors: no body for `HEAD`. A body is named by what it is made of, and the `length` header by
the body that was measured.

In `Requests` an index into `models` is the identity of the object `parsePackage`
made, which is what `executorFor` keys its `WeakMap` by; `modules` is the memo of
imports, over all executors. `Arrive` runs to the first await; `Settle`, `Imported`
and `Called` are the awaits of a handler; `Install` replaces the package between any
two of them. Packages here declare no authentication: `AuthGate` has the gate and
the roles of datasets.

### Publishing

`run[p]` is what a process does: `todo` the positions of what `readdir` listed and is not
read yet, `got` what is read, `queue` the writes to come by their position. `StartOnDirectory` and
`StartOnCap` pick the source, `ReadNext` is one `readFile`, then one action per
operation computes what it will write or say, `Open` truncates and `Write` writes
one file. `Edit` is the author. Another process may be between any two of these
steps, and `Stop` may end it there: a torn file stays torn.

Bytes are tuples headed by what they are, and a digest is the bytes themselves, so
equal digests mean equal bytes: cryptography is taken to be perfect. How files are
joined into the signed payload is the constant `Join`, of which nothing is
assumed; in the run an empty file leaves no trace in it.

The history variables `snapshots` and `wrapped` record which files a run saw when it
computed a `security.json` or an envelope, with the signing key and the data key; `settled` says that the last run that wrote
the directory was a seal or a signature that nobody disturbed.

Three simplifications: `StartOnDirectory` lists the whole tree at once, where `walk` lists
a subdirectory when it comes to it (what the properties say holds of any files read);
`manifest.json` and `routes.json`, generated each where it is missing, are one file; and no
file has the name of a member of `Object.prototype` (see "Seen while reading").

## 3. Runs

| Run | Question | Instance | States |
|---|---|---|---|
| `cache_serial` | Does one isolate with serial installs, restarts at any await and failing verification implement `PackageSlot`? | 4 packages with same and different names, with and without `security.json`; a rejected blob; 2 requests | 201 k |
| `cache_isolates` | Do two isolates over an evicting cache keep the manifest honest, and does initialisation always find the startup package? | 2 same-named packages, 2 isolates with serial installs, a startup package, restarts, evictions | 1.6 M |
| `cache_faults` | Does a restore drop only a damaged install, and what rejects `initPromise`? | two interleaving installs, evictions, failing cache, failing startup fetch, restarts | 169 k |
| `cache_hash`, `cache_drop` | Two comments of the code that do not hold | see Findings | to the first violation |
| `sw_store` | Is the service worker's store one durable slot, is nothing unverified stored, do memory and cache agree, is every install answered? | bundles of 0, 1 and 2 dependencies and refused ones, 2 handlers that write in turns, stops anywhere, damage, any cache call failing | 394 k |
| `sw_torn` | A comment that does not hold | see Findings | to the first violation |
| `auth_login` | Gate, roles, expiry and single use under any interleaving | 3 packages, 2 users, 2 requests in flight, 1 login, 2 models, clock to 2, a failing provider | 2.1 M |
| `auth_config` | A promise of the documentation that does not hold | see Findings | to the first violation |
| `composite` | Does the walk return the overlay's answer? Is the newest archive in range chosen, all or none, and gated? | every package of 3 layers and 2 resources; every store of 3 archives out of 17, 3 indexes, 15 wishes, 1 rewrite | 3.4 M |
| `requests` | Which route answers, with what, and do the three reactors agree? Whose handler runs? | one route of every kind, pairs of 8 kinds in the 3 forms of `routes.json`, generated routes for every inventory of 8 names; pairs of handler packages asked twice | 82 k |
| `publish` | What do checksums, signatures and envelopes vouch for when files are read and written one by one? | 3 starting points, 2 processes, 3 runs, 1 edit, 2 keys, 2 archives, 2 orders of listing, stops anywhere | 2.8 M |

**Bounds.** Two requests are enough for every pairwise interleaving, and nothing in
the code counts requests. Two files a package are the least that can be mixed
from two packages; the path `extra` is a file that only one of them has. `MaxDeps = 2` is the
least with a list that shrinks and one whose order differs. `MaxModels = 2`: the
package a request captured and the one installed meanwhile. `MaxStates = 1`: one
login's `state` presented any number of times; the entries of two logins never
meet in the code (a `Map` by state), and two requests can carry the same one.
`MaxClock = 2` with lifetimes of 1 has a moment before, at and after each expiry.
Three layers have one above, one at and one below a tombstone. Three archives have
one that is chosen, one that loses and one that breaks; versions differ in each of
the three numbers, with leading zeros, since those change what a caret means. Two
routes are what precedence is about, and eight names include an index, a name with
two HTML extensions, one that is only an extension, three that fall on one path and one on
the path of a dataset. In `publish` two runs interleave
and a third, alone, looks at what they left; the first process runs the packager, the
second loads, verifies or signs (`Focus` in `MC_Publishing`), since a packager that
disturbs a packager is already there with `sign` against each of the others.

**Fairness.** Only `sw_store` states liveness. `Fairness` is weak fairness of each task's
next step, writers' turns or not: the JavaScript event loop resumes whatever promise has
settled, and a cache call settles, one way or the other. Messages, stops, damage and
failing calls have no fairness. `FairSerialSpec` has exactly the behaviours of `FairSpec`,
the code's fair ones, in which no two writers overlap: taking turns is the safety hypothesis
`OneWriter`, which the run needs for `MemoryMatchesStore` and `ImplementsSlot`, and no
fairness is added for it. `InstallAnswered` does not need it: TLC finds it to hold as well
with `FairSpec` in place of `FairSerialSpec` (950 k states).
The requests of the Cloudflare reactor are promised no answer: they await the startup
`fetch`, which has no timeout in the code. Neither have the calls to the identity provider;
an import of a handler or a handler's own promise may never settle either, so no liveness
is stated of `Requests`; and a packager process may be stopped for good.

**Assumptions on the environment.** `OneInstaller` and `OneWriter` restrict the
serial specifications to one install at a time. The code does not enforce either:
they say what a deployment has to guarantee for `ManifestNeverLies`,
`ServedIsOneCap`, `MemoryMatchesStore` and the refinements; `cache_hash` shows what
happens without it. Two concurrent installs of the service worker can likewise end
with one package in memory and the other in the cache. `PublishingAssumption` says
that the author edits content, configuration and metadata, and the embedded key, but
does not write checksums, signatures or encrypted payloads: those come from runs.
Under `PublishingAssumption` a directory *with* `security.json` is protected from half-written states;
one *without* is not: a mixture that a stopped `extract` leaves there is served, and
no property claims otherwise.

**Deadlock** is checked except in `composite`, `requests` and `publish`, where a call,
the requests or the runs of the bounded instance end.

## 4. Findings

1. `cache_hash`: two concurrent installs of same-named packages can leave one's
   manifest over the other's complete files; restore verifies the files against
   their own `security.json` and reports the manifest's `contentHash`
   (`reactor-cloudflare/src/store.ts:36,107`).
2. `cache_drop`: a `restore` that found an old install's files gone deletes the
   manifest and files that another isolate has just installed
   (`store.ts:131-133,146,180`).
3. `sw_torn`: a service worker stopped between the put of the guid list and the
   puts of the blobs restores a dependency under another dependency's guid
   (`swsws/src/package-store.ts:74,123`).
4. `auth_config`: the authenticator that the first request of an OAuth2 package makes
   keeps the secret of that moment. Where the `deploy-config` message comes later it is
   acknowledged, and the next request is answered 501 as the first one was
   (`swsws/src/fetch-handler.ts:90`, `swsws/README.md:107-110`).

Seen while reading and not stated as a run:

* `packager/src/store-directory.ts:5` and the packager's README say `index.json` maps
  guids to files; `readIndex` and `list` look up by *file* name.
  `store-directory.ts:91` says integrity gates apply to a dependency; the reader has
  only the signature's, the loader adds the checksums (`StoreDirectory` models both).
* One half-written or unidentifiable archive makes `list` throw, and so blocks every
  dependency of the store. An archive is read again after it was chosen and not
  compared with what was listed. A dependency that is encrypted cannot be loaded.
* Datasets in YAML are sent as they are by the Cloudflare reactor and the service worker,
  and as JSON by Node, though `reactor-cloudflare/src/serving.ts:3,14` says it
  mirrors the Node reactor; `ReactorsAgree` states the agreement up to this.
* A file of `content/` that lies at `api/v1/data/<id>` takes the generated path of that
  dataset, though `core/src/generate/routes.ts:11` gives every dataset one: resources come
  first. So does `.html`, without an index, take `/`.
* Introspection lists a route at its `path` even where it is served at its `remap`.
  An entry with both a `target` and a canonical key means something else when
  another entry of the file forces legacy parsing. Only the service worker enforces
  `accessControl`.
* The message handler ignores the dependencies that `swsws/README.md:80-83` describes; a
  dependency blob missing from the cache is skipped and the package reported valid.
* A put that is rejected part of the way leaves the new main blob, and maybe its guid
  list, in the service worker's cache: the page is told `ok: false`, the old package stays
  in memory, and the next worker restores the new one (`swsws/src/package-store.ts:118-124`).
  The service worker logs a package with a damaged dependency as dropped and keeps it.
* A cache call rejected inside `restore` is memoised in the Cloudflare reactor's
  `initPromise`: every later request of the isolate throws, installs included, until the
  runtime discards it (`OnlyRestoreRejects` says that nothing else does that).
* `path in checksums` (`core/src/checksums.ts:123`) takes a file at the root of a package
  named like a member of `Object.prototype`, say `constructor`, for a covered one.
* Files of a package whose manifest was evicted are never deleted.
* A path outside `content/` reaches a private layer's files and the tombstone marker
  that `core/src/layers.ts:107-108` says is never served.
* Tombstone markers are not covered by checksums (`core/src/checksums.ts:40-47`).
  Packing a signed directory drops the claim that it is signed, without a word.
  The signed payload does not contain the paths.
* Encrypting an encrypted archive wraps it twice, and a reader that opens the outer
  envelope serves the inner one as a package.

## 5. Proofs

The constants are arbitrary within the named assumptions (`CapsAssumption`,
`PathsAssumption`, `WorkerAssumption`; `StoreAssumption` of `SwPackageStore`; `AuthAssumption`;
`LayersAssumption`; `StoreAssumption` of `StoreDirectory`; `ServingAssumption`,
`RequestsAssumption`; `PublishingAssumption`): any packages, paths, isolates, requests, users,
tickets, faults, layers, archives, versions, processes, runs and edits. The assumptions give
the constants their types and name what the environment is trusted with; TLC evaluates each of
them on the instances of the runs.

### Stores

| Theorem | Statement | Argument |
|---|---|---|
| `CacheStoreProofs!TypeCorrect` | `Spec => []TypeOK` | `TypeInv`: the types, and that a task beyond `Verify` holds a verified blob |
| `CacheStoreProofs!ManifestHonest` | `SerialSpec => []ManifestNeverLies` | not inductive alone: `SerialInv` adds what the single installer has already put or deleted (`PutOK`), and that restore's own clearing only loses entries |
| `CacheStoreProofs!SoloServesOneCap` | one isolate: `SerialSpec => []ServedIsOneCap` | `PhaseInv` (requests work only after initialisation ended) excludes a writer while restore reads; `SoloInv` adds `ReadOK`: what restore has read is the listed package's |
| `CacheStoreMemoryProofs!DropsAreDue` | one isolate: `Spec => []DropsOnlyDamaged` | `DropInv`: what restore has read is what is stored unless it was evicted since, and from the decision to drop on a file of the listed package is missing or foreign; requests wait meanwhile, so the cache can only lose entries (`Losing`) |
| `CacheStoreMemoryProofs!StartsServing` | a startup package, no failing cache call or fetch: `Spec => []StartupServes` | `StartInv`: where initialisation ended something is installed, and no task on the way there can fail |
| `CacheStoreMemoryProofs!MemoryHolds` | one isolate, no eviction or failing cache call: `SerialSpec => []MemoryMatchesStore` | `StageInv`: for each stage of `install` and `restore`, which keys are in the cache and whose they are; nothing is installed before initialisation ended |
| `CacheStoreMemoryProofs!SlotImplemented` | one isolate, no eviction: `SerialSpec => ImplementsSlot` | each step of the task that changes the manifest or what is served is a step of `PackageSlot`; `SoloInv` says that what a restore adopts is the slot's package |
| `CacheStoreMemoryProofs!RejectionContained` | `Spec => OnlyRestoreRejects` | `InitMoves`: which steps move `initPromise`; `EmptyInv`: an isolate whose initialisation has not ended, or was rejected, has installed nothing, since requests work only after it ended |
| `SwPackageStoreProofs!TypeCorrect` | `Spec => []TypeOK` | `Inv`: the lists of guids that `install` can have written, what restore has read of the positions before its own (`Restored`), what each handler holds at each stage (`HandlerAt`) |
| `SwPackageStoreProofs!VerifiedBeforeStored` | `Spec => OnlyVerifiedStored` | by `Inv` a handler that puts holds a verified bundle; the action property then goes action by action |
| `SwPackageStoreProofs!MemoryHolds` | `SerialSpec => []MemoryMatchesStore` | `Progress`: how much of its bundle a writer has put, in which order, and that a clearing one serves nothing; restoring the lists that `GuidsOf` wrote rebuilds the bundle; what does not verify is restored as nothing (`NextWorkerView`). After a rejected call (`behind`) nothing is claimed until an install or a clear ends, or the worker is stopped |
| `SwPackageStoreProofs!SlotImplemented` | `SerialSpec => ImplementsSlot` | the put of the main blob is the slot's replacement, the deletion in `clear` and in a restore its emptying; every other step stutters |

### Requests

| Theorem | Statement | Argument |
|---|---|---|
| `AuthGateProofs!TypeCorrect` | `Spec => []TypeOK` | `Inv`: a task captured a model of this worker whose authenticator exists, its cookie is one that was given out, and the roles it carries are the provider's or none |
| `AuthGateProofs!GateHolds`, `ExpiryHolds`, `RolesHold` | `Spec => []ServedIsGated`, `[]NoExpiredSession`, `[]DatasetRoleHeld` | `WellAnswered`: an answer follows from what the task captured (`Vouched`: the principal was established by the captured model's authenticator; `Admitted`: it holds the roles) and not from what is installed when it is given; one step per way to answer |
| `AuthGateProofs!TicketsImplemented` | `Spec => ImplementsTickets` | `OnePlace`: each state value is in one place only: not issued, pending, carried by one callback, in one cookie, or spent. Expiry, the end of a callback and a stop of the worker only spend |
| `RequestsProofs!TypeCorrect` | `Spec => []TypeOK` | `Every`, see below: answers are records, and a request has one exactly when it is done |
| `RequestsProofs!HandlersOwn` | `Spec => []HandlerOfItsPackage` | `SourcesNamed`: a module's key names the model and file it was imported from; `Waits`: a request waits for the key of the file its own route names. Models are only appended (`ModelsGrow`), so what a request captured stays |
| `RequestsProofs!OneImportOnly` | `Spec => []OneImport` | `Verdicts`: a handler's answer is the verdict of its settled module on the package the request captured; the memo only grows and a module settles once |
| `RequestsProofs!LengthHolds` | `Spec => []LengthIsBody` | `Every == Inv /\ Verdicts /\ Answers`: each answered request's three answers are what its package and its question determine. The rest is a property of the operators of `Serving`, by what the resolver found (`Resolves`, `FoundIs`): no route's headers and no rewriting of the body come after the length is taken |
| `RequestsProofs!AgreementHolds` | `Spec => []ReactorsAgree` | `Every`; `NodeServes`, `CloudflareServes` and `WorkerServes` give what each code answers for each kind of route, and the cases are compared |
| `RequestsProofs!DependencyContentHolds` | `Spec => []DependencyContent` | `Every`; `OwnerIsLongest`, `FallthroughIs`: whose a reference is, and when an own path falls through to dependencies |
| `RequestsProofs!PrecedenceHolds` | plain packages: `Spec => []Precedence` | `Every`; `ClassifyMeans` and `LegacyMeans`: what an entry of `routes.json` says is what the route made of it is served as, so the first position by kind and path is the first entry |
| `RequestsProofs!GeneratedHolds` | `Spec => []GeneratedReachable` | `Every`; `Places` gives the generated route at each place and `GeneratedAt` the places of a path: the root's, a file's own, those of the files it is without extension, a dataset's. `FirstGenerated` finds the first of them: that a file's own place comes before another's stem needs the order of names. `FileAnswers`: a route that rewrites nothing sends the file, in all three codes |

### Packages

| Theorem | Statement | Argument |
|---|---|---|
| `CompositeProofs!TypeCorrect`, `StoreTypeCorrect` | `Spec => []TypeOK`, `StoreSpec => []StoreTypeOK` | one step per action |
| `CompositeProofs!OverlayCorrect` | `Spec => []OverlayResult` | `LoopInv`: no visible layer above the loop's position has the file, and the flag says whether one of them deletes it. `FirstHit` and `Exhausted` then decide the overlay, `AnswerCorrect` carries it to dependents |
| `CompositeProofs!NewestPlanned` | `StoreSpec => []PlanCorrect` | `NewestHolds`: after each position the loop holds the newest candidate in range so far, by the least position where it would not; `OrderIsBelow` and `ComparatorIsInterval`: the code's comparison is the order of triples, its comparators are the intervals. `StoreInv`: the plan is still what the listing gave |
| `CompositeProofs!LoadedIsPlanned` | `StoreSpec => []LoadedAsPlanned` | `StoreInv`: each file read is the listed one or was rewritten since; only what passed the gates is verified |
| `PublishingProofs!Computed` | `Spec => []Inv` | every `security.json`, signature and payload on disk, in memory or queued was computed by a run (`Genuine`), whatever lies beside it; the histories only grow (`Grow`). One lemma per operation |
| `PublishingProofs!OneSnapshot` | `Spec => []ServedAsSealed` | no issue of `verifyIntegrity` means that the checksums *are* those of the files (`ChecksumsVouch`), and they are of one snapshot |
| `PublishingProofs!OneSigner` | `Spec => []ServedAsSigned` | `ChecksumsVouch` for a load, whose embedded key is among the checksums; `SignatureVouches` for the signature alone |
| `PublishingRunsProofs!WhatRunsLeave` | `Spec => []Left` | strengthens `Inv`: what a run holds and has left to write at each stage (`RunOK`), that whole archives are whole (`DiskOK`), that no two envelopes share a data key (`Deks`), and of an undisturbed seal or signature that the directory with the writes to come is what it set out to make (`AloneOK`) |
| `PublishingRunsProofs!TypeCorrect`, `ArchivesHold` | `Spec => []TypeOK`, `[]ArchivesVerify` | from `Left`: an archive is opened torn and closed with what one run computed |
| `PublishingRunsProofs!EnvelopesOpen` | `Spec => []OpensWhatWasWrapped` | from `Left`: an envelope and a payload that open with one another carry the same data key, which one run made; without a key an envelope is not read at all |
| `PublishingRunsProofs!RepairHolds` | `Spec => []RunAgainRepairs` | from `Left`: the last write of an undisturbed run completes a directory whose checksums are its own and whose signature covers them |

### Hypotheses

A theorem with a hypothesis says what the code itself does not guarantee:

* `SerialSpec`, as above: nothing in either store keeps two installs apart. Findings 1 and 3
  are what happens without it, or with a stop in between.
* `Solo` (at most one isolate): isolates share the cache and not `initPromise`, so what one
  clears another has just installed (finding 2). `ManifestHonest`, `RejectionContained` and
  `StartsServing` hold for any number.
* *No eviction* for `MemoryHolds` and `SlotImplemented` of `CacheStore`: an evicted entry empties
  the slot while memory goes on serving it, as the code means it to. *No failing cache call* for
  `MemoryHolds`: an install whose puts are refused
  part of the way leaves the old package in memory over a cache that holds parts of two. A startup
  that is fetched in vain, or a cache that refuses, may leave an isolate empty: hence the
  hypothesis of `StartsServing`.
* `PlainPackages` for `Precedence`: each entry of every `routes.json` names one of a resource, a
  dataset, a handler and a legacy target. An entry with two of them is read in one of two ways,
  depending on the *other* entries (see "Seen while reading"), so that there is no one route it
  declares. The packages of the run satisfy it.

### What is only model-checked

* Liveness: `InstallAnswered` (`sw_store`). Weak fairness is
  defined by `ENABLED`, which the proof system does not support.
* What `SortedNames` stands for: that the generator's comparison sorts names is not proved of a
  sorting algorithm. Neither is anything that needs an induction over data, since the library's
  induction theorems take an operator as a parameter, which the installed provers cannot
  instantiate. Where one is needed (`NewestHolds`, the positions of a sequence; `Minimum`, the
  first route of a path) it is made over a concrete predicate, by its least counterexample.
* The properties of the runs that expect a violation.

## 6. What is left

1. `AuthGate` in front of `Requests`: a protected package asked for every kind of route.
2. Two loads of the store directory sharing archives with a running packager.

Not modelled, and why: schemas, MIME tables, error classes, command-line parsing and
the wording of responses have no state and no order; MD5 and the wrappers of
platform cryptography are taken as their outcome; explicit keys and key formats of
signing; the binding of the Node server's port; the package test runner and the
interoperability harness are sequential scripts.
