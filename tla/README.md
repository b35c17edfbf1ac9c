# A verification development for the Noqeri registry

Paths are those of the repository, seen from its root with the prefix `src/`
that `PROJECT.json` uses left out. Everything stated here about the code was
read from the Go sources; the documents of the repository are quoted only
where they disagree with the code.

## 1. The system and its parts

The repository is two Go programs that serve, a handful of tools that write the
tree they serve, and about 16,000 lines of packages in the Noqeri language,
which are data for these programs.

| Component | Source | State it keeps | Operations |
|---|---|---|---|
| Database host | `internal/hostbridge/db.go` | `mu`, `handles`, `current`; per handle a `*sql.DB` and a `*sql.Tx` | Open, Close, CloseAll, Begin, Commit, Rollback, Exec, Query |
| Host process and protocol loop | `internal/hostbridge/host.go`, `cmd/noqeri-host/main.go` | the frame in hand, `lastStatus` | Serve, Dispatch, Close, main |
| Extern mapping | `internal/hostbridge/extern.go` | none of its own; reads `lastStatus` | InvokeNoqeriExtern |
| HTTP provider host | `internal/hostbridge/http.go` | none between calls | Execute, request and host rules |
| Stripe webhook | `internal/hostbridge/payment.go` | none | VerifyStripeSignature |
| Archive builder and cache | `internal/registry/archive.go` | `mu`, `items` | ArtifactCache.Get, BuildArchive |
| Catalog | `internal/registry/catalog.go` | an immutable snapshot of `registry/index.json` | Open, semverCompare |
| Registry handler and server | `internal/registry/handler.go`, `cmd/registry/main.go` | catalog and cache | ServeHTTP |
| Verification tool | `cmd/registryctl/main.go` | none | verify, audit |
| Package upgrade tool | `cmd/packageupgrade/main.go` | the files of every release | rewrites sources, tests and docs in place |
| Release generators | `cmd/releasebatch2`, `cmd/releasebatch3` | release directories, `registry/index.json` | write releases, then the index |
| Drivers, workflows, policy sources, packages, catalog data | see `PROJECT.json` | | no behaviour of the programs above |

### How they interact

* A Noqeri runtime writes JSON frames to the standard input of `noqeri-host`.
  `Serve` handles one at a time: it makes a 12-second context, calls `Dispatch`,
  cancels the context, writes one reply. `Dispatch` calls the database host, the
  HTTP host, the webhook verifier or the extern mapping. When input ends, `main`'s
  deferred `Close` runs `CloseAll`; when `Serve` fails, `os.Exit` skips it.
* The database host leans on `database/sql`: a pool lends at most three
  connections, a transaction keeps one, and a goroutine of its own
  (`awaitDone`) rolls a transaction back when the context given to `BeginTx` ends.
  `DBHost` has a mutex and exported operations that embedders may call concurrently:
  its module has several callers, and the protocol loop is the special case of one.
* `Engine` is documented (`host.go:53`) for a single stream of requests and concurrent HTTP
  calls, which share `lastStatus`: `HttpHost` has several callers too.
* `cmd/registry` reads the index once, then serves requests concurrently. Listings,
  metadata and downloads take archives from one `ArtifactCache`, whose mutex is held
  while a directory is read. The tools write into the same tree, in place, with no lock.

### Which behaviours are hard, and what makes each part correct

The list by line is `hazards` in `PROJECT.json`. In short:

* **Database host.** The mutex is released between two halves of `Open` and of
  `Close`, and held across driver calls that may take seconds; a transaction may be
  ended by its context at any moment, including between the client's commit and
  its answer. Correct means: no leaked or shared pool, no call on a closed one, no
  transaction that nobody can finish, no more handles than the limit, no number
  used twice, no answer that the store contradicts, and no call that waits for ever.
* **Protocol loop.** One request at a time, a context for each, several ways to end.
  Correct means: every frame answered with its id, transactions that live as long as
  documented, nothing left behind by a clean end.
* **Extern mapping and HTTP host.** `lastStatus` is shared between calls and is not
  updated on an early return; credentials go to hosts that two hand-kept lists
  allow; a connection breaks after the provider got the request; a reply stalls at any point. Correct
  means: a token stays with its provider and tenant, no write is repeated behind the client's
  back, a status is not that of a call from before the caller's own, every call is answered.
* **Stripe webhook.** A header is a list of items in any order and number. Correct means: exactly
  the events with a fresh signature of the payload are accepted.
* **Archive cache and registry handler.** Files change between `Lstat` and the read;
  several requests miss for one release at once; a listing looks releases up one by one.
  Correct means: archives within their limits, one digest per version, listings that
  agree with downloads, every request answered.
* **Catalog.** `semverCompare` is an order only on some of the versions that the pattern
  admits. Correct means: every release of the index once, newest first.
* **Tools.** They write file after file in place, and may be stopped between any two steps of
  a write. Correct means: a rerun completes what a stopped run began, a crash costs one file and
  the API made from it at most, no release is listed before its files are there, a clean run passes its own check and `verify`.

## 2. The modules

| Module | Models | Built on |
|---|---|---|
| `TxHandles` | the contract of the database host with its client: no mutex, pool or goroutine | |
| `DBHost` | `db.go`, and the part of `database/sql` it uses | |
| `HostServe` | `host.go` (protocol loop) and `cmd/noqeri-host` | EXTENDS `DBHost` |
| `PinnedReleases` | the contract of the registry with its clients: no tree, walk or mutex | |
| `ArtifactCache` | `archive.go`, and the tools as writers of files | |
| `RegistryServe` | `handler.go`, `cmd/registry`, the snapshot of `catalog.go`, and the tools as writers of the index | EXTENDS `ArtifactCache` |
| `HttpHost` | `http.go`, `extern.go`, and `http`, `http_status`, `invoke` of `host.go` | |
| `StripeWebhook` | `payment.go` | |
| `Catalog` | the opening of the catalog and `semverCompare` of `catalog.go` | |
| `ReleaseTools` | `cmd/releasebatch2`, `cmd/releasebatch3`, `cmd/packageupgrade`, `verify` of `cmd/registryctl` | |
| `DBHostProofs` | theorems: the safety of `DBHost` | EXTENDS `DBHost` |
| `DBHostRefines` | theorem: `DBHost` implements `TxHandles` | EXTENDS `DBHostProofs` |
| `HostServeProofs` | theorems: the safety of `HostServe` | EXTENDS `HostServe`, `DBHostProofs` |
| `RegistryProofs` | theorems: the safety of `RegistryServe`, and that it implements `PinnedReleases` | EXTENDS `RegistryServe` |
| `HttpHostProofs` | theorems: the safety of `HttpHost` | EXTENDS `HttpHost` |
| `StripeWebhookProofs` | theorems: what `StripeWebhook` accepts | EXTENDS `StripeWebhook` |
| `CatalogProofs` | theorems: `semverCompare`, the sort and the loop of `Catalog` | EXTENDS `Catalog` |
| `ReleaseToolsProofs` | theorems: the safety of `ReleaseTools` | EXTENDS `ReleaseTools` |
| `MCDBHost`, `MCHostServe`, `MCRegistryServe`, `MCHttpHost`, `MCStripeWebhook`, `MCCatalog`, `MCReleaseTools` | instances for TLC | |

Operators whose comment begins with *Mutant* are not part of any specification.
Each is a definition of the code with a plausible slip in it (a dropped guard, an
unlock left out); putting it in the place of the definition that follows it must
break the property that `PROJECT.json` names with it, which shows that the property
depends on that piece of code.

### DBHost

State: `mu`, `current`, `handles` are the fields of `DBHost`; `dbOf` and `txOf` are the
fields of each handle's struct, which outlives its entry in the table while a `Close`
holds it; `pools` and `txState`/`txPool`/`ended`/`writes` are what `database/sql` knows;
`store` is the database; `pc`, `op`, `arg`, `newDb`, `held`, `todo` are the callers'
stacks. `acked` and `discarded` record what callers were told, for the properties.

A call that holds the mutex across a driver call is two actions. *Enter* takes the
mutex and does what comes before the driver call (`finish` clears `state.tx` there,
`db.go:151`); the second is the driver call, its answer and the deferred unlock. What is
done without the mutex (the ping, the rollback and `db.Close` of `Close`, the loop
of `CloseAll`) is an action of its own. Early returns are actions too: a call refused
before it reaches the table (`OpenRefused`, `StatementRefused`) changes only its result.

A driver call may fail; a commit may take effect and lose its answer; `Tx.Commit`
refuses a cancelled context and leaves the transaction to `awaitDone`; `Tx.Rollback`
does not look at it. `awaitDone` makes a transaction *done* while somebody still
refers to it, so that its identity is not used again under them.

### HostServe

One caller, the goroutine of `Serve`. A frame is malformed, refused, answered
locally, or a database operation. `Dispatched` is the return of `Dispatch` together
with `cancel()`, which ends the contexts of the transactions that the request began.
`EncodingFails` is `json.Marshal` meeting an infinite or NaN float (`readRows` passes
`float64` cells through); `WriteFails` and `ReadFails` are errors of the streams.
The contexts of two requests never overlap, so `requestTx` is the only set needed.
`invoke` of a database symbol is the database operation or, with wrong arguments, a local answer.

### ArtifactCache

A release is a function from files, numbered in the order of the walk, to contents.
Of a content only its size matters, and whether it is the empty one that `os.WriteFile`
leaves between truncating and writing. `Get` is: take the mutex (`Hit`, `PathRefused`
or `Lists`), then for each file an `Lstat` (`Stats`) and a read (`Reads`), each with its
refusal, then `Archives` or `ManifestRefused`. A file created in a subdirectory
that the walk has yet to reach may join it (`ListsMore`). The archive bytes are
a function of names and contents (sorted entries, zero times, fixed gzip level), so an
archive here is the function from files to contents, and equal archives are equal digests.
The tools (`WriteBegins`, `WriteEnds`, `ToolCrashes`) write any file of any release.

### RegistryServe

A request asks for a listing (`/v1/index`, `/v1/packages`, `/v1/search`, a package or its
versions), for the metadata of a release, or for its download; everything else is
answered at once. A listing looks up the archives of its releases one after the
other, in any order here (the code's order is fixed), and is written at its end.
`Killed` loses the cache and the requests in hand; `Start` reads the index, unless it is
torn, in which case `Open` fails and the process never serves. `told` and `ever` are
history: the archives whose digests reached a client in this life of the process, and
ever. The check of `handler.go:119-120` compares the digest of bytes in memory
with the digest computed from the same bytes, and has no outcome but success.
`Registry!Spec` is the contract with `pinned <- items`: putting an archive into the cache pins
it, a reply tells, the end of the process forgets both, and all else is a stutter.

### HttpHost

A call of each caller is at one of `dial`, `sent`, `reply`, `store` (`Execute` has returned,
and the line `host.go:91` is still to come), and ends in `Stores`. `Begins` is everything up to
`client.Do`; what refuses a request there ends with status 0 (`ExecuteRefuses`) and is stored
like any other. A refusal of `providerHttpJson` ahead of `Dispatch` stores nothing and changes nothing, so it is no action.
Host names are sequences of labels, so that a suffix of the list is a suffix of the sequence, and
the lists are those of the code. `status` is `result.Status` once there is one; `deliveries` counts how often
the provider may have taken up the request, with the rules of `net/http` for sending again (external):

* `Resends`: over HTTP/1 only on a connection that was used before, which a `Transport` of one call never has,
  and only what is idempotent or has an `Idempotency-Key`;
* `Declines`: over HTTP/2, which `http.go:98` asks for, whatever the provider declares not to have taken up, on
  a fresh connection too. `net/http` takes a refused stream, a `GOAWAY` with a lower last stream and a
  protocol error of the peer for such a declaration, and so does the model: a provider that declines what it did take up is
  outside of it.

`Parts` leaves it open whether the connection of a call that ends is kept (an HTTP/2 connection may outlive a
broken stream). `since` is history, for `StatusNotOlder`. It follows the calls by their intervals,
not the assignments to `lastStatus`: when a caller's call begins it is what the others have not stored yet, and then
every end of an `Execute` adds its status. Between the end (`host.go:89`) and the store (`host.go:90-92`) others
may begin, end, store and ask, so the order of the stores is not that of the ends, and a caller may be told the status of
a call that `Execute` had finished before its own began, but not of one that had been answered.

### StripeWebhook

One action for each kind of item and one for the verdict; `next` is the loop's position. A digest is
the pair of timestamp and payload that was signed, `Foreign` when the secret is another.
`Genuine` says what should be accepted without a loop or an order of tests.

### Catalog

`Validates` and `Refuses` are one turn of the validation, of the package (`k = 0`) or a version;
`Swaps` and `Settles` are the inner loop of the insertion sort that `sort.SliceStable` is for at most 20
elements; `Opens` is `sort.Slice` by name, of which all that is used is that it rearranges the
packages and that their names ascend. An identifier is its number, or `NaN`, and its rank among the
texts of the index, which is all that `semverCompare` looks at; `Precedes` is the rule of Semantic Versioning
as a formula with quantifiers, for comparison. `MaxUint` is where `ParseUint` gives up.

### ReleaseTools

`disk` maps files to what the tools put there. A file of which `packageupgrade` reads its own
former output (a source, a readme) is what it began with and what was appended; a torn one that
was appended to has the base `lost`. A run of a tool is a list of files (`BatchFiles`, `UpgradeFiles`);
at each the tool passes, begins to write (the truncation of `os.WriteFile`) and ends,
or stops. `Order` is the order of the directories, in which an upgrade goes through the releases, and `Made` the
generator's own sorted list (`releasebatch2/main.go:39`). "test" is the regression test and the
example that is written after it, "contract" the two files made of a rule's test; the other files are themselves. The two generators differ in the names of their packages and are one here.
`Crashes` stops a tool at any step; `RulesChange` edits `package-upgrades.json` between runs.
`goal` remembers what an uninterrupted upgrade would have made of the tree that the first of
several interrupted ones met. `Settled` is the tree once the write under way is through, and `Damaged` what
crashes have cost: files that are torn, sources and readmes of which an upgrade took a torn file for the original, and
an API made from such a source that outlives its repair. `Verifies` is `registryctl verify`, which changes nothing.

## 3. The runs

| Run | Module | Question | Distinct states |
|---|---|---|---|
| `table` | DBHost | the eight safety properties with two concurrent callers, and the contract `TxHandles` | 275,948 |
| `returns` | DBHost | does every call return? | 48,192 |
| `exits` | HostServe | what is left between requests and at the end; is every frame answered? | 176,462 |
| `digests` | RegistryServe | one digest per life of the process, limits, reproducibility, and the contract `PinnedReleases` | 160,606 |
| `answered` | RegistryServe | is every request answered? | 129,024 |
| `http` | HttpHost | where tokens go, what is sent twice, whose status is told, is every call answered? | 123,115 |
| `webhook` | StripeWebhook | is exactly what is genuine accepted? | 670,812 |
| `versions` | Catalog | are all releases there, newest first? | 128,479 |
| `releases` | ReleaseTools | what do completed runs guarantee, and what do crashes cost? | 83,075 |
| `spans`, `outlives` | HostServe | two statements about the host that the code contradicts | violation |
| `rewritten` | RegistryServe | one about the registry | violation |

### Bounds

* `DBHost`: two callers give every pairwise race; the code has no step in which three
  calls meet at once, since the mutex serialises all but the two unlocked halves. Two opens with
  a table of one (eight in the code) reach the full table, an Open that is refused
  after its ping while another takes the last place, and a handle opened after a close.
  Two transactions and two connections (three in the code) let a transaction live beside the
  doomed one that its handle had before; `returns` has one connection, which a doomed transaction keeps
  from everybody. Two rows, so that a transaction can be split. `MaxOpens` bounds `current`,
  which the code never resets. The theorems of section 5 hold for all values.
* `HostServe`: one caller, and two handles at once. `CHECK_DEADLOCK FALSE` because the process ends.
* `RegistryServe`: `digests` has two readers on one release: releases meet only in the
  mutex, which one release shows. Three files with limits of two files and three bytes, and
  contents of zero, one and two bytes, reach both limits at the `Lstat`, the byte limit
  at the read alone, and a file growing between the two. One rewrite is two changes of the
  tree (the truncation and the new content), each during a build or after it, and may be torn or be of the index instead.
  `rewritten` has one reader and two files, which is all that its counterexample needs.
  `answered` has a second release whose path is refused, and no writers, who cannot delay a reader.
* `HttpHost`: two callers, since calls meet in `lastStatus` only, two statuses to tell calls apart, two
  connections (`MaxConns` bounds those that are open or idle). Eleven host names: by name, by suffix, the
  bare suffix, a name that goes on after a listed one, configured and other tenants, a provider without a configured tenant.
* `StripeWebhook`: four items are a timestamp, a second one, and the signatures before and after; at most two
  signatures are looked at (ten in the code), so three exceed it. A tolerance of one on three times has both ends
  and both outsides. `CHECK_DEADLOCK FALSE` because the function returns, in `Catalog` likewise.
* `Catalog`: lists of up to four versions, of sets in which any two differ in a way that
  `semverCompare` tests: triples, stages, numbers against numbers, words and lengths, builds; and
  the same with numbers over `MaxUint` and with leading zeros. Pairs of packages in
  both orders, with equal names, and with a bad version in the second.
* `ReleaseTools`: one release of each kind (written by hand with a rule, generated with a rule, without a
  rule), two versions of the rules, and three writing runs, so that an interrupted run is followed by a run
  of the other tool and a rerun. `CHECK_DEADLOCK FALSE` because nobody has to run a tool again.
* `HostServe.MsgId` has one id: ids are only ever copied.

### Fairness

* A goroutine that can take a step takes it: weak fairness on what needs no lock.
* `sync.Mutex` hands itself to a waiter that has starved for a millisecond, so a waiting
  caller gets it however often others take it: strong fairness on `Locks` and `Takes`.
* `awaitDone` runs once the context has ended: weak fairness on `AwaitDone`.
* `HttpHost`: `Client.Timeout` fires (weak fairness on `TimesOut`) and Dispatch goes on once `Execute`
  returned; there is none on anything that the provider does.
* Nothing need fail: there is no fairness on driver errors, deadlines, broken builds or
  kills. A driver call that could only end by an error would show as a call that
  never returns. Clients need not send anything.

## 4. Findings

Each is a run in which TLC finds the quoted statement violated.

* **`spans`** (`host.go:156`). `docs/HOST_RUNTIME.md:47` documents transactions as
  `db_begin`, statements, then `db_commit`. `Serve` cancels the request's context as soon
  as `Dispatch` returned, and `Begin` gave that context to `BeginTx`, so `database/sql`
  rolls the transaction back right after `db_begin` was answered. The passing property
  `NoTxOutlivesItsRequest` is the other face of it.
* **`outlives`** (`host.go:158`). The comment at `host.go:140` has the process serve later messages
  after a malformed one, but a query whose result cannot be encoded makes `Serve` return and ends the process,
  with every handle unclosed.
* **`rewritten`** (`packageupgrade/main.go:84`). `registry/PACKAGE_FORMAT.md:15` calls a package version
  content-addressable and reproducible. `packageupgrade` rewrites the sources of released versions in place, and the
  digest that was told first is kept by one process only (`archive.go:107`): after a restart the same version has
  another. `OneDigestPerProcess` and `Reproducible` are what does hold.

Other disagreements met while modelling, which no run is about:

* A frame that does not decode is answered without its id (`host.go:152`; `ReadMalformed`), where
  `docs/HOST_RUNTIME.md:28` gives every response the matching one.
* Each call makes a `Transport` with limits of its own (`http.go:95`), so the pools that
  `docs/HOST_RUNTIME.md:82` calls bounded are not bounded together.
* An edited rule does not reach a source that has the marker of an older one, and `-check` is green
  (`packageupgrade/main.go:80`); after a generator runs again the source is without the rule, and the contract stays.
* The tests that an upgrade writes into the MIT releases of `LICENSES/README.md:5` have a GPL header
  (`packageupgrade/main.go:86`).
* `registryctl verify` does not see that a source is empty (`registryctl/main.go:46`).
* A `providerHttpJson` refused before `Dispatch` leaves the status of the request before it for `providerHttpStatus`
  (`extern.go:46`), which the packages offer as that of the last request (`githubLastStatus`,
  `packages/noqeri/github/1.0.0/src/github.noqeri:9`).
* A crash in the middle of a write costs the text of that file for good: the next upgrade takes the torn file for the original,
  and both the upgrade and `-check` are green over it (`packageupgrade/main.go:77-84`). `DamageBounded` says how far it goes.

## 5. The proofs

Every theorem is of a specification and for all values of its constants that satisfy the
`ASSUME`s of its modules, which TLC evaluates on the runs. They say no more than what the code
justifies or the model needs to name things: "none" values are not members, bounds are natural numbers, and

* `DBHost`: callers and transactions are finite (`FiniteAssumption`, needed to count); `HostServe` has the one caller of `Serve`.
* `ArtifactCache`: files are numbered in the order of the walk, a content has a size, and that of the truncated file is 0.
* `HttpHost`: host names are sequences of labels, the environment names a tenant's host or none, status 0 is no provider's, and there
  is room for one connection.
* `StripeWebhook`: times are positive, and what does not decode is nobody's digest.
* `Catalog`: the index has the fields of `Package` and `Release`, triples of numbers, and identifiers that are numbers or not.
* `ReleaseTools`: the generator and the rules are for releases of the tree, and a file without a content has none (`MarkAssumption`).

None of the properties is inductive by itself. Each proof module defines an invariant `IInv` (`ServeInv` in
`HostServeProofs`) as a conjunction of named parts. TLC checked it as an invariant on the instance of the component's
run before it was proved. The proof has a lemma for each
action, and the properties follow from the invariant.

### DBHost (`DBHostProofs`)

`IInv` is `TypeOK` with:

| Part | Says | Needed because |
|---|---|---|
| `FrameOK` | which operation a caller is in at each `pc`, and which locals it has | a step's guard tests `pc` only |
| `MutexOK` | `mu = c` exactly while `c` is in a driver call | two driver calls never overlap |
| `BoundOK` | there is a number for each open under way | `Register` stays within `Id` |
| `TableOK` | driver calls are on registered handles, closes on removed ones, one close for each | `NoUseAfterClose`, `CloseOwnsState` |
| `PoolOK` | a pool has one owner, whether handle, close or open | `PoolsAccounted`; closing one leaves the others |
| `TxOK` | a transaction is referred to by one struct or by one finishing call, and has the pool of its struct | `TxAccounted`; dropping one leaves the others |
| `RowOK` | a row is in one transaction, in the store or discarded | `AnswersTrue` needs to know where rows came from |
| `HandleLimit` | itself | the test and the insertion are one step |

The proof goes up a ladder: `Inv1` (types, frames, mutex, bound), `Inv2` adds the
table, `Inv3` the pools, `Inv4` the transactions, `IInv` the rows and the limit. Each
rung has a lemma for the steps of callers and one for the steps of transactions, so that a
lemma sees only the definitions it is about. Theorems: `TypeCorrect`, `LimitHolds`, `PoolsHold`, `CallsAreOnOpenPools`,
`NoForgottenTx`, `AnswersHold`, `CloseIsAlone` for the seven invariants of the run `table`,
`NumbersNeverReused` for its action property.

**The refinement** (`DBHostRefines`: `Spec => ImplementsTxHandles`). The client sees of each handle a
phase and the rows pending in it. What a handle's transaction is (`CurrentTx`) is `state.tx`,
except between the two actions of `finish`, when the code has cleared the field and the
transaction is the local variable: to the client the handle is still in its transaction
until the commit is answered. `View` reads the phase of each handle off the invariant; then every
action is a step of the contract on one handle or leaves all views alone: registering
opens, `BeginTx` begins, a statement writes or autocommits, `Commit` commits or abandons,
`Detach` closes, `AwaitDone` dooms, and the rest stutter.

### HostServe (`HostServeProofs`)

The steps of the loop are steps of `DBHost` by its one caller, so the lemmas of `DBHostProofs` carry its `IInv` over, and
with it every invariant of `DBHost`. `ServeInv` adds:

| Part | Says | Needed because |
|---|---|---|
| `ContextsOK` | a transaction whose context has not ended was begun by the request in hand | `NoTxOutlivesItsRequest`: the cancel of that request ends it |
| `CallOK` | which call into the table is under way at each point of the loop | the next frame finds the caller idle |
| `HandlesOK` | what the client was not told of is the handle whose number is in the answer | `ClientKnowsHandles`: the ping that fails late leaves no handle |
| `ClosingOK` | what is in the table while it closes is in what `CloseAll` has listed and not come to | `CleanExitClosesAll` |

Theorems: `ServeTypesHold`, `TxEndWithRequests`, `CleanExits`, `ClientHasEveryHandle`.

### RegistryServe and ArtifactCache (`RegistryProofs`)

| Part | Says | Needed because |
|---|---|---|
| `TreeOK` | a file that a tool writes is a regular one | what a tool leaves is a content |
| `LockOK` | the mutex is held by exactly the reader that builds, and what it builds is not cached yet | a build never replaces an archive |
| `WalkOK` | a walk has read the files ahead of those left, and `size` and the count are of what it read | `ArchivesBounded`: the limits are tested against what was added up |
| `UnwrittenOK` | without writes, what is cached and what a walk has read is what is on disk | `Reproducible` across restarts |
| `KindOK` | a reader without a request is not in `Get` | a new request finds it idle |
| `PageIsCurrent` | itself | a listing under way survives other readers' builds |
| `ToldOK`, `EverOK` | what was told is what is cached; without writes, what was ever told is what is on disk | `OneDigestPerProcess` and `Reproducible` only count |

`ArchivesBounded` speaks of the sum of the sizes in an archive, a recursive function on the numbers of files. That it does not
depend on files that are not there, and grows by the size of the file that is added, is shown by the least
number at which it would fail (`LeastOf`). Theorems: `RegistryTypes`, `CachedWithinLimits`,
`ListingsAreCurrent`, `OneDigest`, `DigestsReproducible`.

**The refinement** (`RegistryPins`: `Spec => ImplementsPinnedReleases`). Each action has one of four effects on what clients know
(`Effect`): `Archives` pins a release that was not pinned, a reply tells what is pinned, the end of the process forgets, and
nothing else touches `items`, `told` or `ever`.

### HttpHost (`HttpHostProofs`)

`CallOK` (what a call sends was accepted, on a connection of its own, once), `ConnsOK` (connections in use and idle are within
`MaxConns`), `AskOK` (each caller may be told of every call that is not stored yet and, unless its own is under way, of the
one that was stored last: so whatever is stored while it waits to ask is in `since` already). Apart from those, `TokenStaysHome` is a
fact about the lists: `Below` is the label under the top-level domain, no two providers share one, every
entry of a list has its provider's, and a suffix of a list is a suffix of at most that host; so
a host is on one list, and where that list has a suffix `tenantHostAllowed` compares it with the environment.
Theorems: `HttpTypes`, `WritesOnce`, `StatusNotStale`, `TokensStayHome`.

### StripeWebhook (`StripeWebhookProofs`)

The invariant says what the pass has read so far without a pass: `TimestampOK` (the timestamp is the one at the last position seen),
`ReceivedOK` (what is kept are the well-formed signatures seen, as many of them), `VerdictOK` (which of these the verdict
came from). Theorems: `WebhookTypes`, `GenuineAccepted`, both directions of "exactly".

### Catalog (`CatalogProofs`)

First the operators, for sequences of any length. `Lex` is the order of the first difference for an order given as a set of pairs:
irreflexive, transitive and total if that one is (`LexIrreflexive`, `LexTransitive`, `LexTotal`). With it:

* `ComparesAhead`, `AheadTransitive`: on all versions `semverCompare` decides in agreement with a transitive relation, `Ahead`, on
  triples and stages, though it is no order itself on identifiers over 64 bits or with leading zeros;
* `BeforeIsPrecedes`, `PrecedesOrder`: on identifiers that are parsed and written in one way it is `Precedes`, a
  strict order up to versions that differ in their build only.

`Follows` joins the two with the place in the index. That each decision of `semverCompare` agrees with `Follows`, and that `Follows` is transitive, is
all that the sort needs: `Partial` (the versions before `i` are in order but for the one that moves, which is ahead of
those it has passed) is kept by `SortSwaps` and `SortSettles`, and becomes `Sorted` at the end. `IInv` has this for the package at
hand (`HereOK`), `Sorted` for those before it (`DoneOK`), the index for those after it (`AheadOK`), and the
distinct identities (`IdsOK`). Theorems: `CatalogTypes`, `NothingLost`, `OrderedNewestFirst`, `TriplesTogether`. They are about
insertion sort on lists of any length; the code runs it on at most 20 versions, and merges blocks of 20 beyond that.

### ReleaseTools (`ReleaseToolsProofs`)

| Part | Says | Needed because |
|---|---|---|
| `ShapeOK` | `todo` is the end of the plan of the tool | what was left behind is its beginning (`Left`) |
| `PendingOK` | what is being written is a content of the file that was truncated | a write that ends leaves a file of its kind |
| `RunsOK` | a crash is the end of a run | `crashes` stays in its bound |
| `BatchOK` | what the generator has left behind is as it makes it | `GeneratedIsComplete`, `ListedIsWhole` |
| `UpgradeOK` | what an upgrade has left behind is clean, in the tree once the write is through | `UpgradeIsClean`: no later step makes it unclean |
| `GoalOK` | no step of an upgrade changes what an upgrade makes of the tree | `UpgradeReachesGoal` |
| `DamageOK` | the damaged files are finitely many, and no more than the crashes | `DamageBounded`: a repaired source leaves its API in its place at most (`WroteOne`) |
| `ListOK` | what is listed has its manifest and source | `VerifyPasses` |
| `LastOK` | what the last run came to, as long as nothing has happened since | the properties about completed runs |

The heart is `Settled`, the tree once the write under way is through: to a truncated file no invariant about contents
applies, and to `Settled` all of them do. `Result` and `Final` are the operators of the model with
the tree and the version of the rules as arguments, since they are needed of two trees at once. Theorems: `ToolTypes`, `GeneratedWhole`,
`CrashesDamageOne`, `UpgradedStaysClean`, `UpgradeConverges`, `ToolsVerify`, and `IndexIsLast` for the action property.

### Only model-checked

Liveness: `EveryCallReturns`, `EveryFrameAnswered`, `EveryRequestAnswered`, `EveryCallAnswered`, which is out of the prover's
reach, as is the fairness they rest on. Every invariant, action property and refinement of the passing runs is proved. The three findings are
counterexamples of TLC.

## 6. What is not modelled, and the plan

Left out of the models that exist: the text of SQL and the conversion of parameters and cells
(refused or accepted), the text of requests and replies, headers, search and paging,
advisories and static files (read whole, answered at once), the timeouts of `http.Server` (a request
may always be slow), the rules on the shape of a URL and the headers of a request to a
provider (of which only the idempotency key matters to a property), the ranges of `publicIP` (a host
has a public address or the dial fails), patterns of identities and versions, the texts that the
tools generate, legacy extensions and links in `registryctl verify`, and `audit`, which only prints.

Not modelled at all: the drivers (build-tagged imports), the policy sources (no toolchain or caller in
the repository), the packages themselves, and the workflows, of which `ReleaseTools` has every order of the tools.
What Stripe does with an idempotency key that it has seen, and what a database does when the
connection of a dead process drops, are outside of this code.

All modules of the plan are written, and every safety property of the runs is a theorem. What would be worth adding:

1. `HostServe`: that the process implements `TxHandles` with one caller. Its cancel ends the contexts of a request in one step, where
   `DBHost` ends one at a time, so the proof of `DBHostRefines` does not carry over as it is.
2. `Catalog`: `semverCompare` on the text of versions, and the merging of blocks for more than 20 of them.
3. The parts of a response that clients rely on and no model has: search, paging and the headers of a download.
