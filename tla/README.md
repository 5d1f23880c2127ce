# A TLA+ model of go-connect-template

The repository is the template of a Go service (connect RPC, PostgreSQL,
Redis, a search catalog, fx for wiring). This directory models the parts of it
that are hard to test: what happens between two statements, two goroutines or
two requests, and what is left when something fails half way.

Run a check with `tlc -workers 2 -config MCX.cfg MCX`, a proof with
`tlapm X_proofs.tla`.

## 1. The system

| component | source | state | operations | talks to |
|---|---|---|---|---|
| Transaction boundary | `internal/data/db_postgres.go` | the transaction in a request's context | `ExecTx`, `WithTx`, `Tx`, `DB` | pool handle, pgx |
| Pool handles | `internal/data/live.go`, `live_redis.go` | atomic pointer to the current client | `Swap`, `Pool`, `Exec`, `Query`, `QueryRow` | pgxpool, go-redis |
| Process lifecycle | `cmd/server/main.go`, `internal/server/server.go` | hooks, server, exit status | build, OnStart, serve, OnStop, stop window | everything |
| Constructors | `db_postgres.go`, `cache_redis.go`, `search_catalog.go`, `auth_casdoor.go` | one client each | open, probe, append hook | the servers |
| Resource | `.co/scaffold/resource/*`, `internal/data/models` | one table per resource | Create, Get, List, Update, Delete | transaction boundary |
| Search catalog | `internal/service/search.go`, `internal/biz/search.go`, `internal/data/search*.go` | index and documents on the server | `EnsureIndex`, `IndexProduct`, `Search`, `Reindex` | Elasticsearch or Meilisearch |
| Configuration | `internal/pkg/config`, `internal/conf/v1` | a snapshot, the kit's live value | load, reload | all constructors, go-connect-kit |
| Interceptors, registry, OTel, log | `internal/server/middleware.go`, `internal/pkg/*` | none | projections of the configuration | go-connect-kit |
| Health | `internal/server/health.go` | none | `/healthz`, start-up checks | all clients |
| Money | `internal/pkg/money` | none | pure conversions | resource |
| Object URLs | `internal/pkg/minio.go` | none | one pure function, without a caller | front end |

What makes each of them hard, and what makes it correct:

* **Transaction boundary.** Requests run concurrently on a pool of few
  connections; `fn` may nest `ExecTx`, swallow errors and panic; the context
  may end at any moment, in the queue for a connection, before COMMIT or while
  it is under way; a connection may break. Correct means: all or nothing, an
  answer that does not lie, no connection lost, no request waiting for a
  connection while it holds one.
* **Pool handles.** A swap may come between any two statements. Correct means:
  a call stays with the database it began in.
* **Lifecycle.** Hooks start in the order in which fx built things and stop in
  reverse, under one window of 7 seconds, while requests run and another
  goroutine listens. Correct means: no client leaks from a failed constructor,
  requests keep their clients, a clean exit status means a clean exit, a failed
  start is undone, the process always ends.
* **Resource.** Several requests read and write one table, a page at a time.
  Correct means, for readers: following the cursors shows every row that stays,
  once, and ends. For writers: two live rows never have one code, a deleted
  code is free again, partial updates do not undo each other, one delete is told
  that it hit, a request sees what it wrote.
* **Search catalog.** Check-then-create on a shared index; tasks that outlive
  the request that sent them; partial failure and a second attempt; a product
  renamed field by field on its way in and out. Correct means: `nil` means
  searchable, nobody's write makes the server guess a mapping.
* **Configuration.** Optional sections and unset values, read by nine
  constructors; reloads that most parts do not follow. Correct means: what is
  missing is reported or has a default that works, and a setting that is not in
  effect was warned about.
* **Health.** Three checks in sequence, against a write timeout, while the
  dependencies come and go. Correct means: an answer that is true, and that
  arrives.
* **Money.** A price goes from a float through its text into a NUMERIC, is
  rounded by the column, and comes back in a form the driver chooses. Correct
  means: a price is refused, or whoever reads the row gets it to half a cent.

`PROJECT.json` lists every component with its status and every hazard with its
line and the properties that would notice it.

## 2. Modules

```
AtomicCalls            what a caller of the data layer is promised
  ^ implemented by
Transactions           ExecTx & co. over the swappable pool     MCTransactions
  Transactions_proofs  its invariants, its refinement, why a call returns
Lifecycle              one run of the server process            MCLifecycle
  Lifecycle_proofs     its invariants, why the process ends
Listing                the List call, against writers           MCListing
  Listing_proofs       completeness, no repetition, why a walk ends
ResourceTable          what a caller of a resource is promised about its table
  ^ implemented by
Products               the writes, in transactions              MCProducts
  Products_proofs      its invariants, its action properties, its refinement
  ^ extends
Money                  floats, NUMERIC and cents
  Money_proofs         what the conversions keep of an amount
SearchCatalog          Reindex and Search on both adapters      MCSearchCatalog
  SearchCatalog_proofs its invariants, why Reindex returns
Config                 configuration messages and what is made of them
  ^ extended by
Service                start, reload and health                 MCService
  Service_proofs       its invariants
```

**AtomicCalls.** Three variables per call: what it `asked`, the `effect` others
see, the `reply`. A call asks, takes effect as a whole in one pool, and
answers: "nil" claims the effect, "error" excludes it, "unknown" promises
nothing, and only after "unknown" may the effect still come.

**Transactions.** A call is a request goroutine's `ExecTx` or a lone statement.
`pc[c]` follows the code of `ExecTx` (lines 59-94): `acquire` is `BeginTx`
waiting, `fn` is inside `fn` with `depth[c]` calls of `ExecTx` on the stack,
then `commit` and `sent`, or `rollback`, or `recover` for the deferred
function. `session[c]` is the connection as the server has it. pgx is modelled
by what the code relies on: an SQL error fails the transaction and makes its
COMMIT a ROLLBACK that `Commit` reports; a context that is done stops a
statement from being sent; `Commit` under such a context closes the
connection; `Rollback` under `context.WithoutCancel` does not. `ServerCommits`
and `ServerAborts` are the server's side, and go on after the client gave up
(`limbo`). `Swap` may happen at any time. Not modelled: `runtime.Goexit`
inside `fn`, one transaction used by several goroutines, savepoints (the code
has none).

**Lifecycle.** `built` and `started` count the hooks in fx order (registry,
postgres, redis, catalog, http, main); `client[r]` is absent, open or closed;
`serving` is the goroutine of main.go 150-154; `stopStep` is where the OnStop
of the main hook, or of the pool, is; `expired` says that the 7 seconds are over.
A request holds a postgres connection while it is `querying`. `pool.Close` takes
two steps: from `ClosePool` on nobody gets a connection, at `PoolClosed` the last
one is back. A request is `hurt` when it asks a pool or a redis client that was
closed; the catalog goes on answering after its hook, because its `Close` drops
idle connections and nothing else. fx and net/http are
modelled by what the code relies on: hooks in reverse, the context looked at
before each hook, `Stop` returning when the window is over, `Shutdown` waiting
for HTTP/1 requests and not knowing connections that h2c took over.

**Listing.** `List` (repository, list statement), then an answer with a cursor
(`AnswerMore`) or without (`AnswerLast`), or `PageFails`. `Normalised` is the
use case's default and maximum, on its own copy of the parameters; `Full` is
the handler's test, on the request's value. A row is its created_at, status and
life; `Create` makes rows visible in any order of ids and times, because both
are taken when the transaction takes them and not when it commits. `lasting` is
a history variable: rows in the list ever since the walk began. `Total` is left
out: the code documents that it may disagree with the page.

**Money.** The conversions as operators on an integer and an exponent of ten. A
float64 is NaN or its shortest decimal, which is what `%v` writes for pgx to scan:
with an exponent below 10^-4 and from 10^6 on, which the scan refuses. So the
resource answers "invalid price" to a price of a million, although its column
holds up to 10^10; nothing in the repository says which prices are meant to be
accepted, so the model has what the code does. `Kept` is what a NUMERIC(12, 2) column keeps of a value, `Forms`
the representations in which the driver may return it. `NumericToCents` and
`CentsToNumeric` have no caller in the repository and appear in theorems only.

**ResourceTable.** `rows` is the table as everybody sees it, `change[c][i]` the
columns request c has set in row i, with their values. A `Write` adds to a
change and touches no row; a `Commit` lays the changes over the rows as they are
then, not as the request once read them, and keeps the codes of live rows apart;
a `Rollback` forgets them. Columns nobody set are not written, a deleted row
takes no change.

**Products.** A request runs statements in one transaction: `Create`, `Update`,
`SoftDelete`, `Get`, `GetByCode`, each with the way in which it misses or is
refused (`invalid` is a price that is not converted), then `Commit` or `Rollback`. `rows` is what is committed and `draft[c]`
what request c has written; `Visible` is the query bound to the transaction of
the context. PostgreSQL is at READ COMMITTED: `Locked` and `CodeLocked` make a
statement wait for the request that has the row or the code, and
`StatementFails` also stands for the victim of a deadlock. A statement without
`ExecTx` is a request of one statement. `told`, `ask` and `wrote` are history:
what callers were told and what they asked to be set. The whole-or-nothing
commit is the contract that Transactions is shown to implement. As a
ResourceTable, a request's change is what the calls that succeeded have `Asked`
for: the columns of a create, the optional ones of an update that are set, the
end of a delete.

**SearchCatalog.** The adapter is chosen in `Init`, as it is when a project is
generated. `Create` and `Put` are Elasticsearch requests, `Refresh` its
refresh; `EnqueueCreate` and `EnqueuePut` are Meilisearch requests, `RunCreate`
and `RunPut` its task queue, which also runs the tasks nobody waits for.
`Fails` may happen at every request, after which the caller may start over
(`Again`). `asked[c]` is the index a caller names, or `Unset`, which `IndexName`
replaces by the default. What the Search RPC returns is the composition of
`Document` (which field of the use case goes into which field of the catalog),
`Retrieved`, `Decoded`, `ToBiz` and `ToV1`, so that a field lost or swapped on
the way in or out is seen by DoneIsSearchable. Which documents match a query,
their order and the limit on hits are left out, and so is an index deleted by
an operator.

**Config.** A message is a record of the fields the code reads, seen through the
operator of its name, which is its nil-safe getter; `Nil` has no fields, so code
that reads without the getter cannot be evaluated on it. Below them are the
options each constructor makes of its section, the interceptor list and the
sections a reload is logged about.

**Service.** The constructors in fx order, each `Built` with its options or
`Refuse`d, or, for the server, `crashed`. Afterwards `Reload` publishes another
configuration: every part keeps what it was built with, and `warned` collects
the sections the kit logs. /healthz is `BeginProbe`, three `RunCheck`s in any
order (Go ranges over a map) and `EndProbe`; `spent` counts seconds, and an
answer after the write timeout is `cut`. A check takes at most `CheckLimit`: the 2
seconds of its context for postgres and search; for redis longer, because
go-redis does not end with the context a read, a write or a TLS dial it has begun,
but by the timeouts of its section (`RedisAttempt`). A dependency that is `down` is
one whose check fails, for whatever reason: it does not answer, or the index is
missing. `GoesDown` and `ComesBack` move the dependencies at any time, and
`everDown` and `alwaysDown` remember them for the request under way. Lifecycle has the same start from the side of the hooks.

Operators whose comment begins with "Variant" are plausible mistakes in one
definition; no specification uses them. They serve to show that each property
notices the mistake it is there for.

## 3. Runs

| run | properties | instance | result |
|---|---|---|---|
| transactions | TypeOK, AllOrNothing, AnswerIsTruthful, NoConnectionLeak, CancelKeepsConnections, ImplementsAtomicCalls, EveryCallReturns | 2 calls, 2 pools of 1 connection, 2 operations each: 789 k states | holds |
| lifecycle | OpenClientsAreOwned, HTTP1KeepsItsClients, CleanExitIsClean, FailedStartIsUndone, SignalEndsProcess | 3 requests, each HTTP/1 or h2c: 45 k states | holds |
| lifecycle_window | HooksFinishInWindow | 1 HTTP/1 request, hooks that take no time | violated |
| lifecycle_h2c | NoRequestLosesItsClients | 1 request, hooks that take no time | violated |
| listing | WalkListsEverything, NoRowTwice, WalkEnds | 1 walk, 3 rows, 2 times, 2 statuses, pages of 1 or 2: 220 k states | holds |
| listing_unset_size | WalkListsEverything | page_size unset, default 1 | violated |
| products | TypeOK, UniqueLiveCodes, NoFieldLost, DeleteToldOnce, ReadsOwnWrites, ReadersGetPrices, DeletedCodesAreFree, DeletedForGood, ImplementsResourceTable | 3 requests, 4 statements, 2 rows, 2 codes, 2 names, 5 prices: 49 k states up to symmetry | holds |
| search_catalog | DoneIsSearchable, MappingNeverGuessed, ReindexReturns | 2 callers, 2 products, 2 indexes, 2 attempts each: 641 k states | holds |
| search_catalog_race | EnsureIndexIdempotent | 2 callers, 1 attempt each | violated |
| service | TypeOK, RefusalHasCause, StaleIsWarned, SpansHaveExporter, HealthIsTruthful, UnhealthyIsReported | 19 configurations, 2 reloads, 3 faults, write timeout 23 s: 618 k states | holds |
| service_boot | MissingSectionIsReported | every pair of departures from a complete configuration, both adapters | violated |
| service_health | UnhealthyIsReported | write timeout 5 s, 3 faults | violated |

Why the bounds are enough to be interesting:

* *Transactions.* One connection per pool makes every second request wait, so a
  nested BEGIN would lock both up. Two operations give two statements (one
  succeeds, one fails), a statement and a nested `ExecTx`, or two nested ones.
  Two pools make a swap possible. Calls do not interact except through the
  places of a pool and the handle; the proofs drop all bounds.
* *Lifecycle.* Three requests allow one of each protocol and one that arrives
  on a connection another one left. Every constructor and hook is there. The
  proofs drop the bound on requests.
* *Listing.* Three rows with two timestamps have ties before and across a page
  boundary; pages of one and two rows give one to three pages. Walks do not
  interact. 20 and 200 become 1 and 2. The proofs drop all bounds.
* *Products.* Two requests conflict on a row or a code while a third one looks
  on or takes over what they leave; with four statements a row is created,
  updated twice or deleted, and its code created again. Two rows are the old and
  the new owner of a code. The column ends at 9.99, so that of the five prices
  0.125 and -0.125 are rounded, 10 is too large, a millionth is written with an
  exponent and refused, and NaN is kept. Negative prices and NaN come from updates
  only, where no rule refuses them; the run does not tell a create from an update
  in this, and so checks more. Requests, codes and names are interchangeable, which the
  symmetry uses; no property of the run is a liveness property. The proofs
  drop all bounds.
* *SearchCatalog.* Two callers race on one index and on every document, or work
  on two; two attempts let a task of an abandoned attempt run during the next
  one. The proofs drop all bounds.
* *Service.* Every optional section is left out once, and in service_boot every
  two; each section that is read at start is changed by a reload, and the second
  reload can undo the first. Three faults let all three dependencies hang; one
  that comes back can go down again instead. A check takes 0, 2 or 19 seconds, as
  far as its limit allows, and 60 stands for any longer time: 19 is the longest
  check of redis with the timeouts of the example configuration, TLS, and two
  requests for a PING (`Exchanges`), 23 the longest request, and the write timeout
  of the run. The proofs drop all these bounds.

Fairness. Goroutines run and servers answer: weak fairness of each call's
`Step`, of `Page(w)`, of `Call(c)` and of `Server`. The losses (cancellation,
cut connections, failures), swaps, retries, requests and signals owe nothing.
In Lifecycle the main goroutine, the serving one and the clock (`Expire`) are
weakly fair; a handler need never finish. Products and Service claim no
liveness: a PostgreSQL statement may wait as long as another transaction lasts,
and that every transaction ends is EveryCallReturns of Transactions. Deadlock is
checked for transactions; elsewhere processes end and nothing may be left to do.

`PromptSpec`, used by the two violated lifecycle runs, lets the window end only
while a hook waits for a request, so that their counterexamples do not rest on
slow hooks.

## 4. What the violated runs show

* **lifecycle_window.** main.go 56 says that the window makes every OnStop hook
  finish in time. One context of 7 seconds serves all hooks, and the first one
  may use it up waiting for a single request; fx then skips the others: the
  instance stays registered, the clients stay open.
* **lifecycle_h2c.** The README promises a graceful shutdown. Requests over h2c
  (every gRPC client) are not waited for and find redis and postgres closed.
* **listing_unset_size.** A page without a cursor is meant to be the last. The
  handler compares the number of rows with the request's page_size, the use
  case normalised its own copy: with page_size unset the first page never has a
  cursor, and the rest is never listed. `Completeness` (below) proves that this
  is the only such case.
* **search_catalog_race.** `EnsureIndex` is documented as idempotent; of two
  concurrent calls on a missing index, one returns an error.
* **service_boot.** `server.http` and `server.cors` are optional in the schema,
  and NewHTTPServer reads through them: without them the start ends in a nil
  pointer, where db_postgres.go 121 tests an optional section first.
* **service_health.** The README promises a 503 when a dependency is unhealthy.
  The checks run one after the other, 2 seconds each or, for redis, the 3 of a
  read; when they use their time up, the answer comes after the 5 seconds of
  write_timeout in the example configuration, and net/http does not send it.
  `ProbesAreAnswered` (below) says which write timeout is enough.

## 5. Proofs

TLAPS proves every invariant, every action property and both refinements of the
passing runs, without the bounds of the runs; two of them, WalkListsEverything
and UnhealthyIsReported, under conditions that the violated runs show to be
needed. Each `X_proofs` first states an
inductive invariant `IInv`, then shows with one lemma per action, or per kind of
action, that no step leaves it, and then takes the theorems from it.

**Transactions_proofs**, for any number of calls and pools, any pool size and
any bound on the operations, from `PoolsAssumption` and `BoundsAssumption`:
TypeCorrect, Atomicity, Truthfulness, NoLeak, ConnectionsKept, Refinement
(`Spec => Abstract!AbsSpec`), WaitsEndInWork and CallsApproachTheirEnd. The
invariants of the run are not inductive: that a finished call has no partial
effect depends on what an open session had staged. `IInv` adds, per call, which
sessions and pools go with which location (`Control`), what a session has staged
and the database shows (`Data`), and what an answer says (`Outcome`). The
refinement maps a step to `Ask`, `Apply` or `Answer` by whether it sends, takes
effect or returns; all other steps stutter. WaitsEndInWork says why nested calls
do not lock each other up: a pool is never over its size, and each place of a
pool in whose queue somebody waits belongs to a call that is at work.

**Products_proofs**, for any number of requests, rows, statements, codes, names
and prices, from `RowBounds`, `PriceAssumption` (a price is NaN or a decimal, of
any sign and size), `NaNAssumption`, `MarkersAssumption`, `NoRowAssumption` and
`CodesAssumption` (ids and codes are told apart, as their types do in Go):
TypeCorrect, LiveCodesAreUnique, FieldsAreKept, DeleteIsToldOnce,
OwnWritesAreRead, PricesAreRead and the action properties DeletedRowsStay and
CodesAreFreed. The properties speak of committed rows, but a commit is harmless
only because of what drafts may not do to each other: a row has one writer, and
a deleted one has none (`OneWriter`); the code in a draft belongs to its request,
against drafts and committed rows alike (`CodeOwner`); what a request has set is
what it has drafted (`AskFollows`), and what it was told is what it has deleted
(`TellersFollow`). What readers are told takes a second invariant on top
(`AnswersFollow`), and so does Refinement (`Spec => ImplementsResourceTable`):
`DraftsFollow` says that a draft is the columns asked for, laid over the
committed row, so that a commit maps to `Commit` and every statement to `Write`
or to a stutter. PricesAreRead adds that every price that was asked for passed the
conversion and fits the column (`PricesFit`), and takes the rest from Money_proofs.

**Money_proofs** has three theorems, for every integer and every exponent.
FormsAreNear, on which PricesAreRead rests: every form of what the column keeps of
a number is within half a cent of that number, whatever its sign and its digits.
CentsAreTheAmount: NumericToCents succeeds exactly when the amount is a whole
number of cents that fits, and returns that number. CentsComeBack: what
CentsToNumeric accepts comes back from NumericToCents. `Pow10` is
a recursive function, so that it exists has to be proved before anything can be
said of its values. The induction theorems of the library cannot be used here;
instead the subsets of Nat that are finite are well founded, which gives
induction over a set (`Induction`), and with it tables of every length that agree
with each other.

**Listing_proofs** proves NoRepeats for any table, any number of walks and any
page size, and Completeness if no client leaves page_size unset, from
`SizesAssumption` (what the validation interceptor lets through). The invariant
says that the cursor cuts the list in two: nothing shown lies beyond it, and
every lasting row not shown does (`Cut`); that a page under way is the next
stretch of the list (`Stretch`); and that a walk that ended had nothing left
(`AtEnd`). The order's transitivity and asymmetry are lemmas of their own.

**Lifecycle_proofs**, for any number of requests: TypeCorrect, ClientsAreOwned,
HTTP1IsSafe, CleanExit, RefusedStartIsUndone and ProcessAdvances. A property
such as "a request keeps its clients" depends on the order of hooks that have
not run yet; `IInv` ties each client's state to how far building, starting and
stopping have come (`ClientsFollow`), says that no HTTP/1 request is left once
the server has been drained, and what each way out of the process leaves behind
(`EndsFollow`).

**SearchCatalog_proofs**, for any callers, products, indexes and tries:
TypeCorrect, MappingsAreGiven, ReindexedIsSearchable and ReindexAdvances. The
difficulty is the task an abandoned attempt leaves in the queue. The invariant
says that a caller is answered only about the one task of its current attempt
(`OneTask`, `Awaited`), that whoever puts a document, now or by a late task, puts
it into an index that was created with its mapping (`IndexFollows`), and that
whatever the attempt has finished with is visible to searches (`PutsFollow`).
`FieldsArrive` is the lemma that a product comes through all projections
unchanged.

**Service_proofs**, for any set of projects and reloads, any number of reloads
and of faults: TypeCorrect, RefusalsHaveCauses, StalePartsAreWarned,
SpansAreExported, HealthIsTold and ProbesAreAnswered.
`SectionsAssumption` says that a Bootstrap message has the fields of its schema;
`DurationsAssumption` that durations are numbers, and those of redis not negative,
for which the schema has a rule. The invariant says that every part runs with what the snapshot of the start says,
whatever was reloaded since (`FromSnapshot`), that what was not warned about is as
it was then (`UnwarnedIsFresh`), and what an unfinished health request has seen
and how long it took: at most the limits of the checks that have run
(`Checking`). ProbesAreAnswered assumes of each write timeout that it is unset or
at least the sum of the three limits (`ChecksFit`), where that of redis depends on
its section and on `Exchanges`, the requests go-redis sends for one PING.

Where a violated run shows a promise broken, a theorem says where it ends:

| run | theorem | the promise holds |
|---|---|---|
| lifecycle_h2c | WithoutH2CNoneIsHurt | if no client speaks h2c |
| lifecycle_window | IdleStopsInTime | as long as no request has come (of `PromptSpec`) |
| listing_unset_size | Completeness | if no client leaves page_size unset |
| search_catalog_race | ApartIsIdempotent | for callers on different indexes that, on Meilisearch, try once |
| service_boot | OnlyServerCrashes | if `server.http` and `server.cors` are there; no other constructor ever crashes |
| service_health | ProbesAreAnswered | if write timeouts are unset or leave time for the three longest checks, that of redis by its own timeouts |

In ApartIsIdempotent, Elasticsearch applies a create when it comes and never
late; one that arrives after its caller gave up could refuse the next try.

Only model-checked: the four liveness properties, which are beyond the prover.
What they rest on is proved instead, a number that each step of the process in
question lowers and no step of anybody raises:

| property | measure | what is left to fairness |
|---|---|---|
| EveryCallReturns | CallsApproachTheirEnd: at most 7 + 2 MaxOps steps of a call | that a call at work goes on, and that who waits gets a place (WaitsEndInWork) |
| SignalEndsProcess | ProcessAdvances: at most 48 steps of the process; an undoing never waits for a request | that goroutines run and the window ends |
| WalkEnds | WalksAdvance: with each page that has a cursor, fewer rows lie beyond it | that a client asks for the next page |
| ReindexReturns | ReindexAdvances: at most 4 steps and 2 for each product; whoever waits for Meilisearch has a task in its queue, and it moves up | that servers answer and goroutines run |

## 6. Plan

1. *Client reload*: what Swap, the captured OnStop hooks and `drainTimeout`
   have to do with each other, once the repository has a caller of Swap.
2. *Versions in the catalog*: an order between Reindex calls with different
   versions of a product, once documents carry one.
3. Proofs: the detailed Products over a table whose statements are the calls of
   Transactions, so that its whole-or-nothing commit is a consequence and not an
   assumption; a contract for SearchCatalog (what a search may show after which
   answers) with its refinement.

## 7. Assumed and not modelled

Assumed: PostgreSQL at READ COMMITTED; Elasticsearch and Meilisearch as their
clients document them; go-connect-kit loads and validates a configuration,
publishes reloads and logs the sections it was told of; validation keeps
page_size within 0..200; net/http does not deliver what is written after the
write timeout. The table of `internal/data/migrations/00001_products.sql` has
other columns than the queries of `internal/data/queries/products.sql`; the
model follows the queries and `schema.sql.tmpl`.

A reload that changes `data` or `auth` is followed by no part of the service, and
these sections are not among those a reload is logged about; nothing in the
repository promises either, so StaleIsWarned speaks of the sections README 198
names, and of the parts that follow from them: registry, telemetry, interceptors
and catalog. The HTTP server keeps its settings too, and a change of `server` is
logged, but no property says so.

Not modelled, because it keeps no state or none that this code changes: the
generated connect and protobuf code apart from the getters of the
configuration, the links to stored objects (`FormatObjectURL` is a pure function
without a caller, and which names end in one link is decided by how url.JoinPath
cleans and escapes a path), the request log of Elasticsearch, names of
environment variables, deployment files, co-cli's trimming markers. Of what is
modelled, these details are left out: which documents a query matches and how
many of them a server returns; infinite prices, which are refused like those
with an exponent; the handshakes behind TLS options; `Total` of a list.
`LiveRedis` has the shape of `PgPool` and no caller.
