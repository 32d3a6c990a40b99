# A TLA+ model of Memory-CL

Memory-CL keeps a *memory* of source repositories: their units (functions,
classes, modules, sections of documents) in a table, a graph of who calls,
imports and inherits what, and one vector per unit for semantic search. Agents
query it over MCP and HTTP; people administer it in a browser or with `memcl`.
This directory models how a repository gets into the stores and is kept at the tip
of its branch, what is read back from them, who may do so, and the services in
between, under interleaved requests, failing calls, cancellations and crashes.

Paths below are relative to the repository.

## 1. Inventory

The service is one asyncio process (`apps/api`). Between two `await`s nothing
else runs; at every `await` anything may. The stores are external databases, or
SQLite files in the lite tier (`storage/lite`), and survive the process. Tasks,
locks and caches do not.

| Component | State | Operations | Hard behaviour | What makes it correct |
|---|---|---|---|---|
| Ingestion pipeline, `core/ingestion` | three stores, the metrics of a run | `run`: walk and parse, then per file list, wipe, upsert units, nodes, points, embed; edges last | no lock and no transaction over a run; each store call may fail; runs of one repository may overlap; crash between two calls | the stores end at the tree that was walked; no dangling edge but one SQLite's look-up lets through; vectors of unchanged units survive |
| Parsers and graph builder, `core/parsing`, `graph_builder.py` | none | tree to units, calls, bases, imports; names made unique; edges and External nodes | names that collide, nested and anonymous declarations, code fences | names are keys; the builder rejects no file; nesting in names is nesting in lines |
| Stores, `storage/lite`, `storage/*_repo.py` | unit rows, nodes, edges, points | upserts, deletes per file, lookups, searches | lite reads before the transaction that writes, Neo4j runs statement by statement; edges need both ends; point upsert replaces the whole point | both tiers keep one contract |
| Reembed and embedders, `routers/ingest.py`, `core/embeddings` | the in-flight slot, the units read, the lazy model | list units, embed in batches, retry | stale lists, failing batches, units with nothing to embed, answers in any order, cancellation in a model load | every vector belongs to its text |
| Managed repositories, `apps/api/freshness/managed.py`, `git.py` | the clone, the registry row | add, sync (ls-remote, fetch, reset, ingest, mark) | pushes between any two git calls, timeouts, failures after the row was written | the recorded sha is what the memory holds |
| Poller, webhooks, freshness endpoints, registry | the per-repository lock, the row as read | passes, background syncs, add, toggle, force sync, remove | row read before the lock and used after it; endpoints that take no lock, `POST /ingest` of a managed id among them; late marks | the loops exclude each other; the memory converges to the tip; decisions of the user stay |
| Watcher, `watcher.py` | batches of changed paths | reingest a local repository | sha read before the lock, tree walked after it; nested roots; deletions; death in mid run; safe mode | changes that are not dropped are ingested; a recorded sha is not newer than the memory |
| Embedding mode, `embedding_runtime.py`, `routers/config.py` | stored mode, snapshot, sizes of collections | switch, recreate, re-embed all | races with ingests and reembeds; stops half way | collection, vectors and embedder agree on the size |
| Keys, tokens, providers, `config_runtime.py`, `token_cache.py`, `oauth_registry.py` | three tables, each with a copy in memory | generate, rotate, issue, revoke, enable | write, reread and swap are separate; cancellation between them | a copy out of step comes back into step; the two MCP gates agree |
| Onboarding, `apps/cli`, `sdk`, `ui` | the configuration file, the page | setup, key and config commands, wizard | the key is minted by one step and saved by the next; the header of a command is older than the key | the key in force is never lost |
| Accounts, `routers/auth.py`, `oauth.py`, `orgs.py` | users, memberships, sessions, invitations, session cache | register, login, invite, accept, roles | check then act over several awaits | one founding owner, an invitation used once, a live session accepted |
| Repository access, `repo_access.py`, `team_repo.py`, `repo_grant_repo.py` | teams, members, grants | team and grant administration, access map | the map is read in three steps, writes follow old checks | access is grounded in a grant or role of that organisation |
| Policy, tenants, audit, `core/governance`, `infra/audit` | owners of repositories, hash chain, sink | decide, record, replay | the sink is written outside the lock | no cross-tenant grant; the log is complete |
| Retrieval, ranking, context, `core/retrieval`, `core/ranking`, `core/context` | the candidates of a request | three channels, graph search, fusion, packing | channels and neighbour queries fail one by one | true distances; a failure never raises a score; a packed budget |
| Compression, `core/compression` | records, summaries | encode, summarise, chunk | single units fail | the summaries agree |
| MCP tools, `core/mcp` | none | find, search, read, explore, stitch | limits and truncation | answers are what the table and the graph hold |
| Lifecycle, `core/lifecycle`, `core/analytics` | counters, status per entity | score, decay, plan | reads of a scan torn by accesses; two scans interleave | a status follows from what was read |
| Batching, scheduler, pool, limiter, cache, `core/performance`, `infra/distributed`, `core/scaling` | buffer, futures, heap, semaphore, bucket, entries | submit, flush, drain, retry, get, put | cancellation in a flush, retries, expiry, clocks that go back | every submitter answered; priorities kept; no burst; no stale entry |

An HTTP request, the poller, a webhook and the watcher all end in `run_ingest`,
the only writer of units and edges; reembed and the mode switch write points too.
The registry row is shared by the loops and the endpoints, the clone by every sync
and add of the repository, the stores by everybody. The lock of `locks.py` is taken
by the poller, the watcher and the webhooks only. Every gate reads a copy in memory
of a table that the configuration endpoints write.

`PROJECT.json` lists every component with what is left out of it; `hazards` there
lists where the code is exposed, line by line.

## 2. Modules

| Module | Models |
|---|---|
| `Ingestion` | one repository, its three stores, any number of runs and one reembed |
| `EmbeddingMode` | the stored mode, its snapshot and the collections of several repositories, on both tiers |
| `ManagedFreshness` | one managed repository: branch tip, clone, a checkout of a caller's own, registry row, lock, workers |
| `LocalFreshness` | local repositories, nested or not: edits and deletions, watcher, `POST /ingest`, boot and health gate |
| `Accounts` | users, memberships, invitations, sessions, session cache, handlers cut at every await |
| `Onboarding` | the first key: setup, key and config commands, the file, the wizard |
| `Credentials` | runtime configuration, tokens, providers and their copies; the gates |
| `RepoAccess` | teams, grants, registration, the access map |
| `Governance` | tenants, policies, decisions, hash chain and sink |
| `Parsers`, `Documents`, `UnitGraph` | eight extractors over syntax trees; markdown; edges and External nodes |
| `UnitNames` | the names of a file's sections and units, and the classes of its members |
| `GraphStores`, `GraphContract` | the graph repositories of both tiers, their reads; what they promise |
| `UnitTable` | the unit table, its searches, and the tools on it |
| `Retrieval`, `Compression` | one request of each |
| `Embedders` | the remote and the local embedder |
| `Batching`, `WorkPool`, `RateLimiter`, `RetrievalCache`, `Lifecycle` | one component each |
| `Answers` | `Embedders`, `RetrievalCache` and `RateLimiter` together: what they answer |
| `Ordering`, `Nothing` | sorting and filtering by position; the constant `None` |
| `MCIngestion`, `MCManagedFreshness`, `MCEmbeddingMode`, `MCAccounts` | instances for TLC |
| `MCServices`, `MCKnowledge` | instances of several components, one at a time |
| `IngestionProofs`, `ManagedFreshnessProofs`, `EmbeddingModeProofs`, `AccountsProofs`, `OnboardingProofs` | theorems about the module each is named after |
| `KnowledgeProofs` | theorems about `GraphStores`, `UnitTable`, `Credentials`, `Retrieval`, `Compression` and `UnitNames` |
| `ServicesProofs` | theorems about `RepoAccess`, `Governance`, `WorkPool`, `Answers`, `LocalFreshness` and `Lifecycle` |
| `OrderingProofs` | lemmas for both: `Ordering`, lists of sets, induction over sets and intervals |

`MCServices` and `MCKnowledge` hold components that share no state: `part` is
chosen in the initial state, that component moves and the others stay where they
begin. `MCAccounts` does the same with `Accounts` and `Onboarding`. This joins
small state spaces in one run and composes nothing. The components with theorems
are extended there, so that TLC evaluates their assumptions on the instance; the
others are instantiated.

Real composition is by what one level promises the next.
`ManagedFreshness` and `LocalFreshness` treat a whole run of `run_ingest` as a
stretch that ends with the memory at the tree it walked; `CleanRunMirrors` of
`Ingestion`, proved as `RunRepairs`, justifies that for a run nobody overlapped.
When runs do overlap the memory is `Torn`, and nothing is assumed of it. `GraphStores`
implements `GraphContract` (`KeepsContract`, an `INSTANCE` with a refinement
mapping, proved as `StoresKeepContract`); `Ingestion` takes the store calls of a run in the
same steps. `Onboarding` treats a
configuration request as one step; `Credentials` cuts it.

### Ingestion

State: `rows`, `nodes`, `externals`, `edges`, `points` are the stores, of the `Tier`
the instance has; the other variables are the locals of the requests under way, named
after the code (`existing` is `existing_sha`, `collected` is `collected_edges`, `failed`
is `failed_files`). `doomed` and `landing` are what SQLite's graph repository has read
in a call it has not finished. `raced`, `overlapped` and `disturbed` are history
variables read by properties only.

Actions: `Start` is the walk and the parse of the whole tree, which the code does
without an `await`. Then, per file in walk order, one action per store call of
`_ingest_file`: `ListUnits`, `DeleteUnits`, `DeleteGraph`, `DeletePoints` (only if
units disappeared), `UpsertUnits`, `UpsertNodes`, `UpsertPlaceholders`,
`EmbedUnits`. `FileFails` is the `except` of the file loop, at any of those calls;
`EmbedFails` the swallowed embedding error; the final pass is `MergeEdges` until
`EdgesDone`, or `EdgePassFails`; `Return` the end of the request. `Crash` drops every
request and keeps the stores. The reembed is `ReembedStart` to `ReembedEnd`, with
batches of any size.

A call is one step where its store commits one statement or one transaction that reads
nothing first. The graph calls differ by tier. Neo4j merges the edges kind by kind, one
statement each, which matches the ends and merges at once (`MergeEdges`), and deletes
a file's subgraph in one (`DeleteGraph`). SQLite begins its transaction with the first
statement that writes, so what `upsert_edges` and `delete_subgraph_for_file` read comes
before it, and another connection may commit in between: `LookEdges` and `InsertEdges`,
`LookGraph` and `WipeGraph`. Other calls of several items (`upsert_units` and
`upsert_nodes` of the server tier) are one step here; `GraphStores` takes the nodes one
statement at a time.

A text that `Chunker` makes no chunk of, such as an empty `__init__.py`, is given a
payload-only point: `VectorOf` is `NoVector` for the shas in `Blank`.

What is abstracted:

- A unit's *version* is its text and position, its *sha* the text. What a text calls,
  imports or inherits is the constant `Calls`. That is all the properties tell apart.
- File, repository and structural nodes and edges are left out: they follow from the
  units of one file and are written and deleted with them.
- `ensure_collection`, the dimension and the check of the path come before the run
  and write nothing the module has.
- A file with no unit left in the tree (deleted or renamed) is never visited by a
  run, so its rows stay; so do External nodes, and edges of a text that changed
  while its file kept its units. Properties speak of the files a run parsed and of
  edges that must be there, and claim nothing of these leftovers.

### ManagedFreshness

State: `remote` is the tip at the git host; `clone` and `fetched` the working tree
and `FETCH_HEAD` of two directories, the clone in the managed workspace and a checkout
of a caller's own; `row` the registry row (`last_commit_sha`, `watch_enabled`,
`source_type`, `repo_path`); `index` the memory, as the commit it mirrors, whether all
of it, and whether rows are left of files that commit does not have; `lock` the holder
of the repository's lock; `pc`, `seen`, `dir`, `target`, `tree` the locals of each
worker. `past` and `suspect` are history variables.

Actions: `Push` and `Toggle` come from outside. A poll pass (`PollPass`), a
delivery (`Webhook`), a forced sync (`ForceSync`) and an add (`AddManaged`) enter
through their own action, the first two by way of `Acquire`. They share the steps
of `sync_managed_repo` and `add_managed_repo`: `Check` or `CheckUnchanged`,
`Clone`, or `Fetch` and `Reset`, then `Head`, `Register` (adds only), `Walk`,
`Written`, `Mark`; `Fail` at any of them. `POST /ingest` under the repository's id
(`IngestRepo`) names a directory and a sha itself, takes no lock, and shares `Walk` and
`Written`; it ends in `UpsertLocal`, whose conflict clause sets sha and path and keeps
the source and the pause, and whose insert makes a local row. A forced sync of a local
row reingests its directory under the sha of the row (`ForceSyncLocal`). A removal is
`RemoveClone`, `RemoveRow` or `RemoveRowFails`. `Crash` clears tasks and the lock.

What is abstracted:

- Timestamps, `last_error` and `mark_change`: nothing in the engine reads them back.
- One repository: the poller handles them one after the other, and the clone, the
  row and the lock are each repository's own.
- Safe mode, which makes poll passes empty. Liveness assumes it off.
- `Walk` may see a torn tree only while another worker's `git reset` runs: the walk
  and `rmtree` are synchronous, so nothing in the process interleaves with them.
- A run never raises once it writes: failures of files, embeddings and edges are
  caught inside and reported. `Written` may therefore return with part of the tree
  missing (`whole = FALSE`), or with rows left of files the new tree lacks
  (`left = TRUE`).
- The sha a caller states is one the tip has been at. A caller leaves its own
  checkout alone while somebody works there. A `POST` of another directory points a
  managed row at it, and later syncs fetch and reset that checkout: the model has this
  (`dir` is read from the row), as the code does.

### EmbeddingMode

`cfg` is the row of `app_config`, `snap` the snapshot `RuntimeConfig` reads;
`unit`, `point` and `size` are each repository's one unit, its point and the size
of its collection. Texts in `Blank` have nothing to embed: their points have the
payload only, and count as embedded. A request is a record of the calls it still has to make, so that
every `await` is a step: the switch stores the mode, rereads, and reindexes one
repository after the other; ingests and reembeds take their embedder from the
snapshot at one step and write at another. The lite tier takes any vector, the
server tier rejects one of another size and recreates in two calls.

### LocalFreshness

`disk` counts the edits of each file, `deleted` holds those that are gone, `head` is what
`git rev-parse` answers, `row` the registry, `memory` what was ingested, or `None` where
the rows of a file were wiped and not written again. The watcher's batch, the innermost
watched root, the sha read before the walk and the failures of each step are steps
of their own; `POST /ingest` and the forced sync run beside it without a lock. A run
commits call by call: a file that fails keeps its rows or loses them, and a crash in the
middle of a run leaves each file as it was, as a dying run had read it, or without rows.
A run visits the files it finds, so a deleted file keeps its rows.
`missed` holds the files whose last change nothing will bring to the memory: dropped
in safe mode, of a paused or unregistered root, lost with the process or with a run
that failed, or taken by a nested root. The health gate's stages decide at boot whether safe mode is on.

### Accounts, RepoAccess, Credentials, Onboarding

All four give a request what FastAPI's dependencies resolved at its arrival and
then run its handler call by call. `Accounts` has one list of calls per handler
(`todo`), and a failure leaves what was written. `RepoAccess` has the three reads of
the access map in a row and administrators whose checks are old when they write.
`Credentials` has, for each of three tables, the write, the reread and the swap, and
requests that may be cancelled between any two. `Onboarding` has a request as one
step and its clients in detail: a command reads the file once, fixes its header,
and works through its calls; the browser sends the key of the UI's environment.

### Parsers, Documents, UnitNames, UnitGraph

A syntax tree is a record of what the extractors ask a node; each language is a
record of tables and small operators over it (`Parsers`), so that the shared walk is
one definition. tree-sitter, libcst and the file system are external. `UnitGraph`
parses a tree of files, tells apart the names of each, and builds its graph, which the
builder rejects as a whole when an edge breaks its rules. `Documents` has lines as
records of what they are to the scanner: fence, heading, links. `UnitNames` has no
recursive operator, so that theorems can be about it: fresh names for sections, and
`_resolve_qname_collisions` of the pipeline.

### GraphStores and GraphContract

On the server a call is a list of statements, one per item or per kind of edge, between
which other sessions' statements come and the process may die. On the lite tier nodes are
written in one transaction; edges and deletions are looked up in one step (`Resolved`,
`Look`) and written in the next (`InsertEdges`, `WipeNodes`). `GraphContract` has nodes
and edges, what writers have found and still write (`linked`, `doomed`), and the edges
among them that a deletion overtook (`raced`); the refinement maps the first two to what
the sessions hold. The reads of the
explore tools, which ask each tier with another query, are operators compared with
a definition over the whole graph.

### The services

`Batching` keeps the engine's lock, timer task and futures apart, because
cancellation meets them apart. `WorkPool` has the heap, the drain and the semaphore
with its waiters. `Governance` has threads, not tasks: the lock covers the chain, and
the sink is written after it. `Lifecycle` reads usage and feedback of each entity in
separate steps. `Embedders`, `RateLimiter` and `RetrievalCache` are driven by callers that
may do anything, times that go back included.

Where the code sorts or filters a list, the module says which element stands at each
position (`Ordered`, `Picked` of `Ordering`: the element at position n is the one that
n - 1 others come before). These are definitions by counting, without recursion, so that
the proofs can use them; for a strict total order they are the sorted list, which
`OrderingProofs` shows first.

### Retrieval and Compression

A retrieval is one request over a world of units, vectors, text and edges: the channels
of its plan in any order, each of which may raise; then fusion, scores and the packet.
`GraphStep` is one round of the search's loop, where the neighbour query of a node
may fail and leave it without neighbours. Scores are integers, and what ranks equal is
ordered by the id of the unit, as in the code.

A compression run encodes the units one by one, in order of their ids, any of which may
fail; then one step summarises, cuts and embeds the others. `ModuleQname` is the climb of
`_module_qname_of` through an index by qualified name, in which the last unit of a name
hides the others. The climb is a function of the number of steps, bounded by the number
of units: names nest, so no parent is met twice. A unit has a `name`, which the summary of
the API takes, and the `leaf` of its qualified name, which that of the module takes: a
collision renames the second only.

## 3. Properties and runs

| Run | Instance | Shows |
|---|---|---|
| `ingest_solo` | 2 files, 2 names, 3 versions over 2 shas, links both ways, one request at a time, with embedder, server tier | `TypeOK`, `CleanRunMirrors`, `CleanRunLinks`, `StoresAgree`, `RowsAreOneVersion`, `VectorsKept` |
| `ingest_pair` | 1 file of the lite tier, 3 trees (one unreadable, one with a unit that has nothing to embed), 2 runs at once with embedder; a run without one and a reembed, each alone | `EdgeEndpointsExist`, `ReembedBackfills` |
| `ingest_rerun` (violation) | one file, one run, server tier | `RerunReplays` is false |
| `freshness_all` | 2 commits, 2 moves, 1 failure or crash; forced sync, add, remove, `POST /ingest`, two at once | `FreshClaimHolds`, `PauseSurvives`, `RemovedStaysRemoved` |
| `freshness_loops` | 3 commits, 3 moves, 2 failures or crashes; poller, webhook | `LoopsExclude`, `EventuallyFresh` |
| `freshness_partial` (violation) | poller, 1 move, 1 fault | `MemoryMatchesSource` is false |
| `embedding_mode` | 2 repositories, 2 slots, 3 requests, 1 fault, both tiers | `SwitchServes`, `ReembedServes`, `SizesFollowMode`, `PointsFollowRows`, `ConfigKept` |
| `accounts` | 2 users, 3 sessions, 1 invitation, 3 requests, 2 at a time, 1 fault; and 2 commands and a browser with 4 operations | `FounderOwns`, `InviteOnce`, `SessionUsable`, `OwnerGuarded`, `KeyNotLost` |
| `accounts_owner` (violation) | the same accounts | `OwnerKept` is false |
| `setup` (violation) | 1 command beside a browser, 2 operations | `SetupCompletes` is false |
| `services` | nine components, one at a time | `Settles`, `PriorityKept`, `DecisionsHold`, `AccessGrounded`, `ScansSound`, `LocalFollows`, `AnswersFit` |
| `knowledge` | six components, one at a time | `BuilderAccepts`, `UnitsNest`, `DepthsShortest`, `LossNeverRaises`, `PacketMaximal`, `ReadsExact`, `AnswersHonest`, `SummariesAgree`, `GatesFollow`, `KeepsContract` |

The properties, each stated in its module:

- `EdgeEndpointsExist`: no dangling edge, except on SQLite one whose end was wiped between
  the look-up and the insert.
- `CleanRunMirrors`: a run nobody overlapped leaves units and nodes as the tree it
  parsed, from whatever state earlier failed or overlapping runs left.
- `CleanRunLinks`: and every edge of the tree, forward ones and those a wipe severed.
- `StoresAgree`: without failures and overlap the three stores hold the same units.
- `RowsAreOneVersion`: readers see a file's units empty or as one version, also in
  mid run.
- `VectorsKept`: no vector of an unchanged unit is lost to a placeholder.
- `ReembedBackfills`: after a clean reembed every unit has the point of its text, with its
  vector if there is anything to embed, and with no vector of an older text if not.
- `FreshClaimHolds`: with no work under way, a row that claims the tip is right. It
  can be wrong in four ways only, and the property names them: an add that registered
  and did not finish; overlap through an endpoint that takes no lock; a tip forced back
  over a broken run; a `POST /ingest`, or a forced sync of a local row, that ingests a
  directory under a sha nobody read from it, or dies on the way. Each is needed: without
  it TLC finds a counterexample. Each is over when a worker alone on the repository
  records what it ingested.
- `PauseSurvives`: no late write unpauses a repository. `RemovedStaysRemoved`: no sync
  brings back a removed row, only an add makes a managed one, and a `POST /ingest` that
  was under way inserts a local one at most.
- `LoopsExclude`: the promise of `locks.py`.
- `EventuallyFresh`: once the tip rests and the repository stays watched and cloned,
  row and memory reach the tip for good.
- `SwitchServes`, `ReembedServes`: after a switch or a reembed that nothing disturbed,
  every unit with something to embed is searchable in the active mode, from whatever
  state came before.
  `SizesFollowMode`, `PointsFollowRows`: in between, sizes and texts are right except
  where requests overlapped or failed. `ConfigKept`: row and snapshot hold what was
  last asked for.
- `FounderOwns`: of all who find the instance empty, the first user created becomes
  owner. `InviteOnce`: a second user gets in only by an acceptance that overlaps the
  first or broke off. `SessionUsable`: the cache never lacks a live session.
  `OwnerGuarded`: the endpoints of the guard leave an owner, unless a membership was
  written between count and write.
- `KeyNotLost`: the key the api expects is in the environment, in the file, on a page or
  about to be saved. It can be lost in four ways, which the history names: an answer
  nobody waited for, a command that ends between minting and saving, a page left,
  a file overwritten by a command that had read it earlier. Each is needed.
- `Settles`: every submitter is answered, unless the one that ran its flush was
  cancelled. `PriorityKept`: a task begins before later ones of no higher priority.
- `DecisionsHold`: no two tenants are granted one repository, the first policy with an
  opinion decides, and a replay of the sink has every decision once.
- `AccessGrounded`: what the access map grants, a grant, a team or a role of that
  organisation gives.
- `ScansSound`: only entities whose use the scan could not know are downgraded, a
  second scan finds nothing to decide, and the plans of a scan fit each other.
- `LocalFollows`: what the memory holds of a file is never older than the commit the row
  names, except for files a failed, cut off or overlapping run has torn or wiped; and every
  change that was not dropped arrives. A deletion never does.
- `AnswersFit`: vectors are returned in the place of their texts (`VectorsAligned`),
  the cache serves what was last put and evicts the least recently used
  (`CacheServes`), no stretch of time lets through more than a burst and its
  accrual (`RateBounded`).
- `BuilderAccepts`, `UnitsNest`: names are distinct, no file fails in the builder, and
  nesting of names is nesting of lines. `UnitsNest` also says what the theorems about names
  take from the parsers (`NamesAsParsed`).
- `DepthsShortest`, `LossNeverRaises`, `PacketMaximal`: the graph search has true
  distances; a failed channel costs units or score and never raises one; the packet
  keeps the budget and leaves out nothing it has room for.
- `ReadsExact`: where no edge dangles, the tools' neighbourhoods are those of the whole
  graph. `AnswersHonest`: `find_symbol` returns the first of all matches and says exactly
  when it left some out; `search_code` returns the best of each repository's `top_k`, says
  when the budget of tokens cut them, and does not tell of the cut to `top_k`; queries with
  `_` or `%` on SQLite are left out, see below. `SummariesAgree`: a public name of the API
  is the `name` of a unit its module lists under its `leaf`, and no summary names what
  failed.
- `GatesFollow`: a copy out of step comes back with the next request of its kind that
  is alone, the key last handed out opens the gate, and the two MCP gates agree but for
  an `X-API-Key` of blanks.
- `KeepsContract`: the refinement of `GraphContract`.

Bounds. In `Ingestion` two files suffice for a forward edge, a backward edge and an
unchanged file whose neighbour is wiped; two names for a file that gains and loses
a unit, with a survivor that changes or not; three versions for an edit and a move
without one. Two runs reach every pairwise interleaving; `PairSymmetry` swaps
them, and no property or constant tells them apart. `PairBounds` keeps the reembed, and
a run without embedder, which differs by its points only, from overlapping others;
`OneAtATime` keeps requests apart in `ingest_solo`. Overlap is the subject of `ingest_pair` and of `embedding_mode`. In
`ManagedFreshness` two moves of the tip allow a forced push back, one of the causes in
`FreshClaimHolds`. `AllBounds` has two workers at once and lets the poller rest, whose
steps a forced sync takes too; the poller works in `freshness_loops`. The `VIEW` of that run
leaves out of the memory what none of its guards and properties reads. One failure can hit any step of any
worker. Workers return to `idle` and start again. In the modules of requests two slots give every pairwise
interleaving, the third request observes or repairs what the first two left, and one
fault hits any step. `Accounts` starts from an empty instance and from one with
owners and members signed in. `Batching` has four callers and a size of two: a full
batch, a second, and a timer. `WorkPool` has three tasks of two priorities for one
worker. `LocalFreshness` has a root inside a root. The inputs of `knowledge` are
enumerated: three declarations in every language, documents of four lines, worlds of
four nodes with every failure, two ingest sessions with every order of their
statements. `Max...` constants bound counters, nothing else.

Symmetry permutes commits, users, requests and repositories in runs without liveness.
Deadlock is checked in the runs of `Ingestion` and in `freshness_all`. Elsewhere the
system may be at rest when its bounded requests are over.

Fairness. `ManagedFreshness`, `FairSpec`: `WF(PollPass)`, because the poller's loop
catches everything but cancellation; `WF(Step(w))`, because every git call has a
timeout and store calls return or raise; `SF(Acquire(w))`, because an `asyncio.Lock`
serves waiters in order. `LocalFreshness`: `WF(WatcherStep)`, because the watcher's
loop catches what a batch raises. `Batching`: `WF(TimerFires)` and
`WF(Returns \/ Raises)`, because a sleep ends and `process_batch` is awaited under the
caller's contract to answer or raise. Nothing is assumed of pushes, edits,
deliveries, requests, failures, cancellations or crashes, except that they are finite
in number.

### What the violations show

- `RerunReplays`. A run that stops between `upsert_units` and the vector upsert
  leaves units that a re-run takes for unchanged; no point is written for them. The
  docstring of `IngestionPipeline` says a re-run replays the operations. A reembed
  does repair it (`ReembedBackfills`).
- `MemoryMatchesSource`. A run that reports failed files is marked synced and not
  retried before the tip moves; rows of a file the new tip no longer has stay as well.
- `OwnerKept`. The only owner who accepts a member invitation, or two demotions that
  cross, leave an organization without an owner; `orgs.py` says it guards against that.
- `SetupCompletes`. `memcl setup` makes its client before it has a key; the key it
  mints closes the bootstrap window, so its last calls are refused: the command
  prints an error, exits 1 and leaves the onboarding open. The wizard of the browser
  meets the same refusal unless the user is signed in.

### Divergences met on the way

The models follow the code. Where a comment or document says something else and no run
is about it:

- `managed.py`: an add registers the sha before it ingests; the freshness design says
  the registry is updated after a successful run (a cause in `FreshClaimHolds`).
- `lite/graph_repo.py:5-7`: an edge is written only when both ends exist; the look-up comes
  before the transaction, so a wipe on another connection may leave a dangling edge
  (`raced`).
- `discovery_tool.py:40-60`, `read_tool.py:263-281`: a query's `_` and `%` are escaped with a
  backslash, but the statement has no `ESCAPE` clause, without which SQLite has no escape:
  on the lite tier a name with `_` is not found that way.
- `search_tool.py:41-50, 126-140`: `truncated` tells of the budget of tokens and not of the
  cut to `top_k`.
- `api_summarizer.py:36-41` takes a unit's name and `module_summarizer.py:46,52` the leaf of its
  qualified name: the second of two functions `f` is `f` in one summary and `f#2` in the
  other.
- `ingest.py:229-250`: a `POST` of another directory under a managed id points the row at
  that directory, and later syncs reset that checkout.
- Files deleted from a local repository keep their rows, and so do files a sync deletes,
  until somebody removes the repository.
- `safe_mode.py:3-6`: every mutating route must refuse with 503; `writes_blocked()` and
  `mcp_blocked()` are called by nobody. `lifespan.py:378-381` says "under
  strict_bootstrap", and does not look at the flag. With one optional stage the
  boot is never degraded enough for a warning.
- `token_auth.py:1-2`: the gates "can never diverge"; a blank `X-API-Key` beside a valid
  bearer token is refused by one and accepted by the other. The bootstrap window looks
  only at the key, the MCP gate at tokens too.
- `config.py:438`: "Revoke a named token immediately"; two refreshes that overlap keep
  the token until the next one. Two first generate requests may both pass.
- `app_config_repo.py:80-82`: "race-free for a single logical row"; the merge reads and
  writes in two transactions, so that a crossing write of another field may undo a key
  that was handed out.
- `config.py`, providers: enabling answers 400 after the row was enabled; create and
  update may raise without rebuilding the registry.
- `2026-06-13-onboarding-setup-design.md:60-62`: a rotated key works without a redeploy;
  the UI's middleware sends the key of its environment, and rotate ignores sessions, so
  Regenerate works while the two are equal. `main.py:694`: saving "preserves existing
  base_url / timeout"; it writes back the flags of the command and drops `ssh_user`. A
  key in the environment outranks the rotated one in the file.
- `audit_sink.py:24`: "appends in order"; the sink is written outside the chain's lock, and a
  replay chains the lines anew in the order of the file.
- `memory_compactor.py` and `graph_compactor.py:3-7` promise edges that survive a merge;
  edges to merged nodes do not all. The orphan flag is always false. `last_access`
  may go back when accesses are recorded out of order.
- The watcher does not compare at boot, does not retry a failed batch, and refreshes
  only the innermost of nested roots. A forced sync may write back an older sha.
- Neo4j's neighbours of depth two and more return the start of a cycle, SQLite's do
  not; `ILIKE` folds all letters, SQLite's `LIKE` those of ASCII. An External node
  keeps the repository of its last writer.
- A policy of `restrict_mcp_tool` that allows ends the evaluation before retention is
  asked. The limiter's `retry_after` is finite for a cost above the burst. An answer of
  OpenAI that repeats an index passes the check of its length.
- `retrieve.py:63`: failures are "recorded in `failed_channels`"; a neighbour query that
  fails is swallowed inside the graph channel, and only logged.

## 4. Proofs

TLAPS proves 47 theorems, for every value of the constants that satisfies the
assumption of the module: any files, units, trees, commits, users, invitations,
sessions, repositories, tokens, providers, terminals, and any number of runs,
requests and failures. TLC evaluates every assumption in the runs of its module.
What they ask is little:

- `ConstantsAssumption`: every version has a sha, the walk has an order (every
  nonempty set of files has a first one), special values differ from the real ones.
- `FreshnessAssumption`: workers of different kinds differ, bounds are numbers.
- `EmbeddingAssumption`, `AccountsAssumption`, `CredentialsAssumption`,
  `OnboardingAssumption`: the value that stands for "none" differs from those it
  stands beside, bounds are numbers, and there are finitely many users (the guard of
  the last owner counts).
- `AccessAssumption`: the levels of a grant are among read, write and admin.
- `GovernanceAssumption`: priorities and ranks of policies are integers, a name stands
  for one policy (ranks stand for the alphabetical order of the names, the last key of
  the sort), requests name known repositories.
- `PoolAssumption`: finitely many tasks, integer priorities; `CacheAssumption`: finitely
  many keys, a size and a time to live that are numbers; `RateAssumption`: rate, burst
  and costs are numbers; `EmbedAssumption`: a batch has at least one text, as the
  settings demand.
- `LocalAssumption`: the repositories are a list, and no slot is the value that stands
  for the watcher.
- `LifecycleAssumption`: finitely many entities, at least one (over none a scan decides
  nothing), finite graphs; saturations and thresholds are numbers, and the value that
  stands for "never" is none.
- `RetrievalAssumption`: every store has finitely many nodes, units and hits; ids are integers
  (in the alphabetical order of the ids, the last key of every sort); sizes of texts, the
  budget and the depth limit are numbers.
- `CompressionAssumption`: finitely many units, each with an id of its own and a number of
  characters; the overlap is smaller than a chunk, as `ChunkingStrategy` demands.
- `TableAssumption`: a file's ingest writes finitely many rows; ids, repositories and ranks of
  names are integers that stand for strings in their order, no two names have one rank;
  lines count from one, as the schema of a unit demands.
- `StoresAssumption`: calls carry nodes and edges, and two nodes of one id have the
  same property names: the builder fills the same fields in every node of a sort
  (file, unit, External), and the id tells the sort. `_node_props` leaves out what is
  null, so without this Neo4j's `SET n += $props` could mix two records. The builder draws
  edges from files and units, never from an External node. The schemas bound the depth of
  a tool by 5, below the limit of the stores.

### Ingestion

- `TypeCorrect`: `Spec => []TypeInv`, which is `TypeOK /\ Progress /\ DoomedHere`. `TypeOK` is not inductive alone:
  a step works on `File(r)`, a `CHOOSE` over the files left. `Progress` says what
  each stage relies on: the files left are parsed ones, a file stage has one at
  hand, and none is left at `idle` and `returned`. `DoomedHere`: the nodes a wipe has read
  are of its file.
- `NoDanglingEdges`: from `TypeCorrect` and `EdgeInv`: an edge that is stored, or that a run
  has looked up and not yet inserted, has both its ends or was raced. A wipe takes the
  incident edges with the nodes and races those in flight, a merge keeps nodes, a
  look-up finds only edges whose ends are there.
- `RunRepairs` (`CleanRunMirrors`). `MirrorInv` says that a run not overlapped so far
  is the only request, has mirrored every file it is done with and did not give up on,
  and has brought the current file as far as its stage says: empty rows between wipe
  and upsert, no foreign row before the upsert, rows mirrored after it, nodes mirrored
  after the merge. Histories enter only through `overlapped`, which any arrival sets
  on both sides.
- `RunLinks` (`CleanRunLinks`). `CollectInv`: what a run collected contains the edges
  its parse gives every file it is done with, and their External nodes are stored.
  `LinkInv`: in the final pass each of these is still collected, in flight or stored
  (`Handed`). With `MirrorInv` both ends of each of these edges are nodes when the final pass
  merges them, so the merge drops none.
- `TableShowsOneVersion` (`RowsAreOneVersion`), under the hypothesis `[]OneRun`: no run
  starts while another works, which is how the run that checks it is set up. Without
  it the statement is false, since two overlapping runs interleave their rows.
  `VersionInv`: after the wipe the file has no row, and before the upsert none that
  the tree does not have, so one upsert takes the file from a version, or nothing, to
  a version.
- `CalmStoresAgree` (`StoresAgree`). `CalmInv`: while nothing failed, overlapped or was
  killed, the stores agree on every file no run is in the middle of, and on the
  current one as far as its stage says. A lemma per action.
- `UnchangedKeepVectors` (`VectorsKept`, an action property), from `CalmInv`: a
  placeholder is written only for a unit that `upsert_units` reported as changed; and from
  `PointsOwn`: a point has no vector or that of its text.
- `BackfillComplete` (`ReembedBackfills`). `BackfillInv`: a unit is still in the backlog
  as the table has it, or has the point of its text.

### Managed repositories

- `LockExcludes` (`LoopsExclude`). `SectionInv`: whoever is in the section and is a
  locker holds the lock, only lockers wait for it, and the holder is a locker. The
  endpoints run through the same steps without the lock, so the proof must show that
  none of them gives a lock back that it does not hold.
- `FreshnessTyped`, and `FreshClaims` (`FreshClaimHolds`). `OverlapInv`: unless the
  history says that an unlocked request crossed, at most one worker is past its
  entry. `ClaimInv`: while none of the four causes is remembered, what a worker carries is what
  it will need (the tree it walked is its target, the sha it marks is in the memory, every sha remembered was a tip),
  and while the row claims the tip, the clone it resets and the target it walks are
  the tip.
- `PausesSurvive`, `RemovedStays`: both action properties, step by step from the types.

### Embedding mode

`ModeInvariant` is one invariant for five properties. Its parts: how far the one
configuration write has come (`ConfigInv`); a request nothing overlapped is the only
one (`LoneInv`); at most one request touches an unspoiled repository (`ApartInv`); a
repository on a reindex's list has a unit, and one without has no collection
(`UnitInv`); the text a request carries is that of the row (`TextInv`); a collection
has the active size or is still on a reindex's list (`SizeInv`); what an undisturbed
switch or reembed has finished, a text with nothing to embed by its payload (`ServeInv`). From it: `SwitchesServe`, `ReembedsServe`,
`SizesFollow`, `PointsFollow`, `ConfigStays`, for both tiers.

### Accounts

`AccountsInvariant`, again one for all: what a request may rely on, by the list of
calls it has left (`CallInv`: its user is in the table, its role is the one the
first user needs); an invitation that no two acceptances share has let nobody in
before its one acceptance writes (`InviteInv`); a request about to take an owner role
away has seen another owner, who is still there unless somebody crossed
(`OwnerInv`); and what a cookie rests on. From it: `FirstUserOwns`, `InvitesLetInOne`,
`CookiesWork`, and the action property `GuardsLeaveAnOwner`. The lists of calls are
named and opened in three lemmas about heads and tails only.

### Keys

- `CredentialsInvariant` and `GatesAlwaysFollow` (`GatesFollow`). A request that has a
  copy for itself finds what it read and wrote still in the table (`RequestsInv`); of
  two requests on one copy neither believes to be alone (`AloneInv`); a copy is out
  of step only if the history says so or a request on it has written and not swapped
  (`CopyInv`); the key handed out last is in force until the next one is written, also
  across a merge of another secret that read the row before (`HandedInv`).
- `OnboardingInvariant` and `KeysStay` (`KeyNotLost`). The property is not inductive: a
  command about to save may save something old over the key. `SavesNothingOld`: one
  that nobody overtook saves the key, or the file as it is. It needs the order of the
  calls of every command (`PlanSteps`: a save comes right after the mint, or first).

### Access

`AccessInvariant` and `AccessIsGrounded` (`AccessGrounded`). A grant row is written by an
upsert that keeps the organisation of the row it meets and takes the new level, so a
late write of a checked request may join two gifts in one row. `RowsGiven` says exactly
that much: behind every row are a gift of its organisation and a gift of its level. It
is enough: the property asks for a gift of the member's organisation and for one
of the level he has.

### Graph stores

`StoresKeepContract`: `Spec => KeepsContract`, the refinement. `StoresInv` holds initially and
is kept, and under it each statement of either tier is a step of the contract or a stutter.
`NodesWhole`: a stored node is one written record. `StatementsInv`: a session has statements
left that callers may have written, or on the lite tier one insert or wipe of what it has
looked up. `RacedKept`: a raced edge is stored or in flight. `StoredNodesWhole` and `NoDanglingUnlessRaced` follow, the latter
through the contract: an edge of `GraphContract` that dangles is raced, and nothing is raced
where no look-up comes before a write.

`ReadsAlwaysExact` (`ReadsExact`), where no edge dangles, needs `StoredBounded`: finitely many
nodes, edges from callers. Both tiers find what is around the seed (`NeighborsAround`).
SQLite's levels are that set by induction over the depth. Neo4j's trails use no relation
twice, which loses no node: a node a level is the first to have ends a trail of that
length whose relations all lie within the level (`TrailsReach`), so the one that goes on
to the next level is not among them. The tool then walks only the edges among
those nodes, and a directed walk never leaves them (`WalkInside`); its distances are true
(`ReachedFound`). When there are too many, the nearest exist (`NearestExist`), and the
levels grow, so that none left out is nearer than one kept. On Neo4j an External node
could be its own risk by an edge to itself; the assumption on the builder's edges excludes it.

### Unit table

`AnswersAlwaysHonest` (`AnswersHonest`). The invariant, `TableInv`, is small: finitely many
rows, as ingests give them. The work is in what the tools compute from any such table.

- `find_symbol` cuts each repository to `limit` and cuts the merged list again. What a
  repository lost had `limit` of its rows before it (`CutAfter`), so it cannot come before
  one that was returned without pushing that one out (`MergedFirst`). The extra row each
  repository is asked for tells whether anything was lost (`OneRepoAnswers`), and a list that
  is cut anywhere is cut to exactly `limit`.
- `search_code` merges the `top_k` of each repository by rounded score and keeps a first part
  of them, the first hit among them (`BudgetKeeps`), so that none
  the budget cut off has a higher rounded score than one returned.
- `_stitch` covers a unit (`StitchCovers`): of the units up to it in the file's order, the
  first that ends no earlier is kept, and it begins no later.
- The statement by name returns nothing or a row of its repository (`NameFinds`), so the
  chain of parents, a recursive function built by `Recursion`, stays there (`ChainStays`).

### Retrieval

`DistancesTrue` (`DepthsShortest`), `LossesNeverRaise` (`LossNeverRaises`) and
`PacketsMaximal` (`PacketMaximal`), from one invariant, `RetrievalInv`.

- `SearchInv`, for the search of the graph. `DepthsOrdered`: the queue is in order of depth
  and holds at most two depths, so that a node is first seen at its least depth.
  `NothingInvented`: each depth has a path of that length whose queries answered.
  `NothingMissed`: the neighbours of a node that was dequeued and answered are in the queue
  or were seen, no deeper than one more. When the queue is empty, what was seen is what is
  within reach, at its distance.
- `FoundInv`: a channel returned a list of its own candidates, no unit twice, with scores
  between nothing and the unit. A unit so gets each part of its score from one candidate,
  and without the channel that part is nothing.
- `PacketMaximal` is kept by the one step that packs. The room left after each position
  (`Room`) never grows, so a unit for which there is room at the end had it at its turn;
  the tokens of the packet are the budget minus the room, by induction over the
  positions (`RoomIs`, `SpentIs`, from `Recursion` in `OrderingProofs`).

### Compression

`SummariesAlwaysAgree` (`SummariesAgree`). `CompressionInv`: records are of units of the
input, and the result, once there, is what the records give; the rest is about the
summaries. A climb stops at the first module it meets (`ModuleMet`), and where units of one
name are alike the parent found by name is the module itself or a class of it, whichever
unit the index kept (`InItsModule`). `NamesClear` states that premise in the property: with a
function `m` of `pkg/__init__.py` beside `pkg/m.py` the two summaries part, and the
instance has such inputs. For the chunks, the one that covers a character is the first to
end after it (`ChunksCover`); that none is within another rests on the last chunk being the
first to reach the end of the text.

### Ordering

Sorting and filtering are counted, so their lemmas are inductions over finite sets. The
library's induction theorems take an operator, but a well-founded order does not: a set
of sizes without a least element is empty (`WellFoundedInduction`), and that carries each
of them. A lemma takes the order as a set of pairs (`StrictTotal`), and the definition
that sorts by an operator is expanded where it is used. What comes out: an ordered set
has each element once, earlier elements first; the picked positions keep their order. A
recursive function is a `CHOOSE`: `Recursion` builds one that satisfies its equation, which
the chosen one then does too.

### Decisions

`DecisionsAlwaysHold` (`DecisionsHold`). `GovernanceInv`: the policies are sorted by
priority and name (`PoliciesSorted`, which registration and removal keep); the n-th line
of the chain has number n - 1 and the chain links back; what was granted in a repository
was granted to the tenant that owns it now (`GrantsOwned`, no assignment takes a
repository away); a line of the chain is in the file, once, or on its way there in one
thread, or its write failed (`WrittenOnce`). The replay then has every decision once, and
the first policy in the sorted list with an opinion is the first in the order.

### Worker pool

`PriorityAlwaysKept` (`PriorityKept`). `PoolInv`: a submitted task is in the heap, in the
line of the semaphore or has begun (`PoolPlaces`); of two tasks, the one submitted
first with no lower priority is first out of the heap, first in the line and first to
begin (`PoolOrder`): a drain empties the heap in its order behind the line, and a retry,
which joins the line again, has begun before; `inflight` counts who holds the semaphore,
and the counters add up to what was submitted and is not in the heap (`PoolCounts`).

### Embedders, cache, rate limiter

`AnswersAlwaysFit` (`AnswersFit`), one theorem over three components that share nothing.

- `EmbedInv`: the vectors a call has collected are those of its first texts, in their
  places, whatever order the provider answered in (the answer is sorted by index); no
  more posts were made for a batch than attempts; who loads the local model holds the
  lock, and it is loaded once.
- `CacheInv`: an entry is what its key was last put with, not yet expired when served;
  of two entries the later one was used since the last use of the earlier one
  (`LeastUsedFirst`); a key with fewer than `MaxSize` other keys used since has its entry
  (`Covers`).
- `RateInv`: what was let through since any grant, with what the bucket holds, is no more
  than a full bucket and what accrued up to the last refill. A clock that goes back
  refills nothing.

### Local repositories

`CommitsStayTrue`: `LocalSpec => []ClaimHolds`, the first half of `LocalFollows`. Runs of the
watcher and of requests overlap without a lock, so a row's commit is true of the memory for
one of two reasons, which `LocalInv` keeps apart. A commit is read before the tree: whoever
is past the lock carries one no newer than the disk, and once he walked, no newer than his
tree (`RunsTrue`). A run nobody overlapped writes
over what others wrote before it walked; its tree is no older than any commit in the row or
still to be written there (`LoneRuns`), because those were read before it walked. One that was
overlapped tears what it writes. A crash leaves of each file what was there, what a dying run had read,
or nothing. So the memory holds every commit in the row or about to be
(`RowsTrue`), but for torn files. Each action is one of five steps: calm, a walk, a write, a
claim, a crash; one lemma for each.

### The lifecycle scanner

`ScansAlwaysSound`: `LifeSpec => ScansSound`, both the action property and the invariant.

- A downgrade is earned. `PassTyped` says what a pass holds: the signals of the steps it is
  past, the counters of the beginning among them, and at the end only decisions that follow
  from them. The score is a sum of which recency and success are never negative (`ScoreIn`),
  so what was used before the scan, and the graph it was given, bound it from below, however
  torn the rest was read. The square root of `Saturating` and the halves of `Halved` are
  shown to exist and to be in range first.
- A second scan is idle. `AloneInv`: a scan nobody disturbed knows the signals it has read
  and the statuses; once it applies, each entity has the status decided, if its turn has
  come, and the one read otherwise (`Knows`). `IdleAgain`: deciding again on what was decided
  decides nothing, because a score is below the one threshold or it is not.
- The plans of one pass fit (`PlansOfPass`) for any scores that are numbers: what a compactor
  merges is exactly its victims, each under its module, and a module is nobody's victim.

### Unit names

A unit's id is made of its name and is its key in every store. `NamesTold`: the names of
a file's units are distinct after `ResolveCollisions`, however many shared one. The line
order of the units of one name is strict and total (`OrdinalsDiffer`), so each has its
own ordinal, and a suffix tells a name without one from every other (`SuffixesDiffer`).
`OwnersEnclose`: the class a member is left with encloses it. If a renamed class was
chosen, its name is no other unit's; if none encloses the member, the class that does is
the first of its name and kept it. Both take units as a parser returns them, `Nameable`
(typed, and a suffix only where no name comes twice) and, for the second,
`WrittenInside`: a member of a class is in some class of that name. `NamesAsParsed`
checks both of every file the run parses; Go and Rust write members outside their type,
and have only the first theorem.

`SectionsTold` is the step of the fold over the headings of a document, and its start:
whatever the level and title of the next heading, its name is new and extends the name of
a section above it. Among the first k + 1 suffixes one is free when k names are used
(`FreshIsFree`), and levels grow along the stack, so `Pop` leaves what the loop of the
code leaves (`PopKeeps`).

### Only model-checked

- Liveness: `EventuallyFresh`, `Settles`, and the second half of `LocalFollows`.
- `BuilderAccepts` and `UnitsNest` speak of recursive walks over syntax trees, written
  with RECURSIVE operators, in whose presence the SMT backend is not available. What is
  proved of names takes what the walks return as a hypothesis; that a document's last
  section has the invariant of the first is an induction over its headings.

## 5. Not modelled

- The cap of 200 edges (`truncated_edges`) on what explore returns, and its answer when the
  look-up of the edges fails: every node at distance one, or none if a direction is asked.
- `POST /ingest` of a managed repository under a sha that is no commit, such as `manual`: the
  next poll ingests the tip.
- `PolicyEngine.add` is an append and a sort without a lock; it is one step in `Governance`,
  and nothing in the program adds a policy while requests run.
- Text: tree-sitter and libcst, the FTS index, the cosine search, weights of the ranking
  model (integers here), token counting, rendering.
- Reports over snapshots of the stores: integrity, diagnostics, reproducibility,
  dashboards, feature flags. They change nothing.
- The shard manager, load balancer and distributor: pure functions of a hash, with
  nothing in the program that calls them concurrently.
- Redis beyond the counters of the lifecycle; the transports and schemas of MCP; CLI
  commands, SDK methods and pages that send one request and show its answer.
- Safe mode for the poller: it empties passes. Liveness of `ManagedFreshness` assumes it
  off.
- Hazards without a model: `provision_user` dying between the user and the membership
  leaves a user without one; a removal that dies between `rmtree` and the delete of the
  row leaves a watched row without a clone; an ingest that dies before its first row leaves a
  collection no switch resizes (an exception of `SizesFollowMode`); two first ingests of one
  new repository id by two organisations; a member who rejoins regains old teams
  and grants.

## 6. Plan

1. An abstract `MemoryService` (a memory that is at one commit, moving or torn),
   implemented by `ManagedFreshness`.
2. The poller under safe mode.
