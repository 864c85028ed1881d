# niss in TLA+

niss is a search server: an administrator defines indexers (Lucene indexes) and
searchers (queries over one or more indexers), scripts and their schedules,
loaders, sites to crawl; the definitions are nodes of a *rcraken* repository
(a hierarchical key-value store); what serves requests is a set of objects in
memory that handlers of the repository's changes (CDD handlers) keep in step
with the nodes. This directory holds TLA+ modules of the parts where that
keeping-in-step is hard to get right, the TLC configurations that check them
and the TLAPS proofs of the most important facts.

All paths below are relative to `src/src/net/ion/niss/` of the repository.

## 1. The system

| Component | State | Operations | Talks to |
|---|---|---|---|
| `webapp/REntry` with `IndexManager`, `SearchManager` | controllers of indexers, searchers over them (memory); `/indexers`, `/searchers` (store) | load at start; CDD handlers of indexers, index schemas, searchers, search schemas | store, Lucene |
| `IndexerWeb`, `SearcherWeb` (definitions) | none | create, define, remove, update a field, add and remove schemas, edit templates | store, one transaction per request |
| `ScriptWeb`, REntry's handler `niss.scripts`, `Scheduler` | `/scripts/{sid}` (content, running), `/scripts/{sid}/schedule` (store); jobs, runs (memory) | define, remove, schedule, run, instant run; fire, expire; start | store, `JScriptEngine`, thread pool |
| rcraken (library) | the map of nodes, the committed map, the write lock | `tran`, `merge`, `removeSelf`, listeners, commit, rollback | everything |
| `DScriptWeb`, `ScriptLoader` | `/dscripts` (store), packages (memory) | define, remove, load, call | store, Nashorn |
| `LoaderWeb`, `EventSourceEntry` | `/events/loaders` (store), connections, latches | run, send, close | store, browser |
| `PopularQueryEntry`, `TopEntryCollector` | a cache of ten minutes, `/searchers/{sid}/popularquery` | result, background recomputation, edit | store, pool |
| `SiteManager`, `SiteProcessor`, `SiteWeb` | `/sites` (store), documents of a crawl (index) | crawl thread, index, remove | store, indexers |
| `IndexerWeb` (documents), `SchemaInfos` | documents (index) | JSON, JSON array, CSV batches, removal of rows | indexers |
| `NissServer`, `MiscWeb.shutdown` | status, radon | init, start, shutdown | everything |
| query requests and responses | none | query in five formats | managers |
| browsing and editing of nodes, users, logging, static content, configuration, class loading | none or one put | | store |

How they interact. A request runs *one transaction* in its own thread, under
the workspace's fair write lock. Each `merge` of it reaches the map as one or
several puts (`{}` for a new node, the missing ancestors, then the node), each
`removeSelf` as one remove per node of the subtree, in no order. After each of
them the CDD handler of the path runs in the same thread, *before* the commit,
and changes the managers, the scheduler or the packages. A handler that throws
ends the transaction: the file store rolls back, the memory store (the one
`resource/config/niss-config.xml` names) cannot, and what earlier handlers did in memory is never
undone. `tranSync` and `.get()` pass the exception on to the request, a bare
`tran` swallows it. Queries, scheduled runs and listings read without a lock.

What is hard here, and what would make each part correct:

* *definitions*: memory follows the store through partial handlers, rollbacks,
  removals in any order, re-creation, crashes and the load at the start; one
  open controller per index directory; requests atomic on the committed store;
  what is committed can be started with.
* *schedules and runs*: a job exists exactly for an enabled schedule, with its
  time; one run at a time; the running flag set only during a run; a removed
  script stays removed; a listing never fails.
* *packages*: a package in force is that of the stored script; one bad script
  does not stop the start.
* *event streams*: a failure can be told from the stored status; what a page
  receives has no gaps and is complete when it is told the end; every run ends,
  whatever becomes of the page it waits for.
* *popular queries*: cache and store agree on what was rendered; every view is
  answered; after an edit the text shown becomes that of the edited template.
* *sites*: a crawl is in the index as a whole once it was indexed; the documents
  of a removed crawl go with it.
* *batches*: a batch that fails leaves a prefix that ends with a commit; nobody
  takes out what another request committed; the locks come free.
* *server*: start and shutdown in any order.

`PROJECT.json` lists the hazards one by one, at the line where each bites.

## 2. Plan

In the order of what depends on what and matters most:

1. `CrakenStore`, `AdminCatalogue`, `REntry`, `REntryProofs`,
   `REntryStoreProofs` (all its invariants and the refinement) - **done**.
2. `ScriptSchedule`, `ScriptScheduleProofs` - **done**.
3. `EventRun`, `EventRunProofs`, `EventRunOutputProofs` (event streams and the status of asynchronous
   runs), `PopularQuery`, `PopularQueryProofs` (cache, background task,
   invalidation) - **done**.
4. `SearchIndex` (how requests write an index), with `IndexRequests`,
   `IndexRequestsProofs` (batches and their commits) and `SiteCrawl`,
   `SiteCrawlProofs` (crawler, indexing, removal, death of the process) on top
   of it - **done**.
5. Open: `DScript` (packages against the store, on `CrakenStore`'s pattern of
   transactions), the field types of `SchemaInfos`, `NissServer`.

The abstract specifications are `AdminCatalogue` (requests are atomic),
`AtomicBatches` (a unit of a batch goes in at once) and `PopularTexts` (a
rendering is stored and shown at once). The rest of the modules state what they
promise as properties.

## 3. Modules

### CrakenStore - the store

Four maps from a key to a node or `Absent`: `ix` (`/indexers/{iid}`), `is`
(their schemas), `sr` (`/searchers/{sid}`), `ss` (their schemas). A node has
the properties a handler can tell apart: names of analyzers, the targets, the
kind of a schema. `Good` are classes that can be loaded, `Bad` one that
cannot, `Null` a property that is not there, `Blank` an empty one. The module
defines into which puts and removes `merge` and `removeSelf` fall apart.
rcraken is a library outside `src/src`; its semantics come from the classes
under `lib/rcraken` and are marked external in the map.

### REntry - definitions in memory and in the store

| TLA+ | code |
|---|---|
| `db`, `wk`, `tran` | committed map, map as sessions read it, holder of the write lock with the puts and removes to come |
| `ctl`, `idx` | the `SearchController`s this process opened; `IndexManager.indexes` |
| `srch` | `SearchManager.searchers`: base controller, appended ones, field analyzers |
| `phase` | process down, up, or stopped by an exception of the constructor |
| `CreateIndexer` ... `RemoveSearchSchema` | the requests; each begins a transaction |
| `IndexerCreated` ... `SearchSchemaDeleted` | the CDD handlers, one put or remove with its handler per step, including the one that throws |
| `Commit`, `PutFailed` | commit; rollback (or not, `Transactional = FALSE`) |
| `Load`, `LoadFails`, `Crash`, `Retry` | `initCDDListener` on the committed store, its exception, the end of the process, the next attempt |

`First` is the element a `HashSet` iterates first (`cols[0]` of
`registerSearcher`): any choice function. `MaxControllers` bounds how often a
process opens a controller, which is what makes the state space finite.
`UpdateField` writes a property whose name the request gives: one the handlers
do not read, or one of the analyzers alone.

A searcher whose definition is replaced by one without targets goes on with the
controllers it has (`registerSearcher` returns at 550-551). `SearcherFollowsTarget`
says so: a registered searcher serves the targets that are stored, or, when none
are stored, those of some earlier definition.

### AdminCatalogue - what the requests promise

The committed store only, one step per request. `REntry!Atomic` is this
specification under the identity mapping of `db`: the puts, removes, handlers,
rollbacks and crashes of `REntry` implement requests that happen at once. TLC
checks it in `schemas`, `RequestsAreAtomic` proves it.

### ScriptSchedule - scripts, schedules and runs

| TLA+ | code |
|---|---|
| `script`, `sched` | `/scripts/{sid}` with `content` and `running`; `/scripts/{sid}/schedule` |
| `job` | `Scheduler.jobs`; `Spent` and `Rejected` record why there is none |
| `run` | the runs under way, with the content they read and where they are |
| `DefineScript`, `RemoveScripts`, `EditSchedule`, `EditScheduleRefused` | requests of `ScriptWeb` with the handler `niss.scripts` |
| `Fire`, `Expire` | a minute of the scheduler |
| `Check`, `Mark`, `Compile`, `Exec`, `End` | the runnable `makeCallable` returns, cut where another thread can get in between |
| `RunScript`, `InstantRun`, `FinishRun` | runs by request |
| `Start`, `Crash` | the end of `initCDDListener`; the end of the process |

A request's transaction is one step here: nothing but the check of a run reads
without the lock, and that reads one node. Contents are of four kinds, as the
code treats them: `Sound` (returns, or throws in JavaScript), `Throwing` (a
Java `RuntimeException` escapes `execHandle`), `Uncompilable`, `NoContent`.

### EventRun - asynchronous runs and the pages that watch them

| TLA+ | code |
|---|---|
| `conn` | the event source connections with what `onOpen` and `onClose` of `EventSourceEntry` have done for each |
| `connMap`, `latchs`, `released` | the two maps of `EventSourceEntry`; the latches counted down |
| `run` | the runs of `LoaderWeb.run` and `instantRunScript` with their writers: what was written, what was flushed, where they are |
| `node` | `/events/loaders/{eventId}`: status, exception, content |
| `got` | what each page received |
| `Connect`, `Lose` | the HTTP server (radon, external): head of the response written, channel closed |
| `Release`, `PutConn` / `RemoveLatch`, `RemoveConn` | the two statements each of `onOpen` and `onClose` |
| `RunLoader`, `InstantRun`, `InstantRunRefused` | the requests; a script that does not compile leaves its latch behind |
| `Write`, `CallFlush`, `Return`, `Send` | the script and its writer; a flush waits for the latch, at most a second |
| `Fail`, `MergeEnd`, `CloseEvent` | `onFail` of a loader; `EventSourceWriter.close`, whose transaction tells the page before it commits |

The wait of a flush is no guard: it ends with the latch or with the second,
so `Send` may happen at any time. Where an invariant speaks of what a page
received, a page that is gone received nothing (`Lose` empties `got`).

### PopularQuery - the cache of popular queries

| TLA+ | code |
|---|---|
| `tmpl`, `stored` | `/searchers/{sid}/popularquery`: the template, by its version, and the text last rendered (`transformed`) |
| `cache` | `scache` of `PopularQueryEntry`: nothing, a load under way, or a text, with who put it |
| `req` | the request threads: loading, waiting for another's load or for the task, about to store, about to invalidate |
| `task` | the tasks in the pool: rendered and merged, put, over |
| `View`, `Load`, `Await`, `Store` | `result`, cut where the library calls the loader and where `get` of the future waits |
| `TaskMerges`, `TaskPuts`, `TaskCommits`, `TaskFails` | the task with its transaction |
| `Edit`, `Invalidate`, `RemoveSearcher`, `Expire` | the requests of `SearcherWeb`, and ten minutes |

The cache is Guava's; what it does with a put or an invalidation during a load
(`StoreLoaded`, `Drop`, `Woken`) is read from its classes and external. Two
things the model does not need but a reader should know: an invalidation while
a load is under way does nothing, and the dates are written to
`/searchers/{sid}/popularquery` and read from `/searchlogs/{sid}`, so that an
edit of them has no effect.

### PopularTexts - what a popular query promises

For each searcher a template, the text stored with it and the text a view gets
without waiting; renderings that were asked for. No cache, loads, threads or
locks. `Render` stores and shows a text in one step, `Fill` lets a view bring a
text only where none is shown, `Reject` leaves everything as it is when the
template does not render. `PopularQuery!RendersAtOnce` is this specification
with `shown` taken as the text of the task that is between its merge and its
put, if there is one, else as what the cache holds (`ShownNow`), and with the
queued tasks as the renderings (`Asked`). An edit is not followed by a step
that forgets: `Forget` may come at any time, as the invalidation of an edit and
the expiry may.

### SearchIndex - how a request writes an index

`SearchController.index` of the search library, as the classes in
`lib/ref/searcher_8.11.jar` have it: the job runs in the thread of the request
under a lock of the controller; a thread that does not get it within ten
seconds goes on *without* it, and its unlock throws in the end; the directory
has a lock of its own from the first write on; an exception of the job is
printed, what was not committed is rolled back, and the call *returns null*.

| TLA+ | library |
|---|---|
| `index`, `draft` | what the last commit has; what the open `IndexWriter` would commit |
| `lock`, `writer` | `SearchController.locker`; who has the directory |
| `TakeLock`, `GiveUpLock` | `tryLock` |
| `Change`, `ChangeAndCommit` | `insertDocument`, `updateDocument`, `deleteTerm`; the same followed by `commit` or `continueUnit` |
| `CloseSession`, `AbortSession` | the end of a job that returned, that threw |
| `CloseController` | `SearchController.close`: lock and writer go, the commits stay in the directory |

### IndexRequests - documents and batches

`index.json`, `index.jarray`, `index.csv` and the removal of rows, each from
its arrival to its answer, one document per step (`Work`). A document is known
by the request and place it came from and its id; `Bad` is one the job cannot
read. `within = 0` divides by zero at the second document. The answer is what
the code makes of the result: `index.json` and `index.jarray` say "n indexed"
whatever happened, `index.csv` fails when it unboxes null, the removal says
"null removed". That a batch of `index.json` or `index.jarray` is answered as
indexed (`TestIndexerWeb.java:29, 67` take the answer to mean it) although none
of it is in the index is thus reachable here.

### AtomicBatches - what a batch promises

The documents of each index, what each request asks for with its answer, and
how much of a batch is in. No job, no locks, no directory, no draft. `CommitUnit`
puts one whole unit into the index, `Finish` the rest, `GiveUp` nothing more;
the first two never write an index in which another batch is in part (`Alone`).
Which answers go with which end is part of it: a batch that was given up may be
answered "ok" only by `index.json` and `index.jarray`.
`IndexRequests!UnitsAreAtomic` is this specification with `sofar` taken as the
last end of a unit the running job has come to (`SoFar`). A job that starts
without the lock while another has the directory throws; this is why `Alone`
holds.

### SiteCrawl - crawls, their indexing and removal

| TLA+ | code |
|---|---|
| `node` | `/sites/{sid}/{crawlId}`: absent, without a mark, or the `iid` of its mark |
| `page` | the pages below it; a page is a name, then has its properties, then its links, and commits |
| `crawler`, `next` | the thread of `SiteManager.crawlSite` |
| `known` | `IndexManager.indexes`: which indexers are registered |
| `request` | requests that index or remove the crawl, with the pages a job has still to read and whether it returned |
| `CrawlSite`, `Create`, `PutName`, `PutPage`, `CommitPage`, `CrawlEnds` | the crawler |
| `AskIndex`, `Enter`, `IndexPage`, `IndexReturns`, `IndexThrows`, `Mark` | `indexSite`, which marks the crawl whether its job returned or threw |
| `AskRemove`, `Enter`, `Unindex`, `UnindexThrows`, `Drop` | `removeCrawl`, which reads the mark, asks whether the indexer is registered, and removes the crawl whatever became of its job |
| `RemoveIndexer`, `CreateIndexer`, `EndsClosed` | `IndexManager.removeIndex`, which leaves the files; the directory opened again with what is in it; the end of a job whose controller was closed under it |
| `RemoveSite`, `Crash` | the removal of the site, which leaves the documents; the death of the process |

A job may throw at any moment: an `IOException` of an update or a commit becomes
an `IllegalStateException`, which the library prints and swallows, and the
request goes on to the mark, or to the removal of the crawl.

`mixed`, `strayed` and `finished` are history. They say of which crawl two things
were under way at once; which index may have documents of it that its mark does
not name; and in which index a job that indexes it returned since the last
removal that did. `IndexedMeansWhole` is therefore not a statement about the
mark, which the code sets also when every job threw: it says that what a job that
returned put there is whole and stays so.

## 4. Runs

### Passing

| Run | Instance | What it shows |
|---|---|---|
| `indexers` | 1 indexer, 1 schema, 3 names, 2 controllers, file store | types; one open controller each; schemas, query analyzer in force; nothing unloadable committed |
| `targets` | 2 indexers, 1 searcher, 3 controllers | a searcher searches its stored targets, or earlier ones when none are stored; a closed controller in use is one of a removed or re-created indexer |
| `schemas` | 1 indexer, 1 searcher, a schema each | search schemas in force; what is committed blocks a start in three ways only; refinement of `AdminCatalogue` |
| `memory_store` | the same without rollback | what survives failures when nothing is undone: stored indexers have controllers, schemas have their indexer or searcher |
| `schedules` | 1 script, contents of all kinds, times without limit / twice / never, 2 runs at once, fairness | jobs and schedules agree; a sound run clears the flag; a flag that no run clears stays |
| `event_streams` | 2 connections, 2 runs, 1 event id, 2 pieces of output | types; a released latch has its connection; output without gaps; the end is told with the output stored; failures stay on record |
| `event_runs_end` | 1 connection, 2 runs, 1 piece, fairness | every run ends; a page that stays is told |
| `popular_queries` | 1 searcher, 2 threads, 2 tasks, 2 edits of which one does not render, fairness | refinement of `PopularTexts`; a load yields to a task; no view waits for nobody, all are answered; the text shown settles on the current template |
| `index_requests` | 1 index, 2 requests of every kind, 4 batches of up to 4 documents, `within` 0 to 2, fairness | prefixes that end with a unit; `index.csv` tells the truth; refinement of `AtomicBatches`; the locks come free |
| `site_crawl` | 1 crawl of 2 pages, 2 indexes, 2 threads, 3 requests that index or remove the crawl or remove an indexer, 1 crash | what a job that returned put into an index is whole and stays; documents stray only in the ways listed; pages without links only when two things were under way |

### Violations: where the code departs from what its comments and tests say

| Run | What TLC finds |
|---|---|
| `restart_blocked_by_searcher` | a searcher is committed with a target that is not stored: a request gives a new indexer an analyzer that cannot be loaded and is rolled back, the controller of the indexer stays registered, a searcher over it is accepted, and the next start throws where it looks the controller up (`REntry` 553). The removal of a target's indexer leads to the same end |
| `runs_overlap` | two runs of one script pass the flag together |

`findings` of `PROJECT.json` quote the comment or test each contradicts.
Departures the models contain that have no run of their own: a definition
refused for its query analyzer leaves its index analyzer in force
(`IndexerModified`, `REntry` 292); a blank query analyzer or a manual schema with
a blank analyzer is accepted and stops the next start, too (`IndexerLoads`,
`REntry` 129, 137; `StartBlockedByFew` has the three ways); a searcher redefined
without targets keeps those it had (`SearcherModified`, `REntry` 550); a schedule of a script that was never saved
creates a script without content, at which the listing throws (`ScriptWeb` 89);
a script that does not compile, throws or was interrupted stays flagged and is
never scheduled again (`StuckForGood`), and a run that ends after the removal of
its script brings it back (`End`); an indexing job that failed is answered as
done, and its crawl is marked as indexed (`AnswerOf`, `Mark`); a crawl is removed
though the job that removes its documents threw, or though its indexer is not
registered and will have them when it is created again (`UnindexThrows`,
`AskRemove`, `CreateIndexer`). Two were met
outside the models: the definition of a new data script on the transactional
store is rolled back by its own handler and answered as created (`REntry` 332,
`DScriptWeb` 171), and the overview of a data script reads `/dscripts/{did}/slogs`
while its log is written under `/scripts/{did}/slogs`.

### Bounds, and why they are enough

One or two ids of each kind: handlers look at one indexer or searcher at a
time, and the only relation between two of them, a searcher over several
indexers, is in `targets`. `MaxControllers` is at least one more than the
number of indexers wherever re-creation matters, so that a controller is
opened, closed and opened again within one process, and restarts renew the
budget. Two runs at once suffice for every race between a check and a write;
three would add no kind of overlap. A `matchtime` of two and of zero covers the
counter's boundary; -1 is the code's "no limit". Contents, names and times are
kinds, one member of each. `Workers` are interchangeable and are reduced by
symmetry in the violation runs. `schedules` has the file store and one script:
the proofs of its safety properties hold for any number of scripts and for the
store without rollback too.

In `EventRun` a connection is opened once and a run started once, so the system
may stop, and its two runs do not check deadlock. Two connections with one
event id are what it takes to replace one and to remove the other's entry; two
runs to replace a latch and to write a node in turns; two pieces of output and
the handler's own one to leave a gap. The liveness run has one connection and
one piece, because symmetry cannot be used there. Events do not interact.

Two threads are what it takes for two jobs to meet on the lock of an index or
for a view to wait for another's load; a batch of three documents before one
that fails reaches the first unit of every `within` in `Withins` and the middle
of one; two pages with a commit after every second reach a last commit with and
without a remainder, and three requests the longest story that is told: an
index, another index whose mark replaces the first, or the removal of the
indexer, and a removal. `site_crawl` has 1,645,982 distinct states.

Every property of a passing run has a mutant in `PROJECT.json`: a variant of
the modelled code (definitions commented `Variant:`) under which TLC finds the
property violated. Deadlock is checked in every run but the two of
`EventRun`, `index_requests` and `site_crawl`, where the requests come to an end.

### Fairness

Safety needs none. `FairSpec` of `ScriptSchedule` has weak fairness of each
run's next step: the pool is a cached one, so a submitted run has a thread; the
write lock is a fair reentrant lock; and a script that is run is taken to
return, which the content of the script has to justify. Nothing is assumed of
requests, of the scheduler's minutes or of restarts. `FairSpec` of `EventRun`
has the same fairness of each run's steps and none of the pages, of the
callbacks of their connections or of the latches: `RunEnds` is the claim that a
run needs none of them.

`FairSpec` of `PopularQuery` has fairness of the steps of threads and tasks, the
strong one where a step waits for a slot of the pool or for the write lock: the
pool has no bound, and the lock is fair. Expiry is weakly fair: an entry of the
cache goes ten minutes after it was written (`expireAfterWrite`,
`PopularQueryEntry` 37), whatever else happens. Nothing is assumed of views or
edits; `SettlesOnCurrent` speaks of a searcher that goes on being viewed. `Spec` of `IndexRequests` has weak fairness of the
steps of a request that is under way, which its own thread takes: the wait for
the lock ends after ten seconds.

## 5. Proofs

The constants are arbitrary: any sets of ids, fields, names, scripts, times and
workers, with or without rollback, under the named assumptions of the modules
(`NamesDistinct`, `FirstChooses`, `ContentsDisjoint`, ...), which TLC evaluates
in the runs.

`REntryProofs`

| Theorem | Property | Argument |
|---|---|---|
| `TypeCorrect` | `TypeOK` | inductive; records that an analyzer in force was always loaded |
| `RegisteredIsOpen` | `OpenIffRegistered` | part of `ControllerInv` |
| `StaleByRemovalOnly` | `StaleOnlyIfRemoved` | part of `ControllerInv` |
| `CommittedIsRegistered` | `StoredIsRegistered` | `RegisteredInv` |

`ControllerInv` joins four facts: an entry of `IndexManager` is a controller of
its own indexer (`Owned`), open controllers are the registered ones, the
registered one is the last that was opened for its indexer (`Latest`), and
searchers use controllers that were opened (`SearchesOpened`). None is
inductive alone: that a stale controller belongs to a removed or re-opened
indexer needs `Latest`, which needs `Owned` when a deletion closes what the
entry points to. `RegisteredInv` says that without a transaction the map is the
committed one, and that every stored indexer, in the map as read or as it would
be after a rollback, has a controller or is about to be removed by the
transaction under way: a rollback re-creates what was removed in the store but
not in memory, and only an analysis of when a handler can throw after a removal
(never: a removing transaction has no puts) closes the argument.

`REntryStoreProofs`

| Theorem | Store | Property | Argument |
|---|---|---|---|
| `RequestsAreAtomic` | rolls back | `Atomic` | `TranInv` and `AimInv`: every transaction leads to one step of `AdminCatalogue`; `Commit` is that step, every other step stutters |
| `SchemasHaveParents` | any | `NoOrphanSchema` | `ParentInv`: the map as read has parents whatever the transaction is at |
| `CommittedNamesAreLoadable` | rolls back | `CommittedNamesLoad` | `NamesInv`, a name enters the map by a put whose handler loaded it |
| `SchemasAreInForce` | any | `ManualSchemaInForce` | `SchemaForceInv` |
| `QueryAnalyzersAreInForce` | rolls back | `QueryAnalyzerInForce` | `AnalyzerForceInv` |
| `SearchersFollowTargets` | rolls back | `SearcherFollowsTarget` | `SearchForceInv`, which names for each searcher the targets it serves: those stored, or, when none are, those of an earlier definition |
| `SearchSchemasAreInForce` | rolls back | `SearchSchemaInForce` | `SearchForceInv` |
| `StartsAreBlockedByFew` | rolls back | `StartBlockedByFew` | `StartInv` |

"Rolls back" is the assumption `Transactional`: the file store. The memory store,
which the configuration in the repository names, does not roll back, and
`CommittedNamesLoad` and the analyzers in force are then false, which is why
those statements assume it.

The invariants compare the managers with the map as sessions read it, not with
the committed one: a handler runs in the middle of a transaction. What goes
wrong is a rollback, which undoes the map and not the managers. `TranInv` says
what a transaction has still to do: its puts end with the one that was asked
for, the others make nodes without properties whose handlers load nothing; a
removal takes the schemas with their node. Hence (`LastPut`) a put with
properties is the last step of its transaction, and a handler that throws has
changed no manager in a way the rolled back map does not show: the force
invariants hold of the map as read and, while there are puts to come, also of
the committed one, which is what a rollback needs. `AimInv` adds that what is
still to come, applied to the map as read, is one request of `AdminCatalogue`
on the committed map. `StartInv` is about searchers that have targets: the load
at the start rejects neither their analyzer nor their schemas, in the committed
map and in the map as read; and while the server is up they are registered, those
of the committed map too as long as puts are to come and a rollback may bring it
back. The second part makes the first inductive: the handler of a schema looks
at it only when its searcher is registered, so a schema it lets pass unseen is
one of a searcher without targets, which the load does not look at either. What
is left of the ways to block a start is a blank query analyzer, a blank manual
schema and a first target that is not stored.

`ScriptScheduleProofs`

| Theorem | Property | Argument |
|---|---|---|
| `TypeCorrect` | `TypeOK` | inductive |
| `NothingCancelledFires` | `JobFollowsSchedule` | `JobInv`, both directions together |
| `EnabledIsScheduled` | `EnabledHasJob` | `JobInv` |
| `StartRegistersAll` | `CommittedTimesParse` | inductive with the types |
| `FlagIsFinal` | `StuckForGood` | action property from the types, one case per step of a run |

`EventRunProofs`

| Theorem | Property | Argument |
|---|---|---|
| `TypeCorrect` | `TypeOK` | `TypeInv` adds how far a run may write at each place, that only loaders come where a node is changed, and that the node is there |
| `RunsComeToAnEnd` | (`RunsAdvance`) | action property: a bound on the steps a run has left (`ToDo`: four for each piece to come, and what its place needs) goes down with each of its steps, and no step of a connection, a latch or another run raises it; with the types |
| `ReleasedConnected` | `ReleasedIsConnected` | `ReleasedInv` adds that a latch belongs to the run of its event; a step that keeps events, connections' callbacks and the registry keeps it, the others are the callbacks and the start of an instant run |

`EventRunOutputProofs`

| Theorem | Property | Argument |
|---|---|---|
| `OutputWhole` | `OutputComplete` | `OutputInv`: what a page has of a run are pieces without a gap, up to what was flushed as long as the page is the one in the map; a connection is put once (`PutInv`), so a page that is replaced never comes back; a run flushed all it wrote before it tells the end (`FlowInv`) |
| `EndIsStored` | `EndMeansStored` | `StoredInv`: from the merge of its end on, a loader that still is the last writer of its node has it ended with all its output |
| `FailureIsRecorded` | `FailureOnRecord` | `FailInv`: a node was last written by a loader of its event; an exception, once merged, stays unless a failure of another run of the same event without a message blanks it |

`PopularQueryProofs`

| Theorem | Property | Argument |
|---|---|---|
| `TypeCorrect` | `TypeOK` | inductive |
| `CacheAgreesWithStore` | (`PutIsStored`) | inductive with the mutual exclusion of tasks between merge and commit |
| `RenderingsAreAtOnce` | `RendersAtOnce` | `TextInv`, see below |
| `LoadsYield` | `LoadYieldsToTask` | action property from the types |
| `NoStrandedView` | `WaitHasLoad` | inductive with the fact that an entry that is loading has one thread that loads it |

`TextInv` adds to the invariant of `CacheAgreesWithStore` that every text
stored, or about to be stored by a load, is one that renders or says that
rendering failed, and that a task beyond its merge renders. The merge of a task
is then the step `Render`: by the mutual exclusion it is the only task between
merge and put (`OneMerging`), so that what is shown is its text from now on
(`ShownAfter`). Its put changes the cache to the text that is shown already, and
stutters; a load that stores fills in a text where none is shown, or, when a
task put one meanwhile, does nothing (`LoadFills`); invalidations and expiry are
`Forget`, or stutter where a task is about to put (`DropForgets`).

`IndexRequestsProofs`

| Theorem | Property | Argument |
|---|---|---|
| `TypeCorrect` | `TypeOK` | with `WriterRuns`: who has the directory of an index is running a request for it |
| `OthersKept` | (`CommittedStays`) | `DraftKeeps`: what a writer would commit lacks only what its request may take out |
| `NoGaps` | `PrefixOfUnits` | `PInv`, see below |
| `CsvIsTruthful` | `CsvTellsTheTruth` | `CsvInv`: the answer is given when the session closes, with all documents in the draft that becomes the index (`PInv`), and no later step touches what the index has of a request that is over |
| `BatchesAreAtomic` | `UnitsAreAtomic` | `UnitInv`, see below |
| `JobsHoldIndexes` | (`JobsHold`) | `LocksAreOfJobs`, and `WriterRuns` for the directory |
| `JobsComeToAnEnd` | (`JobsAdvance`) | action property: what a request has left to do goes down with each of its steps; with the types |

`PInv` says of every request that its documents, committed or not, are those it
has come to, at their places (`Sound`); that from its first change on it has the
directory (`Begun`); and that its own draft has all it came to, the index a
prefix that ends with a unit, and the draft of any other thread what the index
has (`Tracks`). The last is what a commit by another thread needs, the second
what makes the first change of a request start from a committed index.

`UnitInv` adds to `PInv` that a running job has read what it came to, that its
unit began after the last end of one, and that its draft is the index with the
documents since then put into it in the sense of `AtomicBatches` (`After`). A
`Work` in the middle of a unit extends that draft by one document (`AfterNext`)
and stutters; one at the end of a unit is `CommitUnit`, the end of the job
`Finish` or `GiveUp`. That the index is the one the unit began with, and that no
other batch is in it in part, follows from `Begun`: whoever has committed a unit
has the directory until it is over.

A name in parentheses is a property no run checks: a run already checks a
stronger one, or, for the bounds on steps and the locks, the liveness they
serve. `JobsHoldIndexes` with `JobsComeToAnEnd`, and `RunsComeToAnEnd`, are what
`LockComesFree` and `RunEnds` rest on besides fairness: a job that holds an
index is at work, and whoever is at work or in a run has a bounded number of
steps left whatever the others do.

`SiteCrawlProofs`

| Theorem | Property | Argument |
|---|---|---|
| `TypeCorrect` | `TypeOK` | with `Placed` (a request that is to read or write an index knows which) and `WriterIndexes` (who has the directory of an index is in a job for it) |
| `IndexedIsWhole` | `IndexedMeansWhole` | `Finished` for the pages that must be there, `OnlyFull` for those that must not |
| `GoneIsGone` | `NoStrayDocuments` | `Unnamed` |
| `ThinByOverlap` | `ThinOnlyIfMixed` | `ThinMixed`, and `TodoIsThere` for what a job reads |
| `CrawlsAreWrittenByTheirJobs` | (`JobsWriteTheirCrawl`) | action property from `OthersKept`, and from `Grown`: what a job would commit has every page its index has |

`CrawlInv` has three layers. `WhoInv` says who is at work: two requests of one
crawl mix it; a crawl that was ever indexed and is not mixed has been crawled to
its end (`CrawledFirst`); a request that removes documents works on the index of
the mark (`RemovesMarked`). From it follows that a job of a crawl that is not
mixed reads complete pages only. `OthersKept` says that a draft differs from its
index in the crawl of the job only, so a commit by another thread changes
nothing of a crawl (`JobElsewhere`), and a rollback nothing at all: this is why
no claim needs the job to hold the lock, or not to throw. `ContentInv` then
follows the pages of one crawl through a job (`SoFar`: those the job has passed
are in what it would commit), to its return and from there on (`Finished`),
through a removal (`Cleared`), and says that an index that is neither the one of
the mark, nor of a request under way, nor `strayed` has nothing of the crawl
(`Unnamed`). What throws adds nothing to `finished` and takes nothing out;
`mixed` and `strayed` are each used by a step that would break the property
without it.

In `EventRun`, `onOpen` knows the id only and counts down whatever latch has it, so the claim
about the run that waits rests on `LatchInv`, and that on the fact that no step
changes the event of a run (`RunsKept`).

Only model-checked: `SoundRunClearsFlag`, `RunEnds`, `PageIsTold`,
`EveryViewAnswers`, `SettlesOnCurrent` and `LockComesFree`, as liveness under
fairness is out of the prover's reach; of `RunEnds` and `LockComesFree` the part
that is safety is proved. Every safety property a passing run checks, the three
refinements among them, has its theorem.

## 6. Not modelled

* The handler script of a searcher (`REntry` 575-598): it may return anything.
* The query analyzer of a searcher: the library's `newSearcher` ignores it.
* Queries against a closed controller: what Lucene then does is the library's.
* Races inside `HashMap` and the JavaScript engine, which several threads share.
* The redis and postgres stores of rcraken; failures of writing the backup file
  of a removal; requests without a form parameter the handler expects.
* The contents of the run log: shown, never read back by the program.
* Data script packages (`DScriptWeb`, `ScriptLoader`): what a package is depends
  on what its script evaluates to; the faults met are listed in section 4.
* `NissServer`: a status variable around calls into the HTTP library, whose own
  states decide what a start after a shutdown does.
* The Lucene field `SchemaInfos` makes of a value, captures of pages, and what
  the spider follows.
* The JavaScript under `webapps/`: editors, plot and table libraries, the
  administration pages of Solr and Bootstrap as they were published. The
  program of this repository is the Java under `src/src/net/ion/niss`, and all
  of the map points there.
* A crash during a run of a loader: its node keeps the status "started".
* The listing of scripts, which throws at a script without content.
* Formatting of responses, UI, documentation generator, configuration parsing,
  and classes nothing calls (`ScheduleEntry`, `NamedList`).
