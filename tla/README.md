# VaeDB in TLA+

VaeDB (`src/cpp/`) is the server behind Vae Remote: a multithreaded Thrift
daemon that holds the parsed content of many web sites in memory, answers
queries of PHP scripts on it, and gives those scripts caches and a lock. This
directory holds TLA+ models of its components, the TLC runs that check them on
small instances, and TLAPS proofs of the most important properties for all
instances.

The models keep all of the control (guards, early returns, error paths, the
order of state changes and where locks are released) and reduce the data: a
feed is its generation number, a Session is named by the script that opened
it, a query's nodes are numbers, a value is a model value. Characters appear
only where a property is about them: keys put together from two parts, natural
order, escaping.

## 1. Inventory

### Threads

| thread | code | what it does |
|---|---|---|
| Thrift workers (12 by default) | `main.cpp`, `vae_db_handler.cpp` | run one handler call each; any worker serves any session |
| Reaper | `reaper.cpp` | every 31 s erases sessions older than 62 s, then deletes expired rows in MySQL |
| Bus | `bus.cpp` | receives subdomains on a ZeroMQ PULL socket and reloads their sites |
| reload threads | `bus.cpp` | one spawned after every message, reloads the same site once more |

The clients are PHP scripts: a script opens one session, makes its calls one at
a time, usually closes the session, and is killed by PHP's time limit at any
point. MySQL, memcached and S3 are other servers; every statement to them may
fail, and an error does not tell whether the statement took effect.

### Components

| component | state | operations | shared with | what is hard | correct means |
|---|---|---|---|---|---|
| Connection pools (`mysql_proxy`, `memcache_proxy`) | map connection -> FREE/INUSE, counter, mutex, condition variable | `getConnection`, `freeConnection` (a shared_ptr deleter) | workers, Reaper | lost wake-ups, bargers, spurious wake-ups, destructor order | one user per connection, counter = map, nobody asleep next to a free connection |
| Sessions and Reaper (`vae_db_handler`, `reaper`, `session`) | map id -> Session, `createdAt` | `openSession`, look-up, `closeSession`, the Reaper's cycle | workers, Reaper | clock read before the mutex, ids chosen by clients, scripts that die, late calls | nobody loses or shares a session, no session stays for ever |
| Sitewide lock (`mysql_proxy`, `db/schema.sql`) | one row for each locked subdomain, with a time | `lock`, `unlock` | all scripts of a site, other servers | rows have no owner and a lifetime, lost answers, dead callers | mutual exclusion unless a row is deleted by age while it is needed, no lock stuck for ever |
| Site registry and Bus (`vae_db_handler`, `bus`) | map key -> Site, a mutex for each key | `getSite`, `resetSite`, `reloadSite` | workers, Bus, reload threads | loads of many steps against resets under another mutex, exceptions | what is served after a reload is new, loads are serialised, mutexes are released |
| S3 transfers (`s3`) | cache files, temporary files | `read_s3` = transfer, `finalize`, `get_value` | all loading threads | remove/rename window, failing writes, crashes | no partial object is cached or served, the fallback survives |
| Response paging (`response`) | none | `Response::query` | - | int overflow, division by zero, three ways to cut a page | pages partition the list, indexes in range |
| Session responses (`session`) | vector of responses | `get`, `createInfo`, `data`, `structure` | - | ids 0 and negative, failed calls | an id names the response it was returned for |
| Long term cache (`vae_db_handler`, `mysql_proxy`, `memcache_proxy`) | table kvstore, memcache | `get`, `set`, `delete`, `empty`, `sweeperInfo` | workers, other servers | several statements to two servers without a lock | memcache and table agree, sets lose nothing |
| Query cache (`site`, `lru_cache.h`) | list, index, size | `fetch_query` | workers of one site | concurrent misses, eviction of what others hold | list, index and size agree, everybody gets the query asked for |
| Session and short term cache (`vae_db_handler`, the proxies, `db/schema.sql`) | table session_data, memcache | `sessionCache*`, `shortTermCache*` | workers of all sites | a primary key that is the id alone, DELETE and INSERT without a transaction, one flat space of memcache keys | a stored value stays, and where sites and caches meet in memcache |
| Site loading and contexts (`site`, `context`) | xmlDoc, Contexts, `nodes`, the lists of nodes to clean | `Site::Site`, `initializeAssociation`, `~Site`, `populateData`, `getData`, `getCount` | workers of one site (contexts) | associations that share child and attribute lists and make cycles, XPath objects that outlive the document, data filled at first use outside the lock | what is freed once and what may be freed again, staging items are hidden, readers see whole data |
| Queries (`query`) | an XPath object | `Query::Query`, `~Query` | - | permalinks that are prefixes, ids, exceptions in mid-constructor | the query starts where it says, objects are freed once |
| Sort order (`response`, `util`) | none | `sortCallback`, `str_compare_nat` | - | std::sort needs a strict weak order; ties by EPS, descending ids | where it is one, and numbers are ordered by value |
| Query log (`query_log`) | counter, stream | an entry's constructor, `<<`, destructor | workers | a lock that is dropped at once, a replacement that holds what is replaced | every query is logged |
| Thrift services (`gen-cpp`, `vae.thrift`, `main.cpp`) | two streams for each connection, a thread for it | `send_`, `recv_`, `process_`, `read`, `write` of every method and struct | clients and servers of two services | timeouts, reused connections, other versions of the interface, crashes, a bounded pool of threads | arguments, answers and exceptions arrive where they belong, calls return |

Not modelled, and why: section 7.

### How they interact

`openSession` calls `getSite`, which calls `read_s3` twice (feed and secret) and
then enters the session table; every other call begins with a look-up there and
works on the Session without a lock. `get` and `createInfo` go through
`fetch_query` of the session's Site and `Response::query`. The cache and lock
calls go to MySQL and memcache through the pools. The Bus calls `reloadSite`,
which changes the registry only: open sessions keep their old Site. The Reaper
uses the session table and a pool. A handler is called by the generated
`process_` function of the connection's thread, and what it returns or throws
goes back along the same connection. Loading a Site parses the feed and links
its associations; the Site is destroyed when the registry and the last session
have let go of it (a shared_ptr).

The models are joined by assumptions that another model checks.
`SessionResponses` assumes that one handler at a time uses a Session;
`Sessions!OneHandlerPerSession` is that statement. `SiteRegistry!ReadFeed`
may return the current feed, an earlier one or a text that does not parse;
`S3Transfer` shows what `read_s3` can return. The callers in `LongTermCache` and
`SitewideLock` hold a connection as in `ConnPool`, and the callers of
`SitewideLock` are the scripts of `Sessions`. `ResponsePaging` has an order as a
fixed rearrangement of the nodes; what `std::sort` needs for that is `SortOrder`. A handler
of `VaeRpc` may return any value or throw anything, which is what the other
modules say of it. `SiteLoad` may free a Site at any moment after the load,
since nothing below the shared_ptr holds on to it.

## 2. Modules

| module | models |
|---|---|
| `ResourcePool` | what a connection pool promises: each connection is free or has one holder |
| `ConnPool` | the pools as coded; implements `ResourcePool` |
| `ConnPoolProofs` | theorems about `ConnPool` |
| `Sessions`, `SessionsProofs` | session table, Reaper, scripts; theorems |
| `SitewideLock`, `SitewideLockProofs` | table locks, `lock` / `unlock`; theorems |
| `SiteRegistry`, `SiteRegistryProofs` | sites, site mutexes, Bus and reload threads; theorems |
| `S3Transfer` | `read_s3` and the disk cache |
| `ResponsePaging` | the arithmetic and passes of `Response::query` |
| `SessionResponses` | responses of one session and their ids |
| `LongTermCache` | kvstore and its copy in memcache |
| `QueryCache` | `fetch_query` and the LRU list |
| `SessionCache` | session_data and the short term cache of all sites |
| `SiteLoad` | a document from the constructor of Site to its destructor |
| `ContextData` | what the workers share of one Context |
| `Query` | a query's text, the node it starts from, the XPath objects |
| `SortOrder` | `sortCallback` and the natural order of texts |
| `QueryLog` | the entries of the query log |
| `ThriftCodec` | `read` and `write` of a struct, over a table of its fields |
| `VaeTypes` | the structs and exceptions of `vae.thrift` |
| `ThriftRpc` | connections, and the generated code for one method |
| `VaeDbService`, `VaeRubydService` | the methods of the two services |
| `VaeRpc`, `ThriftProofs` | both services with their clients and servers; theorems |
| `SiteCaches`, `SiteCachesProofs` | `LongTermCache` and `SessionCache` side by side; theorems |
| `SiteShared`, `SiteSharedProofs` | `QueryCache`, `S3Transfer` and `ContextData` side by side; theorems |
| `SiteAnswers`, `SiteAnswersProofs` | `SiteLoad`, `Query`, `ResponsePaging`, `SortOrder` and `SessionResponses` side by side; theorems |
| `MC*` | the instances TLC checks |

`MCSiteData` (`SiteAnswers`), `MCSiteShared` (`SiteShared`) and
`MCCaches` (`SiteCaches`) check several modules in one run, and a proof module that
extends `SiteAnswers`, `SiteShared` or `SiteCaches` is about the same definitions as
the run. The modules put side by side do not interact (the two of `SiteCaches` meet in
memcache only, and each has the other's commands there as actions of its own), so a
behaviour belongs to one of them, which the initial state
chooses (`part`), and the variables of the others stand still; an invariant of a
part that was not chosen holds of its initial state.

`PROJECT.json` maps every definition that models code to its lines. In each
module a definition whose comment begins "A slip:" is not the code: it is a
plausible error in the definition that follows it, used to see that the
properties notice it.

### ConnPool

Both methods of the pool run under `poolMutex` from the first line to the last,
so each passage is one step: `Wait` (the condition holds, `cond.wait` releases
the mutex), `Take` (the loop finds an entry), `FreeConnection`. What a thread
does with its connection is separate: `Prepare`, `NoStatement` (an exception, or
a memcache call), `CloseStatement`. C++ destroys locals in reverse order of
declaration; `FreesBeforeClose` says for whom the connection goes back while
the statement still exists (`garbageCollect`). `SpuriousWakeup` is what boost
allows. The constructor keeps the connections it could open, any subset.

### Sessions

A script slot hosts one script after another. The model keeps ages instead of
times; ages stop growing one second past the largest the code tells apart.
`Tick` does not let a script live beyond `PhpTimeout`, nor a call beyond
`PhpTimeout + Delay`. The Reaper's cycle is three steps, because `time(NULL)` is
read before the mutex is taken: `ReaperWake` fixes the sessions that are too old
(`condemned`), `ReaperScan` erases those that are still there, `ReaperCollect`
is the call of `garbageCollect`. `openSession` is two steps: `getSite` runs
before the mutex. The pointer a handler copies out of the table is `using`.

### SitewideLock

One row for each subdomain (UNIQUE key). The database does not know who
inserted a row; the model remembers it. `LockRefused` is an INSERT that throws:
the row exists, or the statement failed, or it took effect and its answer was
lost. Its catch block is a step of its own (`PurgeOldRows`, `PurgeFails`).
`Unlock` deletes by subdomain. `holds` is what the client believes. A script
calls `unlock` only when it was told that it has the lock. `overrun` is history:
the sites of which a clean-up has deleted, by age, a row that its script still
needed (it holds the lock, or its unlock is under way), for as long as anybody
there needs a row. In the code the lifetime of a row equals the PHP timeout, so
that this happens to the unlocks of killed scripts.

### SiteRegistry

`sitesMutex` is held for a few lines (one step); a site's mutex is held from the
look-up to the end of `getSite`, with `ReadFeed` and the constructor between.
`reloadSite` is `CheckLoaded`, `ReadFeed`, `ResetForReload`, then `LockSite` and
`LoadSite` for each of production and staging that was loaded. A feed that does
not parse makes the constructor throw: Thrift turns that into an answer in a
worker, and nobody catches it in the other threads (`Terminate`). `late` marks a
copy of the feed that came from the disk cache or was read before another
reload's reset; it is history for the property `Fresh`. A key is a pair of
subdomain and mode; the code's key is the subdomain, with ".staging" behind it
in staging mode, which tells the pairs apart as long as no subdomain itself ends
that way.

### S3Transfer

One object, any number of threads. The steps on the cache file are the system
calls: `RemoveCache`, `Rename`, the test for existence in `Choose`, `ReadCache`.
`Complete` may cut the temporary file (write errors are not looked at), `Fail`
ends the transfer early. `Crash` forgets everything but the cache file.

### ResponsePaging

`GroupWindow` and `PageWindow` are the two branches that compute `skip_` and
`paginate_`, the first with a loop whose rounds are `GroupRound`; `Bounds`, `Gathered` and the operators after them are the passes
over the nodes. Arithmetic wraps at `IntMax`, and a float that does not fit
converts to the smallest int, as in the x86 build. A client asks for page after
page and the model collects what it was given.

### SessionResponses

A Response is known by the path of queries that led to it. `size() >= id`
compares a size_t with an int32_t.

### LongTermCache

Each statement of a call is a step. `suspect`, `alone` and `kept` are history:
they record the events after which the copy in memcache may differ from the row
(overlapping calls with a write, a failed statement, rows removed by `empty` or
the sweeper) and what ends the doubt. `ForeignSet` is the short term cache of the
site `<subdomain>LongTerm2`, whose keys in memcache are the same texts.

### QueryCache

`fetch` and `insert` are atomic (the cache's mutex); the query runs between.
Objects are shared_ptrs: an object is free again when neither the list nor a
worker has it.

### SessionCache

The primary key of session_data is `id` alone, so there is at most one row for
an id, while every statement selects by id and subdomain. Each statement is a
step. An SQL error ends the call, is not told to the caller, and leaves it open
whether the statement took effect. `alone` and `stored` are history for the
properties. Memcache is a function of full keys, for all sites and for both
caches that use it, and a full key is the text that the handler puts together:
`VaedbProxy:<subdomain>:<key>` for the short term cache,
`VaedbProxy:<subdomain>LongTerm2:<key>` for the copies that the long term cache
keeps (`LongTermCacheStore`, `LongTermCacheForget`, and the first look of a get,
`LongTermCacheProbe`). An entry records for which cache, site and key it was stored.

### SiteLoad

A linked list of xmlNodes is a sequence, owned by an item. An association takes
over the pointers of its target's list, and the pointer node that is added to the
target those of the association's own item: both are views, a list from a node
on. If that node has been freed since, it is still what the view begins with
(`From`, `Dangling`). Attribute lists are shared in the same way (`props`); the
association's own is freed when it takes over its target's. The steps are the loop
that makes Contexts and drops items and associations with a staging attribute
(`MakeContexts`), one `initializeAssociation` after the other (`Associate`,
`CouldNotFind`, and `CopyFails` where `xmlCopyNode` returns NULL and the constructor
throws in the middle), the other exceptions of the constructor (`Throw`), and the
destructor: `CutOpen` sets the shared pointers to null, `Free` is `freeContexts` and
`xmlFreeDoc`, which free whatever they meet in a list, as often as they meet it.

An association may have an id, and another may then name it. It takes over lists
that are freed when its target is initialized in turn, or gets lists that way;
`AssociateAssociation` ends the model there, since what follows is undefined.

`main.cpp:58` says "abuse of libxml internal pointers results in doublefree", and
turns the allocator's checks off. The model has two sources of that. One is the
association just described. The other is the order of destruction: the cached
queries (`query_cache`, a member of Site) and those of responses are destroyed
after the body of `~Site` and so after `xmlFreeDoc` (`site.cpp:48`), and
`xmlXPathFreeObject` then reads the type of every node in its set and frees those
that say they are namespaces. `RunQuery` puts nodes in such objects (`held`), and
`FreeObjects` may free any of them again. `FreedOnce` shows that the shared pointers
themselves lead to no double free.

### ContextData

`dataPopulated` is read with nothing locked; if it is not set, the worker takes
the Context's mutex, tests again, fills the map field by field and sets the flag
as the last thing. The map is then copied with nothing locked. A query inside
`getCount` may throw with the mutex held. Steps are sequentially consistent; the
flag is a plain bool, and by the rules of C++ its unlocked read is a data race,
whose further outcomes (reordered writes) the model does not have.

### Query

A query is a sequence of the parts between its slashes. The steps follow the
constructor: absolute or not, permalinks (longest first, as the loop goes),
a leading id, `prev()` / `next()`, then libxml2, whose answer is any node set, or
none. The XPath objects made and freed are counted.

### SortOrder

`str_compare_nat` splits both texts into runs of digits and of other characters,
joins the numbers around a point, and compares run by run. A character is its
code, and a number an integer in units of the last of `Places` decimals; `Eps` is the
code's EPS (1e-10) in that unit. Numbers closer than EPS tie (`LessNumber`), which is
not transitive. `Exact` limits the numbers in a text to fifteen digits, `Places` of
them behind the point: a double tells those apart, and tells differences below
EPS from those above. `sortCallback` goes through the fields, each with a direction,
until one decides; an id always does, so that under DESC(id) two entries with one
id, or with none, are each before the other. `std::sort` (`Specific`) leaves a sorted
list if the comparison is `Consistent` on this list, and any rearrangement if not;
that an element is not before itself is not asked, since libstdc++ never compares
one with itself.

### QueryLog

An entry's life: the id (a read and a write of the counter, as the lock is a
temporary that is gone after its own statement), its arguments through the
loops of `str_replace`, and the block written in the destructor. Each turn of
the loop is a step.

### ThriftCodec, VaeTypes, ThriftRpc, VaeDbService, VaeRubydService, VaeRpc

The generated code is the same few functions for every struct and method, over
different fields. A struct is a table of its fields (id, type), and
`ThriftCodec` has the generated `write` (all fields in the order of the table; of a
result only the one that is set) and `read` (a loop over what arrived: a known id
with the expected type is taken, everything else skipped). `ThriftRpc` has `send_`/`recv_` (`Call`) and
`process_` (`Process`), each of which models the exceptions it handles. The two
service modules instantiate both for every method with its table of arguments
and results, and have the dispatch with its answer for unknown methods.

A connection waits in a queue until one of the server's threads takes it, and
keeps that thread until it is closed. Clients and servers may be built from other
versions of the interface (`Dialects`: fields that are unknown, missing or of
another type). A caller may give up (`Timeout`); one in `Reusers` keeps the
connection, the others close it. `Restart` is the death of a server at any step.

## 3. Runs

| run | states | shows |
|---|---|---|
| `conn_pool` | 2,837 | counter, exclusive use, no lost wake-up, waiters are woken, refinement of `ResourcePool` |
| `conn_pool_gc` | violation | finding 1 |
| `sessions` | 169,219 | scripts keep their sessions, no Session has two handlers, sessions are erased by their own script or after it is gone, abandoned ones are reclaimed |
| `sitewide_lock` | 59,000 | with the code's relation of the times: nothing but a row deleted by age while it was needed breaks the exclusion, no clean-up deletes a holder's row, stuck rows go |
| `sitewide_lock_deployed` | violation | finding 2 |
| `site_registry` | 1,228,688 | what a reload guarantees (`Fresh`), serialised loads, mutexes held by nobody for ever |
| `site_shared` | 359,874 | the query cache's list, index and size agree, and everybody gets the right query; nothing partial is cached on disk or served, and the fallback is kept outside the window; readers of a Context see whole data |
| `site_data` | 476,062 | the load and `~Site` free a document's nodes, attribute lists and Contexts once, and which nodes may be freed again later; staging items cannot be reached, associations show both ways; queries start at the node they name and free their objects; indexes in range, pages and groups partition the list, `last()` is its tail; where the order is a strict weak one, and numbers by value; ids name their responses |
| `responses_zero` | violation | finding 3 |
| `caches` | 421,150 | when memcache can be stale and when not, sets are not lost; no site disturbs another's session values, and which entries of memcache two sites share |
| `thrift` | 51,458 | arguments, results and exceptions of every method arrive, across versions; replies belong to their calls; the streams are in step between calls; a call that has a thread returns |
| `query_log` | violation | finding 4 |

### Bounds

- Pool: three workers and the Reaper over zero to two connections. Two threads
  hold, two wait, and a barger can take what a woken waiter comes for.
- Sessions and lock: two slots, used again and again, so that any number of
  scripts follow each other; two ids or subdomains; timeout 2, delay 1 and a
  reap time of exactly 3, where every off-by-one shows. The row lifetime is 2, the
  timeout, as in the code (60 seconds each). The proofs cover all other values.
- Registry: one subdomain (subdomains share nothing but `sitesMutex`) in both
  modes, two workers, the Bus and one reload thread, two generations. A second
  reload thread would be a second copy of the Bus's role. No symmetry: it is not
  sound for the liveness property of this run.
- Transfers: three threads, two generations; a third thread falls back
  while two replace the file.
- Paging: lists of up to four nodes, every filter over them, skip, groups and
  paginate from -2 to 4, pages to 8. `IntMax` is 31, so that the products and
  sums do overflow.
- Responses: three, ids from -1 to 4.
- Long term cache: two workers, two keys, two values: all overlaps of two calls.
- Query cache: three workers, three keys, two places, so that two workers can
  race for one key while a third evicts. The text is the same for all keys.
- Session cache: two workers, two sites with one session id between them, two
  values. Memcache keys: one site's name is the other's with "LongTerm2" behind it, and
  keys are such that pairs of site and key would give the same text if nothing
  separated them.
- Documents: three items in every tree, up to two associations in one and one in
  the others, to items that exist or do not, in some documents to an association;
  no staging item, or the second or third, and an association with that attribute;
  with and without white space between the elements; live and staging mode. Cycles,
  associations with oneself, twice with the same item and with one's parent are
  among them. One node is held by an XPath object (`MaxHeld`): objects do not affect
  each other.
- Contexts: three workers, two fields, a path and one that is not XPath. Queries:
  up to three parts, with permalinks that are prefixes of each other.
- Order: twelve texts with digits, points and letters, lists of three contexts, one
  of which may be in the list twice, and of two without an id. With two decimals
  and an EPS of 0.09, 1.11 and 1.12 tie with each other, and 1.12 with 1.2, and 1.11
  does not.
- Thrift: in some behaviours one client calls every method of both services, from
  the same, an older, a newer and a retyped interface; in the others two clients
  compete for the one thread of a server, the second of which keeps its
  connection after a timeout. Methods share no state, so that more of them at
  once would show nothing new. Two messages may be in flight.
- Query log: two workers, an argument without special characters and one with a
  quote.

Symmetry is used only in runs without liveness, over sets of model values that
no definition orders or picks from.

### Fairness

- `ConnPool`: a thread that has a connection uses it and gives it back (MySQL and
  memcached answer or time out, and the scheduler runs every runnable thread).
  Nothing is assumed of threads that compete for the mutex: `WaiterWoken` says
  that a waiter is woken, not that it wins.
- `Sessions`: time passes, PHP ends every script, handlers return, the Reaper
  thread runs.
- `SitewideLock`: time passes, scripts end, statements return. `StuckLockFreed`
  also assumes that callers keep being refused and cleaning up, because nothing
  else removes a row.
- `SiteRegistry`: S3 answers or times out, and a thread that holds a site's mutex
  runs. Nothing is assumed of who wins a mutex.
- `VaeRpc`: a thread goes on with the connection it has (handlers return), and a
  caller reads what has arrived. Not assumed: that a client closes its
  connection, and so that a waiting connection gets a thread.
- `QueryLog`: every worker goes on; the counterexample is one that goes on for ever.

`CHECK_DEADLOCK FALSE` is in `MCSiteData.cfg` only: a client stops after its last
page, and a query ends. The pool with no connections does not count as a deadlock of the
model because waiters may wake spuriously.

## 4. Proofs

Proved by TLAPS for any number of threads, scripts, ids and connections, and
any times that satisfy the assumptions.

**ConnPoolProofs.** Assumes finite sets of threads and connections, connections
that are numbers (`std::map` orders them). `CounterMatchesPool` is not inductive:
that freeing adds exactly one FREE entry needs the freed one to be INUSE, which
needs `ExclusiveUse`, which needs `HeldInPool` (a thread has a connection exactly
at the program points between take and free). `NoLostWakeup` counts woken
threads against free connections. `Inv` is the conjunction of these with
`TypeOK`; `PoolInvariant` proves it, and `CounterCorrect`, `Exclusive`,
`WakeupsSuffice`, `ThrowIsDead` follow. `Refinement` proves that every step of
`ConnPool` is a step of `ResourcePool` or invisible there.

**SessionsProofs.** Assumes `PhpTimeout + Delay <= ReapTime`, which is the comment
on `SESSION_REAP_TIME` and holds for the deployed 60, 2 and 62. `OwnSession` needs:
a session is not older than its script (`Younger`); a script and its calls are
over in time (`Timely`); what the Reaper condemned before it took the mutex is
still too old when it has it, because a session opened in between is not
condemned (`Condemned`); a session is under the id its script was told and
nowhere else (`Placed`). Proved: `ScriptsKeepSessions`, `SessionsNotShared`,
`OnlyOwnErased`, `TypeCorrect`.

**SitewideLockProofs.** `MutualExclusion` does not hold with the times of the code
(finding 2). `LockExcludes` says, with nothing assumed about the times, that it fails
in one way only (`ExclusiveUnlessOverrun`). Unless its site was overrun, a holder's row
is in the table (`Held`) and an unlock under way deletes the caller's own row
(`Unlocking`). `HoldersKeepRows` assumes `PhpTimeout <= LockTTL`, which the code has (60
seconds each): a purge spares a holder's row because a row is not older than its
script (`RowYounger`) and a running script not older than its limit (`Timely`). So the
first row to go too early is always that of an unlock under way. Proved:
`LockInvariant`, `LockExcludes`, `HoldersKeepRows`.

**SiteRegistryProofs.** Assumes what the constants stand for (a placeholder is
none of the things it is used beside; the three kinds of thread are different).
That `getSite` never replaces a site takes the discipline of the site's mutex: whoever
may publish a key at its next step holds the mutex of the key (`Held`), and what a
worker did not find stays missing while it holds it (`Absent`). That a reload is not
undone (`Fresh`) takes how old the copies under way are: a copy that no reload
overtook is as new as what reloads have handled (`Current`), and none is ahead of S3
(`Past`). Proved: `ReloadsHold`, `LoadedOnce` (an action property), `TypeCorrect`.

**SiteCachesProofs.** `Coherent` speaks of keys with no call on them, so it must be
carried through the calls: a call that is still alone is the only one on its key
(`OnlyCall`) and knows its row (`KnowsRow`); on a key without a doubt a write is
alone (`OneWrite`), and while only gets are under way nobody has or brings another
value (`NoStaleFill`). For the session cache, what counts as stored is in a row that
no call of the same session is about to delete (`StoredStays`). In memcache an entry
belongs to the name and key that are in its full key (`OwnEntries`), because
different pairs of name and key give different texts (`FullKeyInjective`). That needs
the assumption that no subdomain has a colon; subdomains are DNS names. A name is a
subdomain, or one with "LongTerm2" behind it, and different subdomains have different
long term names (`LongTermNameInjective`); what is left is the one collision that
`SitesApart` names. Proved: `EntriesMatchRows`, `SetsKeepKey`, `SitesKeepApart`.

**SiteSharedProofs.** Query cache: `IndexMatchesList` counts, and counting survives an
eviction only if no key is in the list twice and the index has an object exactly for
the keys of the list (`Indexed`); `RightQuery` needs that every entry was built for its
key, which is in `Indexed` too. Transfers: a text that is cut is one whose transfer
failed or whose write error nobody saw (`CutByDisk`), and who is about to replace the
cache has a file to replace it with (`HasFile`). Context: the mutex is with whoever
fills or looks up (`Holder`), the flag is set last (`FlagLast`), and nobody is past the
flag before the map is full (`Readers`). Proved: `IndexIsList`, `QueryForKey`,
`WholeObjects`, `FallbackStays`, `MapIsWhole`.

**SiteAnswersProofs.** Assumptions, each of which TLC evaluates on `MCSiteData`: the ids
of items are the texts that are numbers (`RunAssumption`); an item of a document
comes after the one it is nested in, and has at most `MaxLinks` associations
(`DocumentAssumption`); sizes and options are ints (`PagingAssumption`); lists and orders
are of the types of `SortOrder`, with texts that are `Exact`, and `Eps` is at least 1
(`OrderAssumption`).

- *Query.* One XPath object at most exists while the constructor runs (`Balance`), and
  at each of its steps the rest of the text and the node are those that the
  specification of the starting point has reached (`Progress`); the loop over the
  prefixes of a permalink finds the longest (`LongestKnown`). Proved: `NoObjectLeft`,
  `RunsFromNamed`.
- *Responses.* `IdsNameResponses` is inductive once the vector is typed (`IdsInv`). Proved:
  `IdsStay`.
- *Loading.* None of `FreedOnce`, `StagingHidden` and `Mirrored` is inductive: whether the
  destructor frees a node twice depends on which lists the node is in and who shows
  them. `LoadInv` says that for every phase. After the parser nothing has been done
  (`JustParsed`). While associations are linked, those left to do are of kept items,
  each once (`Left`), the known ids are those of kept items (`Registered`), every list holds
  each node that is present and belongs there once and no other (`ListsHeld`), what
  came with the feed and is gone has been freed and its Context deleted once
  (`FreedSoFar`, `DeletedSoFar`), an association and its pointer node show the lists of its
  target and of its own item and are on the lists of nodes to clean (`Shared`), pointer
  nodes are recorded with the item they stand for (`PointersOwned`), and in indented
  documents lists keep their first node and pointer nodes know the last (`Edges`). After
  `CutOpen` no list is shared; after `Free` everything has been freed once (`AllFreed`).
  That is `TreeInv`. Beside it stand what views begin with (`StartsInv`), who has which
  attribute list and which of them are freed (`AttrInv`: before the cut an association
  that was set up has lost its own and shows its target's, after it every list that is
  left is at its own node only), which nodes XPath objects hold and how often those were
  freed (`HeldInv`), and what has led to an association with an association
  (`CorruptInv`). What
  the destructor meets, and what can be reached, is the least set that has the root
  and is closed under going to children (`ReachableIs`); every list is met once when none
  is shared. Lists are put together by `FlattenSeq`; facts about it, and about the
  recursive functions, go by a least counterexample, since no induction rule
  can be instantiated. Proved: `LoadInvariant`, `NodesFreedOnce`, `StagingNotReached`,
  `AssociationsMirrored`.
- *Paging.* `NodesInRange` needs integers from every operator of the arithmetic, also
  from the loop over groups; `Recursion` proves that a function given by a value
  at 0 and a step has values of the right kind everywhere. For `PagesPartition` and
  `GroupsBalanced` the list that a client means (`Wanted`) is put beside the three ways in
  which the code cuts a page: each gives a slice of `Wanted`, adjacent slices join to a
  slice, and so what has been seen is the beginning of `Wanted` (`PagesInv`, `GroupsInv`). The
  loop over groups deals to group j what division with remainder says. Proved:
  `PageInRange`, `PagesDisjoint`, `GroupsDealt`.
- *Order.* A comparison is the first difference that is not zero in a sequence of
  differences (`Lead`). If every difference is antisymmetric and transitive, so is the
  first one; this fact (`LeadThrough`) lifts the order from characters to texts, from
  tokens to sequences of tokens, and from fields to `sortCallback`. A numeral is cut
  and merged into an empty token, one number and, without a point, an empty token;
  texts that are numerals are therefore compared by value. Numbers closer than EPS
  break the transitivity of one difference and so of everything above it: the lifting
  is done for texts of which no two are `Close`, on which the ties by EPS are ties of
  equal numbers. `Repeated` is shown to be the only way in which two contexts can each
  be before the other. Proved: `OrderConsistent`, `NumeralsOrdered`.

**ThriftProofs.** Assumes that there is a service, and that dialects are the four of
`InDialect`. `ReplyOfThisCall` is carried by `RpcInv`: of a careful client's call
exactly one thing is under way, the call, its run or its reply, and it is of the call
the client waits for (`OneUnderWay`); a reply carries the name of its run
(`NamedByRun`). For `ArgsArrive` and `OutcomeArrives`, `CodecInv` says that whatever is
under way was written from the tables it will be read with (`Carries`, `Reports`).
Behind that are facts of the codec for every table whose fields have names and ids of
their own: `Trip0` to `Trip2` (a filled struct is read as it was written, level by level of
nesting), `ArgsTrip` (the arguments, through each dialect), `ResultTrip` (each outcome, through
the one field of a result that is written). `ArgTables` and `ResultTables` show that the
52 tables of the two services are such tables, and `ClientCalls` and `ServerDispatches` that every
client and server step is one of an offered method with its own tables. Proved:
`StreamsInStep`, `AnswerIsOwn`, `ArgumentsArrive`, `OutcomesArrive`.

Only model-checked: the liveness properties (`WaiterWoken`, `Reclaimed`, `StuckLockFreed`,
`MutexReleased`, `ServedCallReturns`, and finding 4), because fairness is out of the proof
system's reach. Every other property of a passing run is stated by a theorem.

## 5. Findings

1. `conn_pool_gc`: `garbageCollect` declares its statement before its connection
   (`mysql_proxy.cpp:84-85`), so the connection is FREE, and may be in use by a
   worker, while the Reaper still closes a statement on it.
2. `sitewide_lock_deployed`: rows live for one minute (`mysql_proxy.cpp:252`), which
   is the PHP timeout without the margin that the comment at `reaper.cpp:4` asks
   for. A killed script's late `unlock` can then delete the next holder's row,
   and two scripts hold the lock. `LockExcludes` shows that this is the only way.
3. `responses_zero`: `data` and `structure` accept response id 0 and read before the
   start of the vector (`session.cpp:41`, `82`).
4. `query_log`: `str_replace` (`query_log.h:15-16`) goes on one character after the
   place of a match, and `ValueRep` replaces a quote or backslash by a text with the
   same character in second place. With the query log on, a call whose argument has
   one never ends; its string grows until memory is used up.

Facts that the passing properties had to make room for:

- With a filter, `groups` and `page=last()` are computed from the unfiltered size:
  `GroupsBalanced`, and `PagesPartition` for `last()`, are about lists without one.
- A reload does not stop a load that read the old feed before it (`Fresh`).
- After `longTermCacheEmpty` or the sweeper memcache keeps serving the rows for up
  to a day (`Coherent`).
- A site's session cache loses a set, silently, when another site has a row with
  the same id (`SitesApart` is about values that did get stored).
- The long term cache of a site `x` and the short term cache of a site `xLongTerm2` share
  their keys in memcache (`vae_db_handler.cpp:281`, `369`): each can serve, overwrite and
  remove the other's entries (the exception in `SitesApart`; `ForeignSet` for `Coherent`).
- XPath objects that are kept until after `xmlFreeDoc` may free nodes a second time
  (`site.cpp:48`, `query.cpp:115`, `main.cpp:58`), and an association that names an
  association leads to lists that are freed while they are shared: the two exceptions
  in `FreedOnce`.
- Under a descending order by id each of two entries is before the other if they are
  one Context, as an item and an association with it are, or have no id
  (`response.cpp:318`; `StrictWeakOrder` says for exactly which pairs).
- Numbers that differ by less than EPS tie with each other and not with the same
  others (`util.cpp:105`): the order is then not transitive, which `StrictWeakOrder`
  shows to be the only reason for that. `std::sort` may leave anything, so that
  `NumeralsByValue` speaks of the result only where the comparison is consistent.
- `page=last()` adds up to an int that may overflow: `PagesPartition` for `last()` is about
  sums that fit.
- In a document without white space between its elements a shared list may begin
  or end with an association that is later not found and freed. `Mirrored` names the
  freed first node that is still pointed to, and claims nothing about ends there.
  `Site::nodes[0]` may be such a node too, and a client may ask for the id 0.
- A client that uses a connection again after a timeout may take the late reply
  for the answer to a second call of the same method (`ReplyOfThisCall` promises
  those clients only that it is of the same method).

## 6. Plan

Done: the modules above, in the order pool, sessions, lock, registry, paging,
responses, transfers, long term cache, query cache; then Thrift, session cache,
query log, sort order, site loading, context data, queries.

Proved: the pool with its refinement, sessions and lock; then the registry, both
caches, the query cache, transfers, contexts, queries, responses, the range of pages, and
the Thrift services with their codec; then site loading and `~Site`, pages and groups,
and the sort order.

Next, models: an abstract site cache for the registry to implement, and a
composition of `SiteRegistry` with `S3Transfer` in place of `ReadFeed`'s choice.

## 7. Not modelled

- The response writers and `createInfo`'s contents: copying into Thrift structs.
- The regular expressions that rewrite predicates, XPath itself, and
  `runDesignQuery`: text work whose result only libxml2 knows. The table of
  structures and the contents of fields and attributes.
- The RAND() order and the way filters match.
- What is memory only: a load that fails at its end (`site.cpp:125`) frees nothing of
  what it built; `SiteLoad` has such loads and no property about them.
- Errors of `boostfs::remove` (`s3.cpp:60`, `64`), which would leave `read_s3` by an
  exception, as a cache directory that may not be written would give; the end of memory,
  except where `xmlCopyNode` reports it.
- What follows an association with an association, and reorderings of unlocked reads
  and writes of `dataPopulated`.
- Operations of `lru_cache.h` that VaeDB does not call.
- `main.cpp` beyond the server it sets up, and the logger.
- The PHP and Ruby code generated from the same `vae.thrift`, vendored libraries,
  the handlers of VaeRubyd (`rb/`, one library call each), `bot/` and `watchdog/`.
- MySQL, memcached, S3, PHP, ZeroMQ and the Thrift run time are external: modelled
  by what the code relies on and what it handles (failures, lost answers,
  repeated messages, timeouts).
