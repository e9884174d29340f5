# weather-rtos in TLA+

weather-rtos carries weather observations from collectors, over a hierarchy of
TCP aggregators, to a writer that stores them in TimescaleDB; a second program
compares a person's telemetry with a baseline in real time. These modules model
the parts of it whose correctness depends on an order of events: queues between
threads, a duplicate cache, an outbox file that outlives crashes, sockets that
are closed and reopened, a lock-free ring, an in-process broker, a query service
that reads while the writers store. TLC checks them on small instances, and TLAPS
proves every safety property of the passing runs for every value of the constants
(section 4); liveness is model-checked only.

Paths below are relative to the repository (`src/` is its root).

## 1. The system

```
collectors (poll threads -> queue -> sender)
     | TCP, one JSON line per envelope
aggregators india / asia / hierarchical / RegionalGateway   (receive thread per client
     |                                                        -> one shared publisher)
timescale_writer
     receive threads -> AsyncQueueWriter (region queues) -> main thread
       -> TimescaleBatchWriter (pending queue + duplicate cache) -> batch thread
         -> TimescaleDbClient -> PostgreSQL   or   outbox file, replayed at a start
map_query_api  -> SQL -> PostgreSQL           (HTTP, for the browser applications)
personal_comparator
     server -> ring -> comparator (SCHED_FIFO) -> ring -> sync worker -> PostgreSQL
```

### Inventory

| component | state | operations | talks to | what is hard | what makes it correct |
|---|---|---|---|---|---|
| Collectors (`collectors/*/main.cpp`) | `weatherQueue`, `running`, one mutex, one condition variable | `pollCity` per city, the sender loop | libcurl; `TcpBrokerPublisher` | three conditions share one `notify_one`; the signal handler notifies nobody; publishing has no timeout | the bound, order per city, nothing vanishes while running, every wait on the condition variable ends |
| TCP hop (`TCPSocket`, `TcpSubscriber`, `TcpBrokerPublisher`) | sockets, `connected_`, the thread vector, the shutdown eventfd | connect, send, accept, receive a line, close | the process of the next tier | timeouts inside a frame, short sends, reconnection, restarts, one eventfd for many waiters, calls without a timeout, SIGPIPE | frames mix only behind a short send, at most once, a loss has a cause, shutdown ends |
| Shared publisher (aggregators, `RegionalGateway`) | `connected_`, `socketFd`, the listening socket's `clientFd`, the kernel's descriptor table | `publish_to_topic` from several threads, `acceptClient`, the destructors at shutdown | the next tier | no lock: a descriptor closed by one thread is reused by another; every system call may fail; the listening socket closes a number it no longer owns | no leak, a call fails only for a reason, clients do not disturb each other |
| timescale_writer: queues (`AsyncQueueWriter`, `TimescaleBatchWriter`) | region queues, the dequeued batch, `pending_`, `seenIds_`, `idOrder_`, counters | `submit` (twice), `dequeueBatch`, `submitBatch`, `drainAndSubmit`, take a batch, joins | the hop; the database client | three kinds of threads, two mutexes, backpressure at two queues, eviction, shutdown | memory bounded, order per region, nothing twice in a batch, counters add up, shutdown ends |
| timescale_writer: durability (`flushBatch`, `TimescaleDbClient`, outbox) | connection, open transaction, outbox file | `buildBatchSql`, `executeBatch`, `rollback`, append, `replayOutboxIfPresent` | PostgreSQL, the file system | crash at any statement, COMMIT without an answer, refused statements, writes cut half way | what was reported as flushed is stored or in the outbox; a batch is never split |
| SQL rows (grouping, averages, hazard score) | the city, tile and route tables | per batch: city minutes, tiles, routes | `schema.sql`, `map_phase1.sql` | grouping keys and primary keys differ, which columns are merged and which replaced | aggregates agree with the raw rows |
| Lock-free ring (`LocklessRingBuffer`) | slots, `head_`, `tail_` | `push`, `pop` | personal_comparator | acquire/release interleaving | FIFO; a slot is never shared |
| personal_comparator | two rings, `running`, the connection | server, comparator, sync worker, main | PostgreSQL, telemetry clients | full rings, an INSERT that fails or hangs or whose answer is lost, who ends the process | arrival order, every event accounted for, the actuator exact |
| Validation pipeline | two counters, one mutex | validate, count | receive threads | - | what it admits keeps every score on its scale |
| In-process broker (`InProcessBrokerSubscriber`, `InProcessBrokerPublisher`) | three static maps from topic to queue, mutex and condition variable; the registry mutex | `publish_to_topic` from every receive thread, the consumer's `run` | `aggregator/asia/main.cpp`, which has a `main()` but no CMake target; the validation pipeline | the maps are indexed, and may grow, outside the registry mutex; the condition variable is never waited on | every envelope once and in order; threads race only until the maps exist; a burst is worked off |
| FlowController, CgroupV2Manager, ZeroCopyTransfer | token count; none; one mapping | acquire/refill; system calls | FlowController: nobody; the others: the benchmark | refill stores over a concurrent acquire | - |
| map_query_api, `TimescaleReadClient` | none beyond a request; one temporary file | HTTP requests turned into SQL by one detached thread each | PostgreSQL, browsers | late observations, threads that overtake each other, requests of two statements, LIMITs, the shared temporary file, exit with threads at work, SIGPIPE and an exception nobody catches | answers belong to their request and are not older than it; the service ends |
| MapAnalytics | none | formulas | log | - | the same scales as the writer's |
| Metrics | counters | one HTTP thread | Prometheus | - | - |
| Simulator, tools, browser applications | - | load, scripts, rendering | - | - | - |

`PROJECT.json` lists each of them with its status, and every hazard with its line.

## 2. Modules

| module | models | state ↔ code |
|---|---|---|
| `TimescaleWriter` | receive threads, main and batch thread of timescale_writer | `queues`, `pending`, `seen`, `idOrder` are the members of the same names (with `_`/`Ids_`); `hand` is the batch local to `dequeueBatch`/`drainAndSubmit`, `flight` the one inside `flushBatch`; `rpc`, `mpc`, `bpc` say where each thread is; `cursor` is the map iterator |
| `TimescaleWriterProofs` | theorems about it | |
| `OutboxStore` | `flushBatch`, `executeBatch` in both builds of the client, replay, the server's transaction, the file | `libpq`: which build; `text`/`pos`: the SQL text and the next statement; `raw`, `agg` committed, `wraw`, `wagg` as the open transaction sees them; `file`: the outbox |
| `OutboxStoreProofs` | theorems about it, the refinement of `BatchLog` included | |
| `BatchLog` | abstract: batches become visible as a whole, a backlog is discarded only when visible, and nothing is promised once the backlog was damaged | `OutboxStore` implements it |
| `RiskFormulas` | hazard score, primary hazard and delay factor of an observation (`TimescaleBatchWriter.hpp`), the pipeline's variants (`MapAnalytics.hpp`), the ranges `validatePacket` admits | none: pure operators |
| `MapQueryApi` | main thread and connection threads of map_query_api with all its endpoints, both builds of `TimescaleReadClient` and a service without a database, the city, tile and route tables as timescale_writer fills them, the comparisons as personal_comparator does | `tiles`, `cities`, `routes`, `compared`: the tables; `pc`, `req`, `todo`, `reply` of each connection's thread: its handler, the statements still to execute and the response; `file`, `writers`: the temporary file and the streams open on it. `overlap`, `known` are history |
| `MapQueryApiProofs` | theorems about `RiskFormulas` and `MapQueryApi`, and about the folds they need | |
| `SpscRing` | `push` and `pop`, one step per shared access | `head`, `tail`, `buffer`; `ppc`, `cpc` |
| `BoundedFifo` | abstract: a FIFO of bounded length | `SpscRing` implements it; `PersonalComparator` relies on it |
| `PersonalComparator` | its four threads over two FIFOs | `ingest`, `sync` are the rings; `link` how the worker reaches the database: `up` or `broken` with libpq, or `psql`; `table` the rows. `refused`, `reported` are history |
| `PersonalComparatorProofs` | theorems about `SpscRing`, the refinement of `BoundedFifo` included, and about `PersonalComparator` | |
| `TcpHop` | publisher, wire, accept loop and receive threads, restarts, a port that is taken | `frame` is `message` in `receiveMessage`; `far`, `near`: the two ends of a connection; `event`: the eventfd; `writer`: is the receiving process timescale_writer, which passes an eventfd, or an aggregator. `via`, `short`, `cut`, `consumed` are history |
| `TcpHopProofs` | theorems about it | |
| `SharedPublisher` | `publish_to_topic`, `connectToServer`, `closeConnection`, `sendMessage` one member access at a time; `acceptClient` and the shutdown of a gateway | `connected`, `socketFd`, `clientFd` of the listening socket, and the kernel's `table`. `sent`, `failed`, `hit`, `strayed` are history |
| `SharedPublisherProofs` | theorems about it with one thread | |
| `Collector` | poll threads, sender, the condition variable | `queue`; `pollPc`, `sendPc` say where each thread is, waits included |
| `CollectorProofs` | theorems about it | |
| `InProcessBroker` | the Asia consumer: TCP thread, receive threads, the broker, its consumer, `main()` | `nodes`: what a lookup in each static map finds; `uses`: the references a thread holds; `owner`, `queue`: the mutex and the `std::queue` of a node; `at`: where each thread is. `pushed`, `consumed`, `scanned`, `raced` are history |
| `InProcessBrokerProofs` | theorems about it | |
| `MC*` | the constants of the small instances | |

One action is one critical section, or one access to memory that no lock
guards. So `TimescaleWriter` takes a whole `submit` in one step (it holds one
mutex throughout), while `dequeueBatch`, which holds `queueMutex_` over the
batch, takes one step per envelope with the mutex held (`QueueLocked` keeps
`submit` out): the batch thread, which uses another mutex, can move in between.
`SharedPublisher` has no mutex to go by, and takes one step per member access;
`InProcessBroker` takes a lookup that inserts, a push and a pop in two halves.
Names that begin with `Mut` are deliberately wrong variants of the definition
that follows them; nothing uses them, they record which mistake each property
would find.

Lines 346-362 of `TimescaleBatchWriter.hpp` do not compile in this commit: the
beginning of the `rawRows.push_back` is missing. `BatchSql` models what they
evidently mean, one raw row per envelope.

Both database clients exist in two builds, with libpq and with a psql child process
for each text or query. `OutboxStore` and `MapQueryApi` model both: a variable
(`libpq`, `client`) that is chosen in `Init` and never changes says which.

How the modules fit together:

- `TimescaleWriter` abstracts `flushBatch` to its outcome (`durable` or
  `dropped`); `OutboxStore` models it in full. `OutboxStore` in turn assumes that
  a batch holds no id twice (`DistinctAssumption`), which is
  `TimescaleWriter`'s `NoDoubleCount`, proved there.
- `PersonalComparator` uses FIFOs of `RingBound` items, which is what
  `RingImplementsFifo` proves of the rings with `RingBound = Capacity - 1`.
- `TcpHop` has one publishing thread per connection; `SharedPublisher` looks at
  the publisher with several. The sender of `Collector` is its only thread, the case
  `SharedPublisherProofs` is about. That `connect()` and `send()` may block for ever shows in
  the fairness of `Collector` and `TcpHop`.
- `MapQueryApi` takes a transaction of the writer as one step, which is what
  `BatchLog` promises, and computes the route rows with `RiskFormulas`.
- The receive threads of `InProcessBroker` get whole envelopes, one at a time, which
  is what `TcpHop` shows (`FramesPure`).

Measurements are doubles in the code and integers in `RiskFormulas`; a norm is an
integer in 0..400, a multiple of all divisors of the code, so that no result is
rounded. `OutboxStore` has a history variable, `torn`, which is set by the first
write to the outbox that stops half way: some properties hold up to that moment.

## 3. What TLC checks

| run | shows | bounds, and why they are enough |
|---|---|---|
| `writer_safety` | memory stays bounded at every stage, order within a region, fair round robin, counters add up | two receive threads, three ids in two regions, queues of 3, batches of 2, four arrivals: both queues fill up, a batch leaves a rest behind, two threads race for the last place, a duplicate meets its first copy in every place |
| `writer_live` | the duplicate cache under eviction, no id twice in a batch; termination; nothing stays in memory for ever | cache of 2 with three ids and four arrivals: an id is forgotten and comes back. Queues and batches of 1 fill at once |
| `writer_drain` (violated) | see findings | one receive thread |
| `outbox_safety` | in both builds, acknowledged batches are kept, aggregates agree with the raw rows, `BatchLog` is implemented; after a torn write the aggregates still only speak of committed rows | three flushes of batches that share a bucket, touch two, or are refused, and two restarts: an outbox with several texts, a replay after newer batches, a crash between COMMIT and truncation, a torn text, the one that closes it, and one after it |
| `ring` | FIFO, slots not shared | capacity 4: full, empty and wrapped around; all states of both threads |
| `comparator` | order, completeness (a loss leaves a message or a row, over libpq), the actuator, ingested events get compared, a failed setup ends the process | rings of one item, four events: both are full at once while the worker and the comparator hold one each; two readings with one timestamp; an INSERT that fails, one whose answer is lost, one through psql |
| `hop` | frames mix only behind a short send, at most once, what is answered true is lost only for a cause the property lists, the receiver ends after a signal if the calls of `consume()` return, also when its port was taken | two connections, three envelopes, one short send, two starts of the receiver, the sender stopped and started at will: a timeout inside a frame followed by another frame; a line of two envelopes; a crash with unread bytes; a new connection while the old receive thread still reads what a dead sender left |
| `publisher_one_thread` | no socket is leaked, `connected_` is not stale, failures have a reason, and the number the listening socket closes at the end is never a socket the publisher still uses | three descriptors, which clients take and give back as well, five envelopes, three resets, closings, refusals or failing calls in any order: a refusal after a reset after a `setsockopt` that failed; a send into a closed connection and the SIGPIPE of the next; a publisher that reconnects to the number of a client that has left |
| `publisher_gateway` (violated) | see findings | two clients, no reset at all |
| `broker` | an envelope published is delivered once and in order unless threads raced for the maps; they can only do so until the consumer has been through the maps once; a burst is consumed without further notifications; the process ends after a signal | two receive threads, three envelopes: three threads meet at each of the three maps, before and after each insertion, and at the queue |
| `collector` | bound, order per city, nothing vanishes, the queue moves and rounds go on, shutdown | two cities with two packets each, queue of 2: both poll threads wait for room while the sender runs, and the one notification, a step of its own behind the unlock, goes to any of the three |
| `map_api` | answers are about what was asked and about one minute, never older than the request but for what is behind a LIMIT, rows count all observations of their batch with their key (of one country, where there are two), delay and hazard stay on their scales, the service ends while clients keep threads waiting | two connections, two requests, from the sets in `Mixes` (every endpoint that executes a statement, a body that is missing, cut or mistyped, two profiles), up to four observations in two minutes in the batches of `Batches`, with the mildest and the worst weather `validatePacket` admits, in a region that two countries have, and LIMITs of one row: a late observation, a group of two, two groups of one key, a row replaced, a series and a list of comparisons that are cut, two queries that meet in the temporary file at every point (1.3 million states) |

All counters that would grow for ever are capped in the guards by a constant
that begins with `Max` (arrivals, flushes, crashes, messages, resets, restarts,
packets, events, requests; `Conns`, and `Threads` of `MapQueryApi` likewise).
`MapQueryApi` has four more bounds: all clients of a behaviour ask what is in one
set of `Mixes`, so that requests meet which have something to do with each other; the
batches are those of `Batches`; nothing is stored that none of the clients will ask for
(`Wanted`); a new thread gets the first free name. The LIMITs of its statements (2000
buckets, 50 comparisons) are constants. Behind a race `InProcessBroker` follows only the envelopes that were on their way.

Every detailed module has a type invariant `TypeOK`. The runs check it where it says more than
the types (bounds of `TimescaleWriter`, the queue bound of `Collector`).

### Fairness

- timescale_writer: every wait in the code is a `wait_for` or a `poll` with a timeout,
  and no critical section blocks, so each thread keeps taking steps: weak fairness for
  each thread. A call of the database client is taken to return, with an answer or an
  error. No fairness is assumed of signals and arrivals.
- collectors: weak fairness for the poll threads (libcurl has a timeout) and for the
  sender outside of `publish_to_topic`. Inside it `connect()` and `send()` block as long as
  the next tier lets them (`TCPSocket.cpp:264`, `:281`): no fairness. So `KeepsGoing` and
  `ShutdownCompletes` promise unconditionally only what the poll threads do; that the
  sender gets to every packet, and that main's joins return, is promised if publishing
  returns (`PublishReturns`). A next tier that stops reading keeps main in its join for ever.
- `TcpHop`: accept and receive wait for at most a second at a time. `consume()` returns in
  timescale_writer (it puts the envelope in a queue or refuses it); in an aggregator it
  forwards the envelope by such a `connect()` and `send()`, so it has no fairness there,
  and `ShutdownCompletes` is promised if the calls return (`ConsumesReturn`). No fairness
  for the sender.
- personal_comparator: the comparator runs under SCHED_FIFO, the worker's INSERT
  is assumed to return (with a row or an error), main waits in `join`. The server waits for a client
  without a timeout (`recv`), so it has no fairness.
- map_query_api: main polls for at most a second. Nothing is assumed of the threads
  of the connections: a client may send nothing for ever, and the service ends all
  the same, because nobody waits for them.
- In-process broker: every thread waits with a timeout or for a mutex that is held
  for a few instructions. A receive thread gets the mutex of the topic while the
  consumer sleeps without it: strong fairness of `Lock`, without which the scheduler
  might let the consumer poll an empty queue whenever the thread tries.

`EventuallyFlushed` holds because the batch thread's loop has a timeout; with
notifications alone a batch would wait. The liveness of the collector
(`KeepsGoing`) is likewise carried by the timeouts alone:
`NotifyOne` wakes any one waiter.

### Findings

Two runs show that the program does not do what its own text says:

1. `DrainedAtExit`. `drainAndSubmit` ("Drain all remaining messages on
   shutdown", `AsyncQueueWriter.hpp:224`) may hand the envelopes to the batch
   writer after the batch thread has made its last drain and ended. They stay in
   `pending_` and die with the process.
2. `ClientsNotCoupled`. The receive threads of a gateway share one publisher
   without a lock; with a next tier that is always there an envelope of one
   client can fail because another client's thread closed the socket
   (`docs/ARCHITECTURE.md:179`: "avoids coupling client traffic together").

The models also contain these behaviours, which no run singles out:

- a refused envelope is dropped and counted, never retried, although
  `AsyncQueueWriter.hpp:205` speaks of automatic retry (`PendingFull`);
- a replay replaces `observation_count` and the averages of a newer batch with
  those of an older one; only the extremes are merged (`ExecUpsert`);
- nobody looks at the outbox stream after a write, so a text that was cut stays in
  the file without its COMMIT (`OutboxTorn`). With libpq the COMMIT of the next text
  commits its raw rows without their aggregates, where `docs/ARCHITECTURE.md:150` says
  "in the same batch transaction"; a psql that ends at the cut rolls it back.
  `ImplementsLog` and `AckedKept` speak of a file that was never cut, `AggregatesObserved` also
  of one that was;
- with psql, a text the server refuses early may be refused while it is still being
  written: the write to a psql that has ended raises SIGPIPE (`TimescaleDbClient.hpp:219`),
  which is one of the crashes of the model. A refused text of the outbox is replayed
  at the next start, so this may repeat for ever;
- a batch that could be written neither to the database nor to the outbox is lost
  (`OutboxNotOpened`, `dropped`); its ids stay in the duplicate cache, so a copy that is
  sent again is ignored as a duplicate (`SeenWasTaken`);
- the comparator waits for the worker when `syncQueue` is full, so it is not
  wait-free (`personal_comparator/main.cpp:129`, `ComparePush`);
- over psql, an INSERT of personal_comparator that fails leaves no trace: output and status
  are thrown away (`personal_comparator/main.cpp:222`). `EveryEventAccounted` says so
  (`LossTraced` speaks of libpq);
- `sendMessage` takes a short send for a whole one, so the next line is two envelopes in
  one, and both are lost (`SendShort`); the first send into a connection the next tier has
  closed is answered true and lost (`SendIntoClosed`);
- a second send into a connection that the next tier has closed raises SIGPIPE,
  which kills the sender (`SendKilled` of `TcpHop`); so does an answer of
  map_query_api to a client that has reset its connection (`SendKilled` of
  `MapQueryApi`);
- `GET /v1/map/tiles` selects `primary_hazard` from the tile table, which has no
  such column (`TilesColumns`, `TileColumns`): PostgreSQL refuses the statement,
  and the answer is always the empty fallback. Its parameter `at` is returned as
  `as_of` and has no influence on the rows;
- `POST /v1/routes/risk` without segments asks for `<route>.segment_1` and `_2`, which no
  collector writes (`AskedSegments`). A route without rows in the newest minute is
  answered with a delay factor of 0, an arrival 60 minutes early
  (`services/map_query_api/main.cpp:757`), where the fallback says 1 and 0;
- `readBody` stops at the end of the header, so a body in a later segment is not
  read: the answer is 400 (`BodyMissing`), or about `route.unknown` when the body
  is cut (`AskedRoute`);
- built without libpq, two queries at a time may be answered with each other's
  rows (`RunPsql`): `AnswersOwnRequest` and `AnswersAreCurrent` exclude exactly the
  queries that met in the file (`overlap`);
- a personal comparison whose statements fail is two empty lists with the source
  `timescale` (`WithoutRows`); every other endpoint says `live_unavailable`. Without
  rows the history endpoints and, without a database, the personal one invent theirs
  (`services/map_query_api/main.cpp:1006`);
- a time series takes the first 2000 buckets in ascending order
  (`services/map_query_api/main.cpp:997`), so a longer one ends before its newest data
  (`TimeseriesQuery`; `AnswersAreCurrent` says that nothing else is left out);
- tiles are grouped by five columns and stored under three, so where a region lies in two
  countries the row of a tile counts the observations of one of them only. The simulator
  sends London as europe/UK (`simulator/main.cpp:47`), the collector as europe/Europe
  (`configs/global_topology.json:83`), at the same coordinates. `RowsComplete` says what such
  a row counts;
- a `route_id` or an `at` that is no string throws in a detached thread and ends the
  service (`ReadThrows`); so does a measurement that is not a number in a poll thread of a
  collector (`FetchThrows`). A collector without a libcurl handle goes on without the city
  (`PollInit`);
- when main of map_query_api returns it destroys the store while detached threads still
  use it (`MainReturns`, a step after the loop); what they read then is undefined, and no
  property speaks of it;
- `docs/ARCHITECTURE.md:204` says that a registry mutex protects the lazy creation of the
  broker's maps. It does not where the consumer looks its topic up before anything
  was published (`InProcessBrokerSubscriber.hpp:53`): `Race`, and what may come of it,
  `InsertNode` and `Crash`. `RacesOnlyAtFirst` says when it is over;
- the topic queue has no bound, nobody waits on its condition variable, and what it
  holds at shutdown is lost with the process (`Scan`);
- the listening socket closes the number of the client it accepted last a second
  time (`RunReturns`). In a gateway it is nobody's by then, or the publisher's, which
  is not used any more; in timescale_writer it may be any descriptor of the process,
  the outbox stream included, while the batch thread is still at work.

## 4. What is proved

Each proof module has an inductive invariant, `Inv` (or, in `TimescaleWriterProofs`,
a few that build on one another), the three facts that make it one (`Init => Inv`,
one lemma per action or per group of actions that leave the same things alone, and
`Inv => property`), and the theorems that follow. What TLC checks on the small
instances holds for every value of the constants that satisfies the named
assumptions of the module. `PROJECT.json` names the theorem of each property.

### timescale_writer (`TimescaleWriterProofs`)

For all ids, regions, receive threads and sizes that satisfy `ConstantsAssumption`,
`BatchAssumption` (a batch is not larger than the queue) and `CacheAssumption` (the
cache holds at least twice the queue bound); the deployed values 4096, 250 and 10000
do.

| theorem | inductive argument |
|---|---|
| `TypeCorrect`, `CacheIsConsistent` | `BaseInv`: types, and `CacheInv`, which adds that set and FIFO have the same size. Without it a full cache might have no oldest id |
| `MemoryIsBounded`, `MetricsAccountForAll` | `BoundsInv`: what is in main's hands came out of the queues under the mutex, so hand and queues together stay within the bound while they are locked. `SlotsAppend`, `SlotsTail`, `SlotsCount` say how the number of queued envelopes changes |
| `RegionOrderKept` | `OrderInv`: every arrival number is at most `arrivals`, and the whole path of a region is ordered; each step moves a block from the end of one stage to the next (`BlockKeepsOrder`, `AppendKeepsOrder`) |
| `NothingCountedTwice` | `SuffixInv`: what is in flight or pending, less what an eviction cannot reach, is a suffix of `idOrder`. It needs `CacheAssumption`: with a smaller cache an id could be forgotten while it is pending, and the model then shows a duplicate |
| `DuplicatesWereTaken` | `SeenWasTaken` with the type invariant. Its fourth case, `dropped`, is a real loss: the batch that found no outbox |
| `RoundRobinIsFair` | `RoundInv`: in the middle of `dequeueBatch` there is a round k; the regions before the iterator have sent k + 1 envelopes and the others k, unless they are empty. The property alone does not say where the iterator is, and a step could break it |

### Database and outbox (`OutboxStoreProofs`)

For all observations, batches and bounds that satisfy `StoreAssumption`, in both
builds of the client (`DistinctAssumption` is not needed). `Inv` has five parts:

- `TextInv`: every text in hand or in the outbox is `Backed` (the rows an aggregate
  statement speaks of were inserted before it in the same text, which survives a
  torn write), `Settled` (each COMMIT ends the transaction of one batch, with all of
  it merged) and `Closed` (it ends with a COMMIT), the last unless something is torn;
- `RowsInv`: the rows the open transaction sees are the committed ones and those
  inserted since the last COMMIT;
- `AggInv`: each aggregate row has the extremes of a set of rows that leaves out only
  what is not merged yet;
- `KeptInv`: an outbox that is about to be truncated is committed;
- the types.

`FlushedIsKept` (`AckedKept`) and `AggregatesAgree` (`AggregatesObserved`) follow;
none of the two is inductive without knowing how far each text has got.
`StoreImplementsLog` is the refinement of `BatchLog`: a COMMIT maps to `Store`, an
append to `Defer`, a truncation to `Discard` or a stutter, a torn write and whatever
comes after it to `Damage`, every other step to a stutter. `JoinAfter`, `JoinKeeps`,
`BatchText` and `Torn` say how the parts behave when texts are put one after the other
or cut.

### The hop (`TcpHopProofs`)

For any number of connections, envelopes, short sends, restarts of the receiver and stops
of the sender. `WireInv`: on a wire each first piece is followed by its newline unless its
send was short. `FrameInv`: of what a receive thread has of a line, the newline is the next
piece of its wire, with the same exception. `SentInv`: what is on a wire was answered for,
and what is being sent was not yet. `OnceInv`: the newline of an envelope is on at most
one wire, once, and the envelope is then not consumed. From these `EnvelopesNeverMix`
(`FramesPure`) and `ConsumedOnce` (`AtMostOnce`).

`OnlySpoiltAreLost` (`LossHasCause`) is about what is not lost: while the receiver keeps
the connection, an envelope that was answered true and was neither cut by a timeout, nor
sent short, nor sent behind a short one, is consumed or still on its way. `LossInv` says
that such an envelope is intact, its first piece in the thread's line or on the wire and
its newline on the wire; `ViaInv` that an envelope is only on the connection it was sent
on; `LatestInv` that what a wire or a line ends with, without a newline, is the envelope
sent last, so that a short send spoils the next envelope and no later one.

### Collector and its publisher (`CollectorProofs`, `SharedPublisherProofs`)

For any cities, queue bound and packets: `TypeCorrect` (with the bound of the queue),
`CityOrderKept`, `NoPacketVanishes`. `HandsInv` and `PointInv` say what each thread
holds; `PushedInv` that what was pushed is older than what is still offered,
`CoveredInv` that while the collector runs everything made is offered or was pushed;
`OrderInv` that of a city the published precede the one in the sender's hands, and
that one the queue.

`Collector` leaves the outcome of `publish_to_topic` open. Its publisher is
`SharedPublisher` with one thread (`OneSender`), and `OneSenderLeaksNothing`
(`SocketNotLeakedOrStale`) and `OneSenderFailsForCause` (`FailsOnlyForCause`) hold of it
for any descriptors, envelopes, resets, closings, refusals and failing calls. `SocketInv`: between `close` and the
assignment behind `socket()` no socket is open, otherwise only the one of `socketFd`,
whose number may be that of a client exactly in that window. `ConnectedInv`:
`connected_` is false in the whole of `connectToServer` up to the result.
`OutcomeInv`: an envelope about to fail has met
its cause, and each earlier one was sent or met one. The hypothesis
`OneSender` is needed: with two threads both are false, and `publisher_gateway`
shows an envelope of one that fails because of the other.

### In-process broker (`InProcessBrokerProofs`)

`TopicIsExact` (`TopicExact`) and `RacesOnlyFirst` (`RacesOnlyAtFirst`) for any number of
receive threads (`BrokerAssumption`). `Inv` says: until a race, `Strong` and `~Race`.
In `Strong` a thread inside the critical section owns the one mutex, and its copy is
the queue (`MutexInv`, `QueueInv`, `Exact`); behind the registry section all three
nodes exist (`RegistryInv`, `NodesInv`, `UsesInv`).

### Ring and personal_comparator (`PersonalComparatorProofs`)

The ring, for every capacity and every set of items: `RingTypeCorrect`,
`RingSlotsNotShared` (from `RingInv`: what each thread knows at each place of its
code about the distance of the indices) and `RingImplementsFifo`, the refinement
of `BoundedFifo`: initial states map to initial states, the release store of
`push` maps to `PushOk`, the one of `pop` to `PopOk`, a test that fails to `PushFull`
or `PopEmpty`, everything else stutters.

personal_comparator, for any events and bounds: `TypeCorrect`, `OrderOfArrivalKept`,
`NoEventVanishes`, `TriggeredExactly`. `HandsInv` says what each thread holds where,
`KnownInv` that nothing is later than the last arrival and what the worker gave up is
earlier than all it has still to do, and `StopInv` that the process stops
before the first event or not at all: without it an event could be dropped at an end.
`NoEventVanishes` speaks of a trace (a message, or a row of the same time) only where the
worker uses libpq: over psql there is none.

### Scores, tables and answers (`MapQueryApiProofs`)

For every packet that passes `validatePacket`: `HazardInRange` (0 to 100),
`DelayInRange` (1.0 to 1.6), `PrimaryIsLargest` (the cascade of comparisons ends at a
largest norm, also in its last, unconditional branch), `MapScoreInRange`, and
`ScoresClose` (the logged score and the stored one differ by at most 5 of 100). They
all rest on `NormRange`, that every norm is clamped.

For every set of observations, batch size, number of connections and requests that
satisfy `ApiAssumption`:

| theorem | argument |
|---|---|
| `RowsAreComplete` | each grouping makes one row per group (`TileRowsOf`, `CityRowsOf`). The tiles are grouped by a column more than their key has, so groups with one key replace each other: what stays is one of them, whole (`TilesUpserted`). Cities have one row per key, and no upsert of a batch meets a row of the same batch (`CityFold`). Nothing is assumed of regions and countries |
| `RiskBounded` | the sum over a group lies between its size times the bounds of one observation (`SumBetween`, `GroupSums`), and an upsert of a route takes the row as it is (`RouteFold`) |
| `AnswersCurrent` | `TableInv`: for each stored observation there is a tile and a route row with its key, and a city row with its key that spans its temperature, and no row is of a minute nothing is stored of; an upsert may replace a row but keeps its key and widens its extremes. An observation that is missing from a map has a later row in the table, so a later minute was stored (`LaterRow`); one that is missing from a time series or a list of comparisons is behind a full LIMIT (`LeastAreFirst`). The property speaks only of replies, and without `TableInv` nothing is known of the next one |
| `AnswersOwn` | `ThreadInv`: a handler at work has the last statements of its own request still to execute; `FileInv`: two threads in the temporary file have both met (`overlap`), so for one that has not, psql finds its own text there |
| `TypeCorrect` | keys are unique in each table (`TilesUpserted`, `UpsertCityType`, `UpsertRouteType`) |

A batch is folded into a table row by row, and a sum over a group is a fold as well. The folds of the
community modules are recursive functions on the subsets of a finite set; that they
are defined (`FoldDefined`) and what they preserve goes by induction on these subsets. The induction theorems of
the library take an operator as a parameter; `SubsetInduction` (like `FiniteExtremes`
of `OutboxStoreProofs`) takes the set of what is proved in the place of the predicate,
and argues with a minimal counterexample.

### Only model-checked

All liveness: `KeepsGoing`, `EventuallyFlushed`, `EventuallyCompared`,
`SetupFailureExits`, `BurstsAreConsumed` and `ShutdownCompletes` of five modules.
Fairness and ENABLED are out of TLAPS' reach.

The proofs rest on assumptions the code cannot show: of `MapQueryApi`, that what the
validation admitted is what is stored, and that a batch is finite; of `PersonalComparator`, that its rings are FIFOs of `RingBound` items, which
`RingImplementsFifo` shows; of `InProcessBroker`, that envelopes come whole and one at a
time, which `TcpHopProofs` shows. The composition itself is argued in section 2, not proved.

## 5. Not modelled, and why

The SQL text, JSON and HTTP conversions, the pixels of a tile image and the
browser code are data, with no order of events in them. Gauges and log lines are
left out, and so is `map_raster_tiles`, which `refresh_map_tile` fills and no query of
this service reads. libcurl, PostgreSQL and the TCP stack are modelled only from how
the code uses them. A text of which only a part goes through psql's pipe is left out.
The columns of the aggregates beyond counts, extremes, hazard and delay follow the
same two patterns (merged or replaced). `FlowController` is included by no program;
cgroups and shared memory are single system calls; the metrics endpoint prints
counters; the simulator and the tools are scripts around the system.

## 6. Plan

Done, in this order: `TimescaleWriter` (the heart of the data path), its
proofs, `OutboxStore` with `BatchLog`, `SpscRing` with `BoundedFifo` and its
proofs, `PersonalComparator`, `TcpHop`, `SharedPublisher`, `Collector`, `RiskFormulas`,
`MapQueryApi`, `InProcessBroker`; then the psql build in `OutboxStore`,
the accepted descriptor in `SharedPublisher`, the port that is taken in `TcpHop`, and
all endpoints and the three kinds of rows in `MapQueryApi`; then the proofs of every
safety property of the passing runs.

Next:

1. The composition of `TimescaleWriter` and `OutboxStore` as a theorem: the outcome of
   `flushBatch` (`durable` or `dropped`) is what `OutboxStore` makes of the batch.
2. `PersonalComparator` over two `SpscRing`s instead of two FIFOs.
3. A composition of `TcpHop` and `TimescaleWriter`: what happens to an envelope from
   `publish_to_topic` to the flush.

## 7. Running it

`tlc -config TimescaleWriterSafety.cfg MCTimescaleWriter` and so on, with the
module and the configuration each run of `PROJECT.json` names. Each run takes between
seconds and four minutes on two cores.

`tlapm TimescaleWriterProofs.tla` and likewise `OutboxStoreProofs`, `TcpHopProofs`,
`CollectorProofs`, `InProcessBrokerProofs`, `SharedPublisherProofs`, `PersonalComparatorProofs`
and `MapQueryApiProofs` for the proofs: one to five minutes each.
