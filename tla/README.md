# A formal model of ab_dyeing

`ab_dyeing` is a thrift server that "dyes" users for A/B tests: for a user and
a list of business types it answers, per type, a configuration id. This
directory holds TLA+ modules of the server, the TLC configurations that check
them on small instances, and proofs of the properties of its core for every
value of the parameters.

## The system

### Components, their state and their operations

| Component | Code | State | Operations |
|---|---|---|---|
| Request path | `dyeing_handler.cc`, `dyeing_logic.cc` | the reply being built | `dyeing`, `DyeingLan`, `BatchDyeing`, `BatchDyeingLan`; per type `onDyeing`: white list, push type, fresh user, bucket |
| Policy slots | members of `ABDyeingHandler` | `_white_list`, `_online_plugin`, `_fresh_user`, `_push_user`: `boost::shared_ptr`s | getters that copy; `flushPolicy`, `flushFreshUserPolicy` that replace |
| Flush threads | `Thread`, `FreshThread` in `dyeing_handler.cc` | `_fresh_tags`, `_init_mysql` | `flushPolicy` every minute; `flushFreshUserPolicy` at the start and once a day |
| New users | `fresh_kafka.cc`, `ab_def.h` | `_time_kmsg` (time → uid), `_kmq->kq` (uid → time), a lock each | `set` (Kafka thread), `clear` (clear thread), lookup (request threads) |
| Daily loops | `FreshThread::run`, `ClearThread::run` | `_fresh_tags` | one job a day, at `fresh_hour` |
| Bucket lookup | `online_hash.cc`, `get` | none | product keys, hash, scan of the buckets |
| Policy loading | `online_hash.cc`, `white_list.cc` | a plugin under construction | `loadConfig`, `loadInternal`, `ParseProductPolicy` |
| MySQL snapshots | `fresh_user.cc`, `push_user_type.cc` | a plugin under construction | `flushFreshUser`, `flushPushUserType`, `SetMap` |
| Kafka consumer | `kafka_consumer.cc` | offsets, checkpoint files | `Init`, `FetchMsg`, `RebalanceCb` |
| Process start | `main.cc`, `inv_application.h` | registered worker threads | `start` |
| Threads and locks | `inv_thread*.cpp`, `inv_monitor.h`, `inv_thread_cond.h`, `inv_lock.h` | owner and count of a mutex, notifications kept by a monitor | lock, unlock, tryLock, wait, notify, guards, `start`, `join` |
| Thread queue, thread pool | `inv_thread_queue.h`, `inv_thread_pool.cpp` | the queue and its `_size`, workers, who is busy | `push_back`, `push_front`, `pop_front`, `swap`, `notifyT`; `init`, `start`, `exec`, `waitForAllDone`, `stop` |
| Logging | `inv_logger.cpp`, `inv_logger.h` | lines in a stream buffer, a queue, files | `log`, `sync`, `flush`, `roll` by size, by date, by type |
| Redis clients | `inv_redis.cpp`, `inv_redis2.cpp`, `inv_coredis.cpp` | a context, an address, a slot table, counters of failures | the commands, `connect`, `reconnect`, MOVED, failover |
| Sockets | `inv_socket.cpp`, `inv_clientsocket.cpp`, `inv_coclientsocket.cpp` | a file descriptor, what is in flight | `send`, `recv`, `recvn`, `sendRecv`, `close` |
| SQL clients | `inv_mysql.cpp`, `inv_pgsql.cpp` | a session | `connect`, `execute`, `queryRecord`, inserts and updates |
| Thrift code | `proto/gen-cpp` | frames of a connection | four calls, the processor, `read` and `write` of ten structs |
| Rest of the library | `common/inutil` | clock, configuration, shared-memory queue, HTTP, poller, utilities | |

### How they interact

Everything runs in one process. Thrift's worker threads serve the requests;
each has a `DyeingLogic` of its own (`_logics`, filled by `init` and only read
later), so that the only state requests share is what they read: the four
slots and the map of new users.

* `Thread` builds a white list and an online policy every minute and assigns
  them to their slots, one after the other.
* `FreshThread` builds a snapshot of today's fresh users and a table of push
  types from MySQL when it starts and once a day, and assigns them likewise.
* `KafkaThread` reads records and calls `DyeingCurrentFresh::set`, which adds
  the uid to the time index under one lock, then to the shared map under the
  other.
* `ClearThread` calls `DyeingCurrentFresh::clear` once a day, which takes the
  old entries out of the time index under the first lock, then erases their
  uids one by one under the second.
* The thrift server's worker calls the processor of the generated code, which
  calls the handler; one call of a connection at a time.
* Every thread logs: a line goes into the queue of its logger, and a flush thread
  rolls it to a file. The MySQL plugins use `INV_Mysql`; the other clients of the
  library are offered to the server and not used by it.
* A request copies a slot whenever it needs it, and looks a uid up under the
  read lock of the shared map. It holds nothing between two consultations.

### What is hard

* **Two maps, two locks, three kinds of threads.** `set` and `clear` are not
  atomic, and the time index is the only path by which a uid leaves the shared
  map. If they interleave badly, a uid stays for ever, or goes too early.
* **Slots without locks.** A `shared_ptr` is two words and a count. One thread
  assigns it while others copy it.
* **Reads of the moment.** A request consults up to five sources, each of
  which may be replaced between two looks.
* **A loop that looks at the wall clock.** A job must run once a day, but the
  gate is looked at several times in its hour, and twice per iteration.
* **Partial failure.** A load fails after another one was published; an
  exception ends the loop of a request half-way.
* **Retries.** A statement is sent again on a new session although the old one
  may have executed it; a client follows a redirection or turns to another node
  while replies of the old connection may still be in flight.
* **Hand-over.** A job, a log line or a record is between two owners for a
  moment: popped and not counted, swapped out and not rolled, polled and not
  stored; a stop, a crash or a rebalance may come just then.
* **Boundaries.** An int product that overflows; a hash from 0 and buckets
  from 1; hour 23; a batch of 1000.

`PROJECT.json` lists every such hazard at its line, with the properties about
it or the reason there is none.

### What makes each component correct

| Component | Properties |
|---|---|
| New users | no uid is out of reach of `clear`; only expired registrations erase; the map drains |
| Policy slots | counts are exact, everything replaced is freed; a copy that meets no assignment has one version and keeps it, which is a safe register and not an atomic variable |
| Request path | shape of the reply; the white list wins; the product is justified by what was true during the request; no step back to an older version; every call is answered |
| Daily loops | the gate lets one job into a fresh hour, so that there are two only in the hour a `FreshThread` is started in; no fresh hour without one; the job runs for ever |
| Bucket lookup | the most specific table, the first bucket that contains the hash; never `default` for who has a table |
| Policy loading | a policy is made of what the nodes held during its load; a type configured all the time is served all the time; the slot converges to what is stored |
| MySQL snapshots | the latest row of a user wins in any order; nothing is published without rows |
| Kafka consumer | no record is skipped over crashes, restarts and rebalances; checkpoints name what was read; a consumer that stays up reads all |
| Locks, thread queue | a thread holds a mutex as often as its guards say; no wake-up is lost; the count of the queue is its length until the first `swap` |
| Thread pool | every job is in one place, once; `stop` leaves no thread behind; which calls return |
| Logging | a line gets to the files, or to a roll that threw, and is doubled only by a roll that threw behind its write; in order, on its own day; the queue empties although a roll fails |
| Clients | a command that looks at its reply reports success only of what succeeded (`set`, `remove`, `hashdel` do not look); a reply is that of its own request unless a `::send` failed for a moment on that connection; a client works again once the servers stay |
| Thrift code | an answer is that of its call; every call the server can read comes back |

## Modules

| Module | Models | Extends / uses |
|---|---|---|
| `FreshQueue` | the maps of new users, `set` and `clear` | |
| `FreshQueueProofs` | theorems about `FreshQueue` | `FreshQueue`, `TLAPS` |
| `SnapshotSlot` | what a slot promises (abstract) | |
| `SharedPtrSlot` | a slot as a `boost::shared_ptr`, its flush thread, its readers | implements `SnapshotSlot` |
| `DyeingService` | requests, flushes, new users | takes slots to be `SnapshotSlot`s |
| `DailyGate` | the daily loop | |
| `OnlineHash` | `DyeingOnlinePlugin::get` | |
| `PolicyLoad` | `loadConfig`, `loadInternal`, the parse, of both plugins | |
| `PushTable` | the load of a daily table, `SetMap` | |
| `SharedPtrSlotProofs` | theorems about `SharedPtrSlot`, the refinement among them | `SharedPtrSlot`, `TLAPS` |
| `DailyGateProofs`, `DyeingServiceProofs`, `ThreadPoolProofs` | theorems about the module they are named after | that module, `TLAPS` |
| `KafkaConsumer` | the Kafka thread: offsets, checkpoint files, crashes, rebalances | |
| `ThreadQueue` | the monitored queue | |
| `ThreadPool` | the pool, its workers, its user | uses `ThreadQueue` |
| `ThreadLocks` | mutexes, monitor, condition, read/write lock, guards | |
| `Logger` | a line from `log` to `roll` | |
| `LogFiles` | what `roll` does with files | |
| `RedisReply` | which result a command makes of which reply | |
| `RedisClient`, `Redis2Client`, `CoRedis` | the three redis clients | extend `RedisReply` |
| `TcpClient` | the blocking and the coroutine socket client | |
| `SqlClient` | `INV_Mysql` and `INV_Pgsql` | |
| `ServiceRpc` | both ends of the generated code | |
| `Policies` | the lookup, the load and the daily table side by side | instances of `OnlineHash`, `PolicyLoad`, `PushTable` |
| `PoliciesProofs` | theorems about the three | `Policies`, `TLAPS` |
| `Library` | the library modules, `ServiceRpc` and `KafkaConsumer` side by side | instances of those eleven |
| `LibraryThreadProofs` | theorems about the queue, the locks and the logger | `Library`, `TLAPS` |
| `LibraryClientProofs` | theorems about the clients and the Kafka consumer, and the types of all | `LibraryThreadProofs` |
| `MC…` | instances for TLC | the module they are named after |

How they compose: `DyeingService` reads a slot in one step. That is what a request
sees of a slot whose copy meets no assignment, as `SharedPtrSlot` shows; for a copy
that meets one the code gives no such promise (see the findings), and what
`DyeingService` says of a request is said of requests without such a copy. The set `newUsers` of `DyeingService` is the domain of
`kq` in `FreshQueue`; `Learn` and `Forget` are its `SetQueue` and `ClearErase`.
The fairness of the clear thread in `FreshQueue` is what `RunsForever` of
`DailyGate` shows of the thread's loop. A record that `KafkaConsumer` processes is a
`SetTime` of `FreshQueue`. `ThreadPool` contains a `ThreadQueue` as its job queue and
takes its steps; `Logger` appends to what `LogFiles` keeps.

`Policies` and `Library` hold several parts that share nothing. A behaviour is
about one of them, chosen at its start (`part`), and the others stay where they
begin: the runs explore the sum of the parts and not their product, and a property
of the composition is the conjunction of the parts' own, whose comments are in the
modules. They also assume of the constants what the parts assume (each part names its
assumption, `Policies` and `Library` make it one), so that one theorem speaks of all
parts, and `MCPolicies` and `MCLibrary` only choose values, fairness and the liveness
properties. `MCNewUsers` puts `FreshQueue` and
`DailyGate` side by side in the same way.

### FreshQueue

`timeKmsg` and `kq` are the two maps. `rec` is the Kafka thread, which is
`idle` or has finished the first half of `set` (`indexed`); `clr` and `rubsh`
are the clear thread and its local list. A lock acquisition is one action:
`SetTime`, `SetQueue`; `ClearBegin` (the age limit is computed before any lock
is taken), `ClearCollect`, `ClearErase` (one uid), `ClearEnd`. `Tick` moves the
clock. The loop of `clear` over the ordered map, which breaks at the first
young entry, visits exactly `Expired`.

Assumptions, each a constant or a named `ASSUME`:

* `DistinctStamps`: two records never have the same microsecond. When they do,
  the second overwrites the first in the time index and the first uid is stuck.
* `Stall <= Retention`: the Kafka thread is not held up between its two
  critical sections for longer than the retention. Even eight minutes, what the
  retention really is, are long for a few instructions.
* The clock does not go back, and it has run longer than the retention when
  the process starts, so that `TNOWUS - retention` does not wrap; times count
  from the start of the process, and the age limit may be negative in them.

`MCFreshQueueDay` gives `Retention` the value of the code's expression,
`24*3600*1000*1000` in 32-bit arithmetic, computed by `IntTimes` in halves of
16 bits, because TLC's own integers have 32.

### SnapshotSlot and SharedPtrSlot

`slot` holds the words `px` and `pi` of the member; `refs` the use counts;
`mem` whether a version is in memory. The flush thread's actions are the
statements of `flushPolicy`: `Load`, `LoadFails` or `HoldOld` (`auto old =`),
`MakeTemp` and two `Swap`s (boost's assignment is a copy and a swap), `DropTemp`,
`DropOld`, `DropVersion`. A reader reads both words, in either order, then
counts itself. Neither side waits for the other: a copy may begin, go on and end
anywhere in an assignment. Counting is atomic, as in boost.

Two history variables tell what is left of the design then. `torn` holds the readers
whose copy met a swap: their object and their count may be of two versions, or freed.
`sound` turns `FALSE` when a torn copy counts itself in a freed block: it has written
to memory that is no longer the slot's, and nothing is known of the heap from there
on. Until then the counts are exact with all torn copies in them (`RefsExact`), and a
request whose own copy met no swap works on one version that stays in memory
(`WholeCopiesSafe`). That no request at all works on freed memory, as the repository
has it, is `NoUseAfterFree`, which the run `shared_ptr_overlap` refutes.

`SnapshotSlot` is accordingly a safe register: a publication has a `Begin` and an
`End`; who takes the version between them, or sees one of them while taking it, is in
`met` and holds nothing it could rely on; who met none holds the version shown.
`ImplementsSnapshot` is the refinement: the first swap begins the publication, the
second ends it (`Shown` is the replaced version in between), a reader holds its
version when it has counted itself, `torn` is `met`, and `sound` is `sound`.

### DyeingService

A slot is the sequence of contents published so far, and its length is its
version. A request is a record with its program counter, its call, what it has
answered (`infos`), the type it is at (`k`), the entries of the current item
and the product `onDyeing` decided on. One action per consultation:
`HandleWhiteList`, `HandlePushUser`, `LookupSnapshot` and `LookupQueue` (the two
halves of `handleFreshUser`, between which nothing is held), `HandleOnlineHash`.
`Fault` is an exception caught by `dyeing`. `begin`, `inQueue` and `onceInQueue`
are history: they record what was there while the request ran, for the
properties alone.

A bucket table is reduced to whether it exists for a product (`OnlineHash` looks
into it). `_push_user` starts empty, as in `init`, where its load is commented
out.

### DailyGate

One loop for both threads: `FreshThread` starts with a job (`jobFirst`, `pc =
"first"`), `ClearThread` with a sleep. The first job is a job like the others and is
counted in `jobs`, but it does not go through the gate and leaves `_fresh_tags` up: a
process that starts in the fresh hour runs a second one in it, which `AtMostOnce`
states for the time until the thread has seen a fresh hour begin. The clock moves at
any point of an iteration: between the two looks at it, in the job, in the sleep.
`jobs` and `sawBegin` are history.
`PaceAssumption` bounds an iteration to half an hour (it sleeps ten minutes): with
a slower job an hour could pass between two looks.

### OnlineHash

`ProductKeys` is the chain of keys of `get`; a string is a sequence of atoms, so that
concatenation does here what it does in the code (an empty version gives
the same key as none, and "default" is a key like another). The scan is one
action per round. A bucket whose configuration has no name is answered as the first
bucket of its product (`Named`), as is a hash that no bucket contains. A product
without any bucket is left out (`BucketsAssumption`): there the code reads an element
that does not exist, which `PolicyLoad` shows can happen. A request names its app
(`AsksAssumption`); version and language may be empty.

### PolicyLoad

The nodes of the configuration center are `list` (the business types) and `text`
(one node per type); operators edit them with `EditList` and `EditText` at any
time. A load is `Begin` (a new plugin, the list is read), one `LoadInternal` per
type, `End` (the slot gets the plugin if `rtval`, the result of the last type,
says so; `init` does not look at it, hence `first`). A line of a text is a
record whose key or fields may be `Bad`; `Parsed` is what the loops over the
separators make of a text. The two plugins differ in one thing, `EmptyFails`: an
empty node fails the type in the online policy and not in the white list.
`seen` and `steady` are history.

### PushTable

`Query`, one `SetMap` per row, `Return`. `Takes` is the comparison of timestamps.
`flushFreshUser` is the same load with one row per user.

### KafkaConsumer

A record that `poll` returns is stored as consumed at once; `Commit` commits what is
stored, at any time; `Crash` ends the process anywhere and forgets what was not
committed; `Start` is `Init` of the code; `Assign` and `Revoke` are `RebalanceCb`. A
round of `run()` is `Fetch`, between 1:00 and 1:05 `WriteOffset` and `WritePartition`
(two files, one after the other), and `Process`. A file name is a pair: how many
characters it lacks at its front, and its number, because `FetchMsg` appends the
partition to the name and `Init` adds it to the address of the literal.
librdkafka and the group are external, with the default `enable.auto.commit`.

### ThreadLocks, ThreadQueue, ThreadPool

An operation of the queue holds the monitor from its first to its last line, so it
is one step, except that a pop or a swap of an empty queue blocks, once, and looks
again when it wakes: by an event, by its deadline, or for no reason.
`Signal(n)` is what `INV_Monitor` does with the notifications it kept: it wakes n of
the blocked threads, any of them. `ThreadLocks` is one level below: the owner and
depth of the pthread mutex, the count of `INV_ThreadRecMutex`, the count that
`wait` puts aside, `_nnotify`, and per thread its nested `INV_LockT` objects with
their `_acquired`.

`ThreadPool` has one user, which calls the operations of the pool in any order, and
its workers: `Create` and `Entry` are the two ends of `INV_Thread::start`; `Boot`
runs the start functor; `GoesOn`, `Pop`, `WakeUp`, `Count`, `Run` and `Idle` are the
loop; `Leave` clears the job queue (`ThreadWorker::run`), and `End` is the store of
`_running = false` behind it (`INV_Thread::threadEntry`). Between the two a job may be
queued that nobody takes; `JobsTaken` asks for a worker that is not there any more.

### RedisReply, RedisClient, Redis2Client, CoRedis

Every command has the same frame: reconnect and fail when there is no connection; on
no reply reconnect for some errors and fail; otherwise make a result of the reply by
a rule of its own. A command is a record of what it chooses in the frame, the rules
are tables over the kinds of replies in `RedisReply`, and `map` names all commands a
rule or a record stands for. `RedisClient` adds the MOVED redirection of the hash
commands and the asynchronous context; `Redis2Client` the counters all clients share
(`IsBadConnect` stays true once it is); `CoRedis` the map of connections per node, the
slot table, which other instances write too, and the turn to the next node after
failures.

### TcpClient, SqlClient

`TcpClient` follows bytes: `send` and `recv` may move any part, time out or fail, and
`Width` is the modulus of the `uint32_t` the code counts in. The peer is external: it
takes `Size` bytes of what it was sent (`Answer`), answers them if they are a request,
and otherwise answers something else or nothing; what it has not taken stays on the
connection for the next request, as do replies nobody read. `hiccup` is a `::send` that
failed for a moment: -1 is kept in a `uint32_t` and added to the counter of
`INV_Socket::send`, which goes back by one, so that a byte goes twice and the
connection is out of step from there on (`Garbled`). `SentOnce` and `ReplyWhole` speak of
the connections on which that did not happen, the next one of the same client
included. `SqlClient` is one
statement at a time: `execute` with its one repetition on error 2013 or 2006, for
`INV_Pgsql` without it; a fetch with its row count; and what the caller is told.

### ServiceRpc

A struct is the set of fields its reader insists on; a message says which fields its
writer left out, one at most, as a peer built from another version of the IDL would.
The server takes one call at a time. Arguments it cannot read (a required field is
missing) make `read` throw out of the processor; the server is a `TNonblockingServer`
with a `ThreadManager` (`INVApplication::start`), whose task logs the exception, and the
connection stays open without an answer. A client without a timeout then waits until
the connection breaks: `Answered` is about the calls that are `Readable`.

### Logger, LogFiles

`Logger` follows lines from the stream buffer (`text`) into the queue (`buffer`) and
through a flusher's local (`qt`) into `file`; `sync()` switches between the group
and writing at once while others log. The switch is made of the steps that writers,
who look at `_pThreadGroup` without a lock, can see: `unRegisterLogger` (out of
`_logger`) and then `reset`, `install` and then `registerLogger`.

A `roll()` throws at either of two places: before it writes, when the file cannot be
opened, or behind the write, when the files were shifted and the new one cannot be
opened. A flusher has lost its lines in the first case and written them in the second
(`RollThrows`); the flush inside `setupThread` throws out of it, before it installed the
group (`Unwound`). A writer in synchronous mode keeps its line in the put area in both
cases and writes it again with the next one (`WriteThrows`): in the second case the line
is then in the file twice, and `twice` remembers it.

`LogFiles` is what `roll` does: the shift of `path1.log`, `path2.log`, … by size, the
reopening after some seconds, a removed file, the name by date, and the period of an
`InvLogType`; `rollThrows` and `rollThrowsMoved` are the two throws, and `rollKeeps`
is a shift that cannot remove the oldest file and moves none.

## Runs

| Run | Checks | Result |
|---|---|---|
| `new_users` | `TypeOK`, `NoOrphan`, `OnlyExpiredErased`, `EventuallyForgotten`; `GateTypeOK`, `AtMostOnce`, `EveryDay`, `JobRepeats` | hold |
| `fresh_queue_day` | `KeptForADay` | violated |
| `fresh_queue_early` | `NoEarlyErase` | violated |
| `shared_ptr_slot` | `TypeOK`, `RefsExact`, `WholeCopiesSafe`, `OldFreed`, `ImplementsSnapshot` | hold |
| `shared_ptr_overlap` | `NoUseAfterFree` | violated |
| `dyeing_service` | `TypeOK`, `ReplyShape`, `WhiteListWins`, `ProductJustified`, `VersionsMonotone`, `Answered` | hold |
| `policies` | `TypesOK`, `LookupComputesConf`, `LookupNeverDefaultForOwn`, `LookupReturns`; `LoadSteadyServed`, `LoadFromThisLoad`, `LoadConverges`; `LatestWins` | hold |
| `online_hash_sample` | `Proportional` | violated |
| `policy_load_first` | `FirstExists` | violated |
| `thread_pool` | `TypeOK`, `JobsKept`, `OnlyPoppedOverlooked`, `StopQuiet`, `JobsTaken`, `CallsReturn`, `WaitReturns` | hold |
| `library` | `TypesOK`, `WaitsAndLocksExact`, `LogIsWhole`, `ReportsAreTrue`, `ClientsRecover`, `LogFlushed` | hold |
| `library_refused` | `RefusalsReported` | violated |

The properties of `library` are made of those of its parts:
`WaitsAndLocksExact` of `NoLostWakeup`, `SizeExact` (`ThreadQueue`) and `GuardsExact`
(`ThreadLocks`); `LogIsWhole` of `Once`, `InOrder` (`Logger`), `OneLog`, `NoneLate`,
`OwnDay` (`LogFiles`); `ReportsAreTrue` of `FailureReported` (`RedisClient`),
`ReplyIsMine` (`CoRedis`), `Aligned` (`TcpClient`), `ExecutedAsReported`
(`SqlClient`), `OwnAnswer` (`ServiceRpc`), `NoneSkipped` and `CheckpointsTrue`
(`KafkaConsumer`); `ClientsRecover` of `Heals` (both `INV_Redis`), `GetsThrough`,
`Recovers`, `Answered`, `Keeps`; `LogFlushed` is `Flushed` of `Logger`.

### Findings

* **Eight minutes for a day** (`fresh_queue_day`). `24*3600*1000*1000` is an int
  product; it overflows to 500 654 080 µs. New users are swept when their
  registration is 8 min 20 s old, where the comment says a day.
* **A registration erased by an older one** (`fresh_queue_early`). `clear`
  erases by uid what it selected by time. In the trace a uid registers, gets old,
  registers again, and is then erased for its first registration: `kq[uid]` holds the
  later time, and nothing looks at it. `Stall` is 0 in this run, so that no thread is
  held up in `set`.
* **The slot is not atomic** (`shared_ptr_overlap`). A reader that has read the
  words of a slot and not yet counted itself loses its version to a flush; the README
  of the repository calls the design lock-free.
* **Off by one** (`online_hash_sample`). The hash is in 0 … 999, the sample's
  buckets are in 1 … 1000, and value 0 falls to the first bucket.
* **A product without buckets** (`policy_load_first`). `ParseProductPolicy` skips
  malformed buckets and keeps the product even if none is left; `get` takes its
  first bucket for granted.
* **Refusals reported as success** (`library_refused`). `set`, `remove` and `hashdel` of
  `INV_Redis` return 0 for every reply, an error among them; their comments promise -1
  for a failure. `FailureReported` holds for the commands that do look.

Not a finding, but to know: a user who is in the queue of new users and in the
daily snapshot counts as fresh, not as new (`handleFreshUser` returns 1 without
looking at the queue), and is dyed as `_recurring` for biz on noticias;
`ProductJustified` states it so. And `Converges` has a condition: while the last
listed type of the online policy has an empty node, no load is shown at all.

Where the library does less than one would expect, the modules state the stronger
property as a definition that no run checks, or say in the comment of the weaker one
what is missing:

* `ThreadQueue`, `SizeIsLength`: `swap` takes the items and leaves their number in
  `_size`, so `size()`, by its comment the size of the queue, counts what is no longer
  there. Only the logger swaps, and nobody asks its queue for its size. `SizeExact` holds
  for a queue from which nothing was swapped, as the one of the pool is.
* `ThreadPool`, `AllDoneMeansDone`: a job that is popped and whose worker is not yet
  counted as busy is overlooked; `waitForAllDone` says "all is done" and it is not.
  `OnlyPoppedOverlooked` says that nothing else is.
* `ThreadPool`: after `start()` alone `waitForAllDone(-1)` does not return, as
  `_bAllDone` is false until a first job has run; after `stop()` and `start()`
  without `init()` the new threads leave at once. Hence the condition of
  `WaitReturns`. A job that is queued while the last worker is leaving stays there,
  hence that of `JobsTaken`.
* `TcpClient`: after a passing error of `::send` a byte is sent twice, and the requests of
  that connection are no longer those the caller made. Hence `Garbled`.
* `ServiceRpc`: a call the server cannot read is never answered. Hence `Readable` in
  `Answered`.
* `Logger`: a writer that read `_pThreadGroup` before it was reset pushes its line
  behind the last flush, where it stays until a group is set up again; and a line is
  written twice when `roll()` throws behind its write in synchronous mode. Hence `member`
  in `Flushed` and `twice` in `Once`.
* `KafkaConsumer`, `CheckpointUsed`: no file has a name that `Init` looks for, so a
  restart assigns from offset 0 until the group's own offsets come.

### Bounds, and why they are enough

* `FreshQueue`: two uids, retention 2, records until tick 4, clock until tick 8.
  A uid can register, be collected, register again and be collected again; the
  stall can be as long as the retention, which is the boundary case of
  `NoOrphan`. `NoOrphan` and `OnlyExpiredErased` are proved for all values.
  `MaxReg` makes the map drain and `MaxNow` leaves time for it.
* `SharedPtrSlot`: two readers, versions 0 to 2: one replaced version in use, one
  being replaced, one being loaded; a torn copy beside a whole one. To refute
  `NoUseAfterFree` one reader and one flush are enough.
* `DyeingService`: one worker, because workers share nothing they write; two
  versions per slot, so that every consultation may see the one or the other;
  one uid; calls for two types, for none, and batches of 0, 2 and 3 items with
  `MaxBatch` 2.
* `DailyGate`: 4 hours of 6 ticks, an iteration of 1 to 3 ticks, and the fresh
  hour at the wrap; started at any time of the day, in the fresh hour too, with a job
  or with a sleep. The tick is a sixth of an hour, the 10 minutes of the sleep.
* `OnlineHash`: 10 hash values for 1000, every subset of the five keys, three
  shapes of tables (dividing, overlapping, with gaps).
* `PolicyLoad`: two types; a list without one of them, with one twice, and empty;
  texts that are empty, have one product, two, one twice, and lines that do not
  parse; two edits, so that a type can leave and come back during a load.
* `PushTable`: every result of up to three rows over two keys, three timestamps
  and two types. `LatestWins` is proved for all values.

* `ThreadPool`: two workers, two jobs, two starts: a worker leaves while the other
  is between pop and run, a job is queued behind one that runs, a pool is started
  again.
* `ThreadQueue`: two threads and two items, up to three of them queued: more items
  than threads, and fewer. `ThreadLocks`: two threads with two nested guards each.
* `Logger`: one writer, three lines, two calls of `sync()`: there and back. Two
  flushers can be at work. Behind one line `roll()` throws once with the text in the
  file (`ThrowBound`): more throws only add more copies. `LogFiles`: three files of two lines, five lines, so that
  the oldest file is swept, and periods of three ticks with local time one tick
  ahead, over two and a half periods.
* `RedisClient`: two nodes, for the redirection. `Redis2Client`: two clients that
  share the counters, which count from 2 where the code counts from 10. `CoRedis`:
  three nodes: the one that is down, the one that answers, the one that owns.
* `TcpClient`: messages of 3 bytes, so that a part can be behind and a part to come,
  and numbers modulo 8, more than twice the size; one passing error of `::send` for each
  connection, after which that connection is out of step for good. `SqlClient`: up to two rows.
* `ServiceRpc`: three calls of a connection, one method the server does not have.
* `KafkaConsumer`: two partitions, three records, two starts, one rebalance:
  a crash before, between and after the two checkpoint writes, a partition that
  comes back with less committed than was read.

### Fairness

Weak fairness of the clock, and of a thread that is inside a function: it is
scheduled and no lock is held across a wait. The clear thread's fairness covers
entering `clear` again, which `DailyGate` justifies. Nothing obliges the Kafka
thread to get a record, a load to succeed or fail, a request to come, or a
handler to throw: these are choices without fairness. In `PolicyLoad` the flush
thread is fair (it loads every minute) and the operators are not.

In the library a thread that is inside a function is fair, and so are the threads
that loop for ever: the workers of the pool (which also let a deadline pass), the
flush thread of the logger, the Kafka thread and the coordinator of its group, the
server of `ServiceRpc`. The clients recover by their own calls, so that the caller is
fair for one command: a hash command of `RedisClient` (it follows MOVED), `get` of
`Redis2Client` (it reconnects), a call of `CoRedis`, a statement of `SqlClient`.
Nodes, servers and networks are not fair: they may fail for ever, and a property
that says "recovers" starts from `settled`, after which they no longer fail.

## Proofs

`FreshQueueProofs`:

* `TypeCorrect`: `Spec => []TypeOK`.
* `ErasesOnlyExpired`: `Spec => OnlyExpiredErased`.
* `NeverOrphaned`: `DistinctStamps /\ Spec => []NoOrphan`.

`NoOrphan` is not inductive. `SetQueue` publishes a uid, so the invariant must
say that the entry `SetTime` made for it is still in the time index. Nothing
excludes a sweep in between; what saves the entry is its age: it is not older
than `Stall`, and the sweep takes what is older than `Retention`. Hence `Inv`:

* `TypeOK`;
* `IndexedFirst`: while `set` is between its halves its entry is in the index and
  not older than `Stall`;
* `CutoffPast`: the age limit of a sweep in progress is at most `now - Retention`;
* `SweepOld`: what a sweep has collected is older than `Retention`.

`InitInv` and `NextInv` show that it is inductive, one step per action;
`Invariance` is `Spec => []Inv`. `SweepOld` also gives `OnlyExpiredErased`.
`NextNoOrphan` shows that a step from `Inv` preserves `NoOrphan` when stamps are
distinct: without that, `SetTime` may overwrite the entry that covers a uid.

`SharedPtrSlotProofs`, under `ReadersApart` (finitely many readers, none named like the
flush thread's own pointers), with copies and assignments that overlap as they like:

* `TypesHold`, `CountsExact`, `RequestsSafe`: `[]TypeOK`, `[]RefsExact`, `[]WholeCopiesSafe`.
* `SlotIsSnapshot`: `Spec => ImplementsSnapshot`, the refinement.
* `SnapshotSafe`: `[]Snapshot!HeldIsAlive`, what the abstract slot promises, of the
  detailed one: what is shown, published or held by a whole copy is in memory.

The property that matters, that no whole copy uses what is freed, follows from exact
counts; exact counts are not inductive, because a step that drops a pointer must
know which version it points to. `SlotWords` says it for the two words and the
flush thread's pointers at each of its steps; `CopyWords` for the copies: a copy in
progress that met no swap has words of the member as it is, and a whole copy counts in
the block of its object; `BornInOrder` that the next version is not in use yet. `Exact`
counts torn copies as well: a block that is still there has an owner, so a torn copy
that counts itself in it is one owner more (`CountInv`). If the block is freed, `sound`
is `FALSE`, and of that state `SlotInv` keeps the types alone. `AddHolder` and
`DropHolder` relate a count to the set of owners, one per step of counting.

`DailyGateProofs`: `TypesHold`, `OnceADay` (`[]AtMostOnce`), `NoDayMissed` (`EveryDay`),
for any length of the day, hour, sleep and pace the assumptions of `DailyGate` allow.
`Since` is the number of ticks since the clock last showed the fresh hour. The
invariant ties the flag to it: what the gate has let in since the fresh hour began
(`Gated`: all jobs but the first of a `FreshThread`) is one at most, and none while the
flag may still open the gate; the flag is shut while the job of the hour is done and the
hour not over (`Shut`), armed again before the hour comes back (`Rearmed`), and a job that
is due is due for less than an iteration (`Due`, `JobSoon`, `Paced`). The lemmas on
`\div` and `%` (`HourIs`, `NextTick`, `DayLength`, `TickSince`) replace the arithmetic the
provers do not do.

`DyeingServiceProofs`: `RequestTypes` (`[]TypeOK`), `WhiteListAlwaysWins`
(`[]WhiteListWins`), `ProductAlwaysJustified` (`[]ProductJustified`),
`RepliesWellShaped` (`[]ReplyShape`) and `VersionsAlwaysMonotone`
(`[]VersionsMonotone`), for any workers, users, types, calls, batch sizes and contents;
`CallAssumption` says that calls are lists of items with lists of types.
The properties speak of the moment of the decision; the invariant carries what each consultation has said so far (`SoFar`, `NotWhite`) and
that it was true at some moment of the request: slots only grow (`Grown`), so that
what was seen in a version between the request's first and the latest stays seen.

The shape of a reply has an invariant of its own, `ShapeInv`: the items finished so far are answered as they should be
(`AllAnswer`), and the entries of the one in progress answer some of the types before
the k-th, in order (`Ordered`, a position for each entry); `OrderedAdd` appends one,
`EndShape` closes the item, an exception anywhere in between included. `Recorded` is
about what has been written: every entry has a version that its slot has reached
(`Stamped`), and they are in order (`Monotone`). A new entry takes the version its slot
shows, which no earlier one exceeds (`AddRecorded`); the slots only grow
(`LaterRecorded`). That an entry of a bucket is never taken for one of the white list
needs the products of `Justified`: the invariants hold together (`RequestInv`).

`PoliciesProofs`, under the assumptions named in `Policies`:

* `PolicyTypes`: `[]TypesOK`, of the three parts.
* `LookupComputes` (`[]LookupComputesConf`) and `OwnTableServed`
  (`[]LookupNeverDefaultForOwn`): the five lookups and the scan compute the first
  bucket that contains the hash in the most specific table. `LookupInv`: the keys tried
  are in no table, the buckets passed do not contain the hash.
* `SteadyTypesServed` (`[]LoadSteadyServed`) and `PolicyIsOfThisLoad`
  (`LoadFromThisLoad`, an action property). The properties speak of a published policy;
  `LoadSteady` says of a load in progress that a type configured all the time is still
  to be read or has been parsed into products, `LoadFresh` that every product so far was
  in its node since the load began.
* `LatestRowWins` (`[]LatestWins`): `TableInv` says of every prefix of the rows that the
  map is right for it; `SetMapLatest` is the step: a row that is taken decides for its
  key because it is later than the row that did, and that one was not older than any
  before it.

`LibraryThreadProofs`, under the assumptions named in `Library` (finitely many threads;
bounds are numbers; a period is positive and the clock sees one):

* `WaitsAndLocksAreExact` (`[]WaitsAndLocksExact`). A wake-up is not lost:
  while a thread sleeps, at least as many others are woken as there are items
  (`Enough`); the lemmas follow the two counts through a signal, a pop and a deadline.
  For the locks the invariant counts the guards that hold (`Trues`) against the count of
  the mutex and what `wait` puts aside: never more (`LMonitor`, `LThreads`), and exactly as many unless `tryAcquire`
  was misused (`LExact`).
* `LogStaysWhole` (`[]LogIsWhole`). `GHeld`: every line written so far is in the stream,
  the queue, a flusher's hands, the file or the lost ones, and is there once; a line
  that is in two places, twice in one, or lost and kept was put into `twice` by a writer's `roll()` that threw behind its write. `GOrder`: until `sync()` is first called the way
  from the file back to the stream is a rising sequence. `FLog`: the files, from the
  swept ones to the newest, are sorted, one before the other, and lack only the lines
  of files that were removed; `FReopened`: a file that is removed was not when it was
  last opened; `FDated`: the period that ends at `cut` has begun, and the file has the
  name of its first day.

`LibraryClientProofs`: `ClientsReportTheTruth` (`[]ReportsAreTrue`) and `LibraryTypes`
(`[]TypesOK`, of the eleven parts). Each client's invariant says where the one answer
that is owed can be:

* `RedisClient`: a rule that looks at the reply never makes a success of a refusal
  (`RefusedFails`, by cases over the tables of commands); `set`, `remove` and `hashdel` do
  not look, and nothing is claimed of them.
* `CoRedis`: a connection owes at most the reply of the command that waits on it
  (`CoOwed`): a command that fails closes the connection, and the reply with it, before
  the client turns to another node.
* `TcpClient`: what the peer has not taken and what the client has not read are never
  more than a request and the doubled byte (`SCount`), on every connection; on one that is not `Garbled` they are
  the part sent of the request in progress, or the part to come of its reply, byte for
  byte (`SWhole`); a call that fails closes the connection and with it what is in flight.
* `SqlClient`: a result is "ok" only after the session has executed the statement.
* `ServiceRpc`: the client's one message is asked, served, answered, or nowhere (`PWaits`):
  it was lost with the connection, or the server could not read it.
* `KafkaConsumer`: what is before an assigned, a stored or a committed offset was read
  (`KInv`), and, because a restart assigns from files, no file has a name that `Init`
  looks for (`NeverThere`). `KCheckpoints`: the record whose place is being written was
  read, and its partition's file is there before offset.txt is touched.

`ThreadPoolProofs`, under `PoolAssumption` (finitely many jobs; the name for no job is
none of them):

* `TypesHold` (`[]TypeOK`), `EveryJobKept` (`[]JobsKept`), `OverlookedOnlyPopped`
  (`OnlyPoppedOverlooked`), `StoppedQuietly` (`StopQuiet`).

`PoolInv` has a part for each question: the counter of the queue (`QueueExact`); who has
a job in hand and who is counted as busy (`HandsFull`, `RunnersBusy`); how far `start()`
and `stop()` have come (`StartingAhead`, `EntryAwaited`, `StoppedBehind`), what
`_running` means (`RunningInside`); and that every job is in exactly one place
(`JobsOnce`), once in the queue and in one hand. `JobsKept` counts: the length of the
queue is the number of queued jobs and the full hands are as many as the held jobs,
each by a bijection, and the places are disjoint.

## Only model-checked

* Liveness is out of the prover's reach: `EventuallyForgotten`, `OldFreed`, `Answered`,
  `JobRepeats`, `LookupReturns`, `LoadConverges`, `JobsTaken`, `CallsReturn`,
  `WaitReturns`, `ClientsRecover`, `LogFlushed`.
* That is all: every invariant and every action property of the passing runs is
  stated by a theorem.
* The properties that violation runs refute, and the stronger ones below "Findings",
  have no theorem.

## Not modelled

* Exceptions that end the process: the configuration client's, and the one of
  `connect()` outside the `try` of the MySQL plugins.
* Reads of an unconfigured or padded `fresh_hour`.
* `getLogic()` returning NULL: workers are started, and recorded, before `init`.
* `INV_TimeProvider`'s double buffer: a data race whose outcome depends on the cycle
  counter of the processor; what a reader may mix has no bound to state.
* The redis cluster client (`inv_redis_cluster.cpp`): `_connected` is never set, so that
  no command is ever sent.
* The HTTP client and the poller, wrappers of libcurl and epoll; the shared-memory
  queue, which the server does not use; the configuration client and parser, whose
  nodes `PolicyLoad` edits; the service monitor, compiled in only on request; lines
  sent to a remote log server; utilities (strings, files, encodings, digests,
  images, functors), pure functions for the most part.
* In what is modelled: the text of commands, statements and log lines; argument
  parsing; threads of a second `INV_Redis` object, except where objects share state.

## Plan

Done, in this order: `FreshQueue` (the state with the most delicate
interleaving) and its proofs; `SnapshotSlot` and `SharedPtrSlot`;
`DyeingService`; `DailyGate`; `OnlineHash`; `PolicyLoad`; `PushTable` and its proof;
`ThreadQueue`, `ThreadPool`, `ThreadLocks`; the redis, socket and SQL clients;
`ServiceRpc`; `Logger` and `LogFiles`; `KafkaConsumer`; the proofs about
`SharedPtrSlot`, `DailyGate`, `DyeingService`; `Policies` and `Library` with theirs; the
proofs about `ThreadPool`.

What is left, in order of worth:

1. The shared-memory queue, as two processes over a ring that crash and come back.
2. The parse of the configuration files, as a function checked against a grammar.
