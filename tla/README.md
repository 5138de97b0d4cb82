# A TLA+ model of the TLS producer

This directory models the producer of the C SDK (`src/core/src`): the threads and
queues between `ve_tls_producer_add_log_*` and the HTTP request, and the
guarantees an application relies on (batches of one hash key in order, one
callback for every batch, `close` drains, limits are kept).  File names below are
relative to `src/core/src` unless they start with `src/`.

## 1. The system

An application calls `add_log`.  The log goes into a *builder*, the batch being
built for its hash key.  A full builder is *sealed*.  *Worker* threads seal
builders on a flush, encode and compress them and push them to the *send
queue*.  *Sender* threads move the batches from there to the queue of their hash
key, pick a key queue that is ready, and send its first batch with retries.  The
`send_done` callback reports the result of each batch.

| Component | State | Operations | Module |
|---|---|---|---|
| per-hashKey scheduler, `producer/ve_tls_producer_queue.c` 457–865 | key queues in hash buckets; ready, delayed and idle lists; flags; key breaker | get_or_create, reserve, push, push_front, pop, finish, promote, idle cleanup, free | `KeyQueues` |
| senders, `producer/ve_tls_producer_sender.c` | the queue and the task each one owns, the attempt counter, `fast_inflight` | `ve_tls_sender_main`, `ve_tls_sender_main_fast`, `ve_tls_sender_step` | `KeyQueues`, `Breaker`, `FastPath`, `Env` |
| send queue, `producer/ve_tls_producer_queue.c` 153–356 | ring, mutex, two condition variables, stop | push, pop, stop | `SendQueue`, `SendFifo` |
| global breaker, `producer/ve_tls_producer_common.c` 86–186 | open time, failures, half-open slots | wait_open, try_enter, leave | `Breaker` |
| workers, `producer/ve_tls_producer_manager.c` | sealed list, flush request, flushing count, scratch memory | `ve_tls_worker_main_builder` | `Ingress`, `Pipeline` |
| writers, `ve_tls_producer.c` | builders, byte counters, log ids, thread-local batches | `add_log*`, flush | `Ingress`, `Pipeline` |
| thread-local batching and ingress queue, `ve_tls_producer.c` 336–679, `producer/ve_tls_producer_queue.c` 358–455 | a batch per thread, ring of batches | append, flush, push, pop, merge, reset | `Ingress` |
| memory budget, `ve_tls_producer.c` 1266–1515 | six byte counters | wait, reserve, move, release | `Budget`, `Ingress` |
| close, destroy, drain check, `ve_tls_producer.c` 681–1230 | accepting, closing, stop | close, destroy | `Pipeline`, `Ingress`, `FastPath`, `Env` |
| run environment, `producer/ve_tls_env.c` | list and run queue of producers, lifecycle flags, active operations | init, destroy, register, unregister, notify, tick, sender threads | `Env` |
| snapshots, `producer/ve_tls_snapshot.c` and the caches in the sender | versions, reference counts, thread-local caches | update, publish, acquire, release, fetch | `Snapshot` |
| credentials provider, sender 552–695 | cached credentials, refresh flag | get | `Credentials` |
| object pool, `producer/ve_tls_pool.c` | lock-free list, `cached` | get, put | `ObjPool` |
| raw buffer, `ve_tls_producer.c` 2249–2600 | the file the application keeps | export, import | `RawBuffer`, `Ingress` |
| retry policy, rate limits | – / token buckets | pure | effect in `KeyQueues`, `FastPath` |
| configuration, encoding, signing, hashing, compression, HTTP, platform | – | – | not modelled: start-up, bytes and I/O |

How the parts interact: `producer->mutex` protects the scheduler, the builders,
the sealed list and the breaker; the send queue has a mutex of its own and is the
only way from workers to senders; a sender uses its key queue without the mutex,
protected only by the `inflight` flag; writers, workers and the drain check use
`producer->cond`, senders and `close` use `producer->send_cond`; user callbacks
run on worker and sender threads.

What is hard: four lists and flags per key queue that have to agree; ownership by
a flag; state that is read, unlocked and used (the stop check, the drain check);
a batch between two queues; requeues in the middle of retries; queues that are
freed and created again; limits that are reserved early and used late;
`cond_signal` with several kinds of waiters; `close` against everything else.
`PROJECT.json` lists each hazard with its line and the properties that cover it.

## 2. The modules

**KeyQueues** is the scheduler and the loop of `ve_tls_sender_main`.  One critical
section of `producer->mutex` is one action.  A key queue is its key: `active` are
the keys that have a queue, `tasks[k]` its ring as a sequence, `ready` the ready
list, `delayed`, `idle` and `inflight` the other lists and flags as sets.  The
fields of a key without a queue have their initial values, so that freeing a
queue resets them (`RemoveAndFree`).  Deadlines are kept as the time left to
them, and `Tick` lets time pass for all of them; `cool` is the history of the
open period of a key breaker that no free can erase.  A sender's place (`pc`) is
one of:

| pc | in `ve_tls_sender_main` |
|---|---|
| loop | 1508–1521, `Take` |
| wait, poll | the pop of the send queue at 1524 with wait_ms -1 or 0 |
| push | 1525–1552 or 1575–1602, `PushTask` |
| check | 1554–1569, `CheckStop` |
| tail, last | the second poll at 1573 with pending tasks or none |
| sweep | 1611–1628, the idle cleanup and the wait on `send_cond` |
| gate | 1666–1689, the key breaker and the key rate limit |
| send | the request, 1709–1740 |
| finish | before `ve_tls_key_queue_finish`, 1798 |
| exited | 1608 |

The workers are the environment here: `Reserve`, `Inbound` and `DropTask` are the
calls that `ve_tls_manager_push_send_task` makes.  The wait on `send_cond` has a
timeout of at most 100 ms or the next deadline, so it is not a state of its own.
The token bucket of the key rate limit may deny for any time up to `RateDelay`.
The global breaker is off, as by default, and has its own module; allocation
failures are left out.

**Pipeline** extends KeyQueues with the writer (`AddLog`, the path of
`add_log_kv` with a hash key), the workers (`SealAndTake` is one critical section
of `ve_tls_worker_main_builder`, `WorkerReserve` and `WorkerPut` are
`ve_tls_manager_prepare_send_task` and `_push_send_task`) and `close`.  A worker
makes a round when there is work it does not wait for (`WorkerRound`: a flush, a
sealed batch, a stop) or when a flush interval it waited for is over
(`WorkerInterval`); nothing makes the second one happen, as nobody wakes a worker
for a log that does not seal its builder.  A task is
a batch, numbered in the order in which batches are begun.  A builder hangs off
its key queue and is freed with it (`PipelineSender`).  `IsDrained` is
`ve_tls_producer_is_drained_locked`.

**SendQueue** is the ring with `head`, `tail`, `count`, `not_empty` and
`not_full`.  A thread in push or pop is at the test of its loop with the mutex
("enter") or waiting ("wait"); a wait ends by a signal, a broadcast, a timeout
("timed" becomes "late") or spuriously.  `Signal` wakes one of the waiting
threads, whichever.  **SendFifo** is the abstract specification, a bounded FIFO
that can be closed; KeyQueues and Pipeline use the send queue in that abstract
form, as the sequence `sendq` with `sqStop`.

**Breaker** is the global breaker between the retry loops of several senders, and
the gate of the key, which is asked before every request, in front of it.

**Budget** is what the memory budget promises: the saturating sums and the
admission test of `ve_tls_has_buffer_space_locked` as operators, and the moves of
bytes between the six counters as actions on any amount.

**Ingress** is everything in front of the send queue.  It extends Budget, and
each of its steps is a step of Budget (BudgetSpec, checked by the run `ingress` and
proved as `IngressImplementsBudget`).
One action is one critical section of `producer->mutex` or one step between two of
them.  A writer's place (`pc`) is *space* (the wait for room), *copy* (a raw log is
copied without the lock), *append* (the log joins the thread-local batch, without
the lock), *flush* and *reflush* (`ve_tls_tls_batch_flush_locked` asks for room for
the batch), *push* (the wait for a place in the ingress queue), *drain* and *join*
(close).  A worker's place is *loop* and *timed* (its two waits), *items* and
*batches* (the loops at manager.c 399 and 434), *prepare*, *compress*, *reserve*,
*put* and *release* (one task on its way to the send queue).  `waiting` are the
threads that wait on `producer->cond`; a signal wakes one of them, whichever, a
wait for room ends by its deadline too (`late`).  Logs have size 1 and a batch is
the set of its logs, so that the counters can be compared with what they stand
for: `Sizes` counts the pairs of a batch and a log in it.  `Merge` is the loop over
the ingress queue as a recursive function; which batches find no place at the key
limit is a choice.  A worker drops those with a callback and goes on; an export
(`ExportDrain`) stops at the first one, frees it and leaves the ones behind it in the
queue, and an export that cannot merge the batch of its own thread leaves everything
as it was (`ExportRefused`).  The senders are reduced to taking a task and finishing it.

**Env** is the run environment: `g_env_init_mu` with the lifecycle flags and
`active_ops`, `g_env.mutex` with the list and the run queue, the sender threads,
and for each producer its way from create over close and unregister to the free.
What a producer holds is counted in three stages, all of which the drain check of
the environment's destroy looks at (`Drained`): `building`, batches that nobody has
asked to flush; `packing`, batches in the ingress queue, the raw queue, the sealed list
or with a worker; `tasks`, which only senders take.  The close of the producer asks for
a flush and moves the first to the second stage; the destroy of the environment does
not.  What a sender does for a producer is reduced to taking a task and finishing it.

**Snapshot** has the updates of the configuration field by field, the publication,
and the fetch of a sender step by step (version, pointer, count, compare, release,
retry).  The content of a part is the pair of the producer and the version that
wrote it.  A read of a freed count is a choice of any outcome (`wild`).
**Credentials** is `ve_tls_get_dynamic_credentials_owned` with the clock, **ObjPool**
the lock-free list at the grain of its atomic operations, **FastPath**
`ve_tls_sender_main_fast` with `fast_inflight` and the drain check that reads the
queue and the counter one after the other, **RawBuffer** export and import with
crashes, damaged files, and ids.

**MCParts** checks SendQueue, Breaker, Snapshot, Credentials, ObjPool, FastPath and
RawBuffer in two runs.  They share no state: Init picks one of the parts, and a
behaviour takes steps of that part only, which is the same as one run per part.

The theorems are in **KeyQueuesProofs**, **PipelineProofs**, **SendQueueProofs**,
**BreakerProofs**, **IngressProofs** (Budget and Ingress), **SnapshotProofs**,
**EnvProofs** and **PartsProofs** (FastPath, Credentials, RawBuffer and ObjPool).  The
**MC** modules hold the values of constants that a `.cfg` cannot express.

## 3. The runs

| Run | Instance | Checks |
|---|---|---|
| pipeline | 1 writer, 1 worker, 2 senders, 3 batches of 2 keys, retries, breaker, rate limit, idle queues, close with timeout | Placement, NoStrandedTask, OneSenderPerKey, KeyFifo, SomeoneServes, NoLostBatch, ClosedIsDrained |
| pipeline_liveness | 2 workers, 1 sender, 3 batches of 2 keys, key limit 1, retries, breaker, idle queues, with and without flush | OneCallback, KeyQueuesSpec, CloseReturns, SealedBatchAnswered, BreakerRespected |
| parts | send queue: 2 pushers, 2 poppers, 4 tasks, 2 slots, failing allocations; breaker: 3 senders, 2 slots, key gates; snapshot: 2 senders, an update of up to 2 fields, 2 producers at one address; pool: 3 threads, 3 objects, 2 cached; fast path: 2 senders, 3 tasks; raw buffer: 3 logs, 1 crash | PopperWakeup, ImplementsFifo, RequestsBounded, RefsExact, FetchCurrent, FailureExplained, PoolExact, FastAnswered, Recovered |
| parts_liveness | send queue with 1 slot and 3 tasks, no failing allocations; breaker without key gates; credentials: 2 senders, lives 4 or for ever, clock to 8 | PusherWakeup, SlotsExact, CredentialsUsable, PushReturns, SomeoneSends, CallReturns |
| ingress | 2 writers, 1 worker, 3 logs of the thread-local or the raw kind, ingress queue of 2, key limit, budget 5 with reserve 1, BLOCK and DROP, close, flush, export, import (also broken off), switch of producers | CountersExact, Accounted, WorkerAwake, WithinBudget, BudgetSpec |
| ingress_liveness | 2 writers, 1 worker, 2 logs of all kinds, ingress queue of 1, key limit, ingress breaker, budget 3 | CallsReturn, BatchesAnswered |
| env | 1 producer, 2 senders, 1 thread that calls init and destroy up to 4 times, 2 batches | NoFreedProducer, ResourcesAlive, FlagExact, TasksServed, DestroyReturns |
| key_order, builder_freed, breaker_leak, config_reuse, flush_interval | smallest instances | expected violations, section 5 |

What they show.  *Senders*: the lists and flags of a key queue agree and no task is
stranded (Placement, NoStrandedTask); the `inflight` flag is a lock
(OneSenderPerKey); a key queue stays a FIFO through requeues (KeyFifo); the stale
stop check never lets the last sender leave work behind (SomeoneServes); every
batch is on its way or answered (NoLostBatch), once (OneCallback, which without a
rate limit also bounds the attempts), and a sealed one is answered in the end
(SealedBatchAnswered); although the drain check cannot see a task
between the send queue and its key queue, or between the pop and `fast_inflight`,
close returns VE_TLS_OK only when nothing is left, because the senders are joined
(ClosedIsDrained, FastAnswered).  Every composed step of the pipeline is a step of
KeyQueues (KeyQueuesSpec), so what is proved of KeyQueues holds in the pipeline.
*Queues*: one `cond_signal` per task and per slot is enough (PopperWakeup,
PusherWakeup).  *Ingress*: every path, with all its failures, moves and releases
exactly the bytes it counted (CountersExact), so the saturating subtractions never
saturate; a log is never forgotten except with a thread-local batch that is reset or
freed, or with the batch at which an export meets the key limit (Accounted: the history
`lost` is written at those three places only); the one
condition variable for writers and workers is enough under DROP (WorkerAwake).
*Environment*: the lifecycle lock keeps a producer's destroy, an environment's
destroy and the senders apart (NoFreedProducer, ResourcesAlive), and they do not
wait for each other in a circle, unless a registered producer keeps a batch that
nobody flushes (DestroyReturns).  *Configuration*: the counts of
snapshots are exact and a fetch serves the newest configuration that had been
published when it began (RefsExact, FetchCurrent), and fails only beside an update
(FailureExplained).  *Recovery*: an import after a crash brings back what was
exported, and ids stay unique unless an import broke off (Recovered).

**Bounds.**  Two senders are enough for every race on a queue, as an action
involves one sender and the state of one other; two keys for the lists to hold
more than one queue, two tasks of a key for a push during a flight.  The clocks
count to 1 or 2, which tells "not yet", "now" and "over" apart; the clock of
Credentials goes to 8, past two lives of a credential.  MaxAttempts of 1 or 2 gives
a first request and a retry.  Two slots make the ring wrap with a full, a half full
and an empty queue; four tasks go around it twice.  `tries` stops counting at
MaxAttempts + 1, `fails` at its threshold, `age` at IdleTtl, where no comparison in
the code can tell the difference.  In Ingress a package has 2 logs, so that there
are batches below, at and above the threshold (a merge of two), one place makes
the ingress queue full with one batch, two let an export free one batch and leave
another, and a budget of 3 or 5 with a reserve of 1 makes writers and workers wait
for each other.  `Steps` stands for the 64 steps of
`ve_tls_env_sender_main`, `Tries` for the 4 attempts of a fetch.  Two producers at
one address are enough for a stale cache.

The run that checks NoLostBatch seals a batch with its log (`flush` of `add_log`):
builder_freed in section 5 says what happens otherwise.  SealedBatchAnswered speaks of
batches on the sealed list or with a worker, as one that nobody seals may wait for
ever (flush_interval). The bound on attempts and BreakerRespected hold without a key
rate limit and with an idle time of at least the open time, for the same reason.  With
that idle time a batch is never dropped at the push to its key queue in
pipeline_liveness; OneCallback is proved for every key limit and idle time.  PoolExact
is checked with one getter, Env with one thread that destroys and a run queue with a
place for every producer.

Symmetry is used only in runs without liveness (the senders in pipeline, pushers and
poppers in parts, writers in ingress).  The run pipeline leaves the histories `tries`
and `cool` out of the fingerprint (VIEW): no guard and no property of the run reads
them.  All configurations switch the deadlock check off, since every instance ends
rightly with a closed producer or with all its logs and calls used up; that nobody
waits for ever is what the liveness properties say.

**Fairness.**  Weak fairness of each thread's own step and of the clock: the platform
schedules every runnable thread, a request returns (the HTTP adapter has timeouts),
and each wait of the senders and of `close` has a timeout or is ended by the stop of
the send queue.  A worker is fair where it has work (`WorkerRound`) and not where it
would have to wait for an interval (`WorkerInterval`).  In SendQueue waits end by
signals and timeouts only; spurious wakeups are possible but never assumed.  In
Ingress threads that do not wait go on, and deadlines and flush intervals pass.  In
Env threads go on and no timeout has to come: destroy is shown to return by draining.
There the workers go on with what they were given (`NewTask`), but nobody has to fill
or flush a batch (`SealBatch`).  In Credentials the provider returns.  Nothing is
assumed of the application: it need not write, flush or close.

## 4. What is proved

TLAPS checks the following for every value of the constants.  The assumptions are
those stated with the constants (`KeyQueuesAssumption`, `PipelineAssumption`,
`SendQueueAssumption`, `BreakerAssumption`, `BudgetAssumption`, `IngressAssumption`,
`EnvAssumption`, `SnapshotAssumption`, `FastPathAssumption`, `CredentialsAssumption`,
`RawBufferAssumption`, `ObjPoolAssumption`): finite sets of keys or threads, names that
differ, at least one thread where the code starts at least one, sizes in Nat, limits
and periods that must be positive to have a meaning.  Some theorems have a
hypothesis beyond these.  Without it the code does not have the property, as the run
or the remark in section 5 shows:

| Theorem | Hypothesis | Without it |
|---|---|---|
| `BreakerHolds` | `OpenMs <= IdleTtl` | the breaker is freed with its queue |
| `NothingLost` | `FALSE \notin Flushes` | run builder_freed |
| `KeysInOrder` | one worker and one sender | run key_order |
| `FetchesCurrent` | `SharedEnv = FALSE` or `MaxGens = 1` | run config_reuse |
| `FlagExactHolds` | `Cardinality(Producers) <= QueueCap` | a full run queue drops the push |
| all of EnvProofs | one thread that destroys | two destroys tear down twice |
| `PoolStaysExact` | `OneGetter` | ABA |

*KeyQueuesProofs.*  `Invariance` proves `Spec => []Inv` for
Inv = TypeOK, SenderOK, Placement, NoStrandedTask and OneSenderPerKey.  None of the
parts is inductive alone: that `Finish` may put a queue on the ready list needs
that the sender owns it and that it is on no other list (Placement), that two
senders never own one queue needs that a ready queue is not in flight, that `Take`
finds a task in the queue it pops needs NoStrandedTask, and SenderOK ties each
place of a sender to what it holds.  There is one lemma for each action or group
of actions that change the same variables, resting on facts about appending,
taking the head and concatenating lists without repetition, and on
`PromotedFacts` for the order of promotion.  From it follow `TypeCorrect`,
`PlacementCorrect`, `NothingStranded` and `KeyExclusion`.

`OnceInvariance` adds where a task can be: in the send queue, in the hands of a sender
that is about to push it, or among the tasks ever pushed to its key, each once, and
with a callback exactly when it is among the finished ones.  KeyFifo (what a key
finished, what its sender holds and what it still has make up what was pushed, in
order) is a part of it: that a requeue leaves the order alone is only true because the
task a sender holds is the first one not finished.  `KeyFifoCorrect` and
`OneCallbackCorrect` follow, the latter with the number of attempts of the task in
hand.  `SomeoneServesCorrect` rests on what a sender that leaves has just seen, and
`BreakerHolds` on the open period being covered by the deadline of the queue as long
as it exists and by the idle time when it is freed.

*PipelineProofs.*  `PipelineInvariance` adds to OnceInv the way of a batch in front of
the send queue (builder, sealed list, a worker's list and hand): each batch is at one
place of it and has not been at a later one.  This is what makes the hand-over a step
of KeyQueues, which takes only tasks it has not seen: `PipelineRefines` proves the
refinement, and `PipelineKeyQueues` transfers the six invariants.  `CloseDrains` needs
that senders leave only when the send queue is stopped and empty and that close joins
them; the drain check alone would not do.  `OnlyFreeLoses` is an action property: no
step but the free of a key queue with a builder takes a batch out of the pipeline
without a callback.  `NothingLost` follows, as without unflushed logs there are no
builders.  `KeysInOrder` has an invariant that compares the batches of every two
stages of the way and orders them within each stage.

*SendQueueProofs.*  `RingCorrect` (the slots from head to tail hold the tasks),
`PopperAwake` and `PusherAwake` (the number of threads on their way to the ring
covers the tasks or the free slots whenever one sleeps, by induction over the
signals, with cardinalities), and `SendQueueImplementsFifo`, the refinement of
SendFifo with the contents of the ring as the queue.

*BreakerProofs.*  `SlotsCorrect` and `ConcurrencyLimited` from BreakerInv:
every sender behind the breaker has a slot of its own, so the requests never
exceed the slots; the invariant says `<=` with key gates, where slots leak, and
`=` without.

*IngressProofs.*  `BudgetKept` for any limit, reserve and sizes, from BudgetInv:
WithinBudget and that everything but `queue_bytes` keeps to the limit.  The second
part is needed for the import, which looks at `queue_bytes` alone: the sum is then
bounded by the limit for the queue and the limit for the rest.  The lemmas
`AddSatBound` and `SumsExact` show that the saturating sums are either exact or
above every limit, `LogFits` and `SendFits` that an admitted amount keeps the sum
within the limit, the writer's test included, which compares only one side with
what the other leaves of the limit.

`CountersStayExact` and `EveryLogAccounted` are about Ingress itself, for any number
of writers, workers and logs, both policies, every kind of log and every call.
Neither property is inductive: that a flush may take the size of a batch from
`tls_bytes` and add it to `ingress_queue_bytes` needs that no log of the batch is
anywhere else.  The invariant `LogInv` says this once for all places: there is a
placement of the logs, `at` (the kind of place) and `by` (the thread, where each
thread has one), with which the batches, queues, builders, tasks and histories agree
(`Placed`), and the counters are the numbers of logs at the places they stand for
(`Counted`).  Two counters need care. `queue_bytes` counts a batch that a worker has
handed on until the release, when its logs are with the senders or answered already;
and a raw item is a task that is in no list. Every action then moves one set of logs
from one place to another, and a lemma for each kind of move says what becomes of the
places and of the counters.  A round of a worker is three such moves: the merge of the
ingress queue, the sealing of the builders, and the taking of the sealed list.  An
export is two, or three when it meets the key limit: its own batch and the merged ones
go to the builder or the sealed list, and the freed one to `lost` (`DrainMoves`),
while the sizes of the popped, merged and remaining batches add up to
`ingress_queue_bytes` (`DrainCounts`).  `Merge` goes through the queue recursively;
that it loses and repeats no log is shown by a smallest counterexample (`LeastNat`),
which takes the place of induction.  `ThreadInv` has where the threads are and the
bounds that the guards keep.  With `PlacesHold`, LogInv and ThreadInv hold at all
times, and the two theorems follow.

`IngressImplementsBudget` proves the refinement.  A step of Ingress moves as much as
Budget allows because, by LogInv, what the code subtracts had been counted: the merge
empties exactly `ingress_queue_bytes`, and a task that a sender takes is no larger than
`send_queue_bytes`.  `ProducerWithinBudget` carries BudgetKept over to the producer.

`WorkerStaysAwake` is about the condition variable.  Its invariant says that under DROP only
workers wait on the condition variable and that not all of them do while there is
something to take: then a signal cannot go to the wrong thread, and the one worker it
wakes is enough because it looks at everything before it waits again.

*SnapshotProofs.*  `SnapInvariance`: the published snapshot is of the producer and not
ahead of the versions; until an update overlaps a fetch, the version it wants, the
version published and the version of the snapshot it has read agree, so that it
cannot fail; and the counts are those of RefsExact, which needs that a fetch points
at a snapshot of the list.  `RefsCorrect`, `FailuresExplained` and, with the content
of the caches, `FetchesCurrent` follow.

*EnvProofs.*  `EnvInvariance` ties the lifecycle flags, `active_ops` and the list to
the places of the threads: operations are counted and there are none while the
environment is torn down, the flags say how far the destroying thread is, a producer
is in the list from its registration until it is taken out, and `env_inflight` counts
the senders that hold it.  `NoFreedProducerHolds` and `ResourcesAliveHolds` follow.
`FlagExactHolds` needs that every entry of the run queue, and every thread about to
push one, has a producer of its own; by counting them the queue then has room.

*PartsProofs.*  `FastPathAnswers`: every task is at one place of the fast path, and
`fast_inflight` counts the senders that have one after the pop.
`CredentialsAlwaysUsable`: the refresh flag is a lock, and what the cache holds lives
longer than the minimum interval in which no refresh is made.  `ImportRecovers`: a whole
export has every log held at that time, for any order of the builders, and the ids go
on from a largest value.  `PoolStaysExact`: there is a list without repetition of the
objects given back, along the links from the head; an object in a put belongs to its
thread, and the object the only get looks at stays in the list with its link.  That
`Chained`, a recursive function, walks along this list, and that a finite set
of ids has a largest one, is shown by a smallest counterexample (`LeastNat`),
which takes the place of induction.

Only model-checked: liveness, as TLAPS has no rules for ENABLED here (CloseReturns,
SealedBatchAnswered, PushReturns, SomeoneSends, CallReturns, CallsReturn, BatchesAnswered,
TasksServed, DestroyReturns).  Every safety property of a passing run is stated by a
theorem.

## 5. What the model shows about the code

Runs that TLC must find violated; `PROJECT.json` quotes the sentence each
contradicts.

- **key_order** – a sender pops a batch from the send queue and pushes it to the queue of
  its key in two steps (sender.c 1524); another sender can overtake it in between, and
  the key queue then sends two batches of one key in the other order.  Two to eight
  senders are the default; with one worker and one sender the order is kept (theorem
  `KeysInOrder`).
- **builder_freed** – `ve_tls_key_queue_finish` and `ve_tls_idle_cleanup` free a
  queue without tasks together with the builder in it (queue.c 752, 826): logs
  added while the last batch of the key was in flight are lost without a callback.
- **breaker_leak** – a sender denied by the key gate on a retry leaves with its
  half-open slot (sender.c 1688, 1248); with one slot all senders wait for ever.
- **config_reuse** – the caches of the environment's sender threads are keyed by
  address and version (sender.c 965, 679).  New producers take their version from a
  counter of the process, updates count on from the producer's own: a producer
  created where a destroyed one was can meet its version, and is sent to the old
  endpoint with the old credentials.
- **flush_interval** – a log that does not seal its builder wakes no worker
  (producer.c 1752–1803), and a worker that saw no builder waits without a timeout
  (manager.c 276): `flush_interval_ms` starts only when something else wakes it.

Seen with the same modules and not kept as runs:

*Senders and key queues*
- a retry denied by the key rate limit starts again at attempt 1 (sender.c 1675),
  `src/docs/retry-policy.md:14` and `:43` say that `max_attempts` is the maximum;
- with `key_queue_idle_ttl_ms` 0, the default, an open key breaker is freed with
  its queue (queue.c 826) and the next batch is sent inside the open period:
  BreakerRespected fails with IdleTtl = 0;
- when traffic ends every sender waits in the send queue without a timeout
  (sender.c 1518), and the idle cleanup at 1611 never runs again;
- a queue reserved for a batch that is then dropped (manager.c 171, 200–238) keeps
  its place under `key_queue_max_active` until another batch of its key is sent;
- the retry loop does not look at `producer->stop` (sender.c 1741–1758), while
  `src/docs/retry-policy.md:45` lists the closed producer among the ends of retries;
- `breaker_half_open_max_inflight` also limits requests while the breaker is
  closed (common.c 126);
- a pusher that finds no memory leaves its free slot without a signal
  (queue.c 261): PushReturns fails with AllocMayFail.

*Writers, workers and close*
- under BLOCK a writer that waits for room can take the signal meant for a worker;
  the worker then sleeps until the next signal or until a writer's deadline
  (WorkerAwake and BatchesAnswered speak of DROP only);
- a thread-local batch flushed after close has stopped accepting is still pushed
  (producer.c 445: the first look at the room does not mind a close), and when the
  workers have left it stays in the ingress queue;
- close flushes the batch of its own thread; the batches of other threads are
  neither flushed nor part of the drain check, although `src/README.md:177` says
  that close waits for the queues.  When a thread writes to another producer its
  batch for the first is freed (producer.c 557), and if that producer has been
  destroyed by another thread the counter it corrects is gone;
- an export at `key_queue_max_active` takes a batch off the ingress queue, cannot merge
  it, frees it without a callback and returns VE_TLS_DROP_ERROR (producer.c 2276–2282);
  what it merged before stays merged, and the batches behind it stay queued.  When the
  batch of its own thread cannot be merged it returns before that and keeps it
  (2258–2268).  Accounted and BatchesAnswered count the freed batch as lost;
- a worker that waits for send budget when close begins drops its batch
  ("ProducerClosed", with a callback), so a close under a full budget loses logs;
- an import holds only `queue_bytes` against the limit (producer.c 2558): the sum of
  the counters can reach twice `max_buffer_bytes`;
- an import that breaks off signals no worker: a close with timeout -1 that is
  already waiting then waits for ever (CallsReturn fails with "broken" in Calls);
- `agg_strategy` is documented to split by compressed size; a batch that is too large
  after compression is dropped (manager.c 152–159);
- manager.c from 474 on is compiled out.

*Environment, snapshots, credentials, pool, raw buffer*
- two destroys of the environment that both wait for an operation both tear it down
  (env.c 45–55): ResourcesAlive fails with two threads that destroy;
- `ve_tls_env_destroy` with timeout -1 waits for every registered producer to be drained,
  builders and queues included (env.c 343–352, producer.c 681–712), and asks none of them
  to flush: beside a producer with a log in its builder and no flush it waits for ever,
  and `ve_tls_producer_destroy` of any producer then waits with it in the unregister
  (env.c 83).  A producer whose close fails to flush the batch of its thread is such a
  producer too (producer.c 1009–1019): its own destroy and that of the environment wait
  for each other.  DestroyReturns without its exception for Unflushed shows both;
- with a full run queue the push does nothing and `env_in_queue` stays set (env.c
  168–173): the producer is not run again.  FlagExact fails with more producers than
  places, of which there are 4096 (env.c 296);
- an acquire may read the count of a freed snapshot (snapshot.c 52–56);
- a failed publication, or updates that overlap the four attempts of a fetch, make
  sends fail as not retryable, and their batches are dropped;
- with `credentials_refresh_min_interval_ms` 0 and credentials that expire within the
  advance, a caller refreshes for ever;
- when several threads get from a pool the list suffers from ABA: PoolExact fails
  with OneGetter FALSE.  The send queue gets under its mutex; the header and
  compression buffers are got by several threads;
- an export omits sealed batches and the send queue and takes nothing out of the
  producer, so that an import without a restart duplicates logs; an import that
  breaks off keeps its prefix and does not advance the ids.

## 6. What is not modelled

Bytes: encoding, compression, signing, hashing, HTTP and the format of the raw
buffer.  These are sequential functions without shared state, whose interesting
inputs are longer than a model checker can enumerate.  Allocation failures other
than in the send queue, the snapshots, the environment's start and the import.  The
derivation of the configuration, computed before any thread starts: its results are
constants.  The arithmetic of backoff and token buckets: doubles on the clock; their
effect, a bounded delay or denial, is in KeyQueues and FastPath.  The growth of the
rings of raw items and key queues (sequences here).  The setters of the callbacks
(two plain stores; a reader in between sees a new callback with an old parameter),
metrics, and the tools and demos.  In Ingress the senders, in Pipeline the budget
and the thread-local batches are reduced to their effect: a composition of both in
full is beyond TLC.

## 7. What could follow

- Pure operators against a reference: retry intervals with saturation, the derived
  configuration, the growth of the rings.
- Several getters of the object pool, once its list is protected from ABA, and
  allocation failures in Ingress.
