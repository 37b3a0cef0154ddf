# A TLA+ verification of Hiactor

Hiactor is a C++ actor framework on top of Seastar. Every reactor thread
(*shard*) owns a tree of actor groups and actors. Messages go to the address of a
node; nodes are created by the first message and end when they are stopped.
Machines are joined by TCP connections between their shards. A generator written
in Python turns annotated classes into references and dispatch code.

This directory models the framework in TLA+, checks the models with TLC on small
instances, and proves results with TLAPS for all instances. Definitions follow the
code under `src/`, not its documentation; `PROJECT.json` maps each to its lines and
lists the hazards the properties are about.

## Parts and modules

| Part of the code | Module | What is hard about it |
|---|---|---|
| actor tree (`actor-template.cc`, `actor_core.cc`, `root_actor_group.cc`) | `ActorShard` | nodes delete themselves; user code runs inside a stop and may send, create and stop |
| scheduling queue (`actor_scheduling.hh`) | `ActorTaskQueue` | the heap is rebuilt lazily |
| requests (`promise_manager.hh`, `actor_client.hh`) | `ActorClient` | promise ids are reused while responses are on their way |
| addresses (`reference_base.hh`, `actor_message.hh`) | `ScopeBuilder` | layers and the method's class share a fixed array |
| queues between shards (`local_channel.cc`, `actor_pollfn.hh`) | `MessageChannel`, `LocalChannel` | relaxed atomics, full queues, sleeping and waking |
| coordinator (`coordinator.cc`, `coordinator_worker.cc`) | `Coordinator` | barriers by name, a worker thread, its idle flag |
| shutdown (`root_actor_group.cc`) | `Shutdown` | teardown on all shards while others still work |
| network start (`actor-app.cc`, `network_io.cc`, `connection.cc`) | `NetworkStart` | three machines, timeouts, one counter shared by shards |
| message path (`network_channel.cc`, `connection.cc`, `dynamic-queue.hh`) | `NetworkPath` | order over a proxy, breaks, two stops that wait for each other |
| payloads (`serializable_queue.hh`) | `FifoQueue`, `SerializableQueue` | list nodes that stay empty, moved-from lists |
| column batches (`column_batch.hh`) | `ColumnBatch` | growth in 32 bits, shared buffers |
| thread resource pool (`thread_resource_pool.cc`) | `ThreadResourcePool` | a worker is hired again while it still wakes its employer |
| alien thread pool (`alien_thread_pool.cc`) | `AlienThreadPool` | threads leave on an empty queue |
| GPU pool (`gpu_resource_pool.cc`) | `GpuResourcePool` | an atomic count decides who returns a stream |
| code generator (`codegen/*.py`) and factory | `ActorCodegen` | type ids from shared counters, dispatch along base classes |

Actors send through references, which acquire a promise and call
`root_actor_group::send`. Messages for the same shard are received by a direct
call. Others pass the local channel; those for another machine pass it to a proxy
shard, whose connection carries them. The poller of the target shard calls
`receive`. Responses take the same way back.

### How state and actions correspond to the code

**ActorShard.** The reactor is one thread, so its call stack is part of the state:
`pc` says where in `run_and_dispose()` a node is, and `frames` holds the calls that
run user code on top of it (`clean_task_queue()` and the loop of
`stop_actor_system()`). Only the top of the stack moves. User code is arbitrary:
it may send any unsent message and make any suspended chain ready. A message whose
`do_work()` does not complete is a *chain* of continuations; `ec` is the execution
context of its pending continuation, and `fate` what has become of it.
`need_yield()` depends on a clock and is a choice. `MaxHops` bounds how often a
chain suspends.

**ActorClient.** `slots` is `pr_array` and `available` the head of its free list.
`owner` is the request whose future is attached to a slot's promise. Responses
travel in the set `wire`: they arrive in any order, or never. `LateRequests` says
whether requests are made after `stop_actor_system()`. The code allows them:
`request()` tests no status, and an actor that stops peacefully still works off its
mailbox.

**LocalChannel** implements **MessageChannel**: a queue per pair of shards, where
normal messages go to the end, urgent ones may overtake, and a receiver takes
messages from the front. Every access to shared memory is a step. A push is first
`hidden` and becomes visible later, or at a systemwide barrier; this is the
store-load reordering that the comment in `maybe_wakeup()` is about. Reactor,
memory barrier and event are external.

**Coordinator** has the semaphores of shard 0, the signals on their way to it, the
two queues of the worker and the flag `_main_thread_idle`. The worker's push and its
load of the flag may be reordered, so a result enters `_completed` and becomes
visible in two steps. **Shutdown** extends it: `exit()` sends stop messages, a shard
whose actors have ended enters `HIACTOR_PEACE_STOPPED`, shard 0 clears the system
and ends the engine. The actors of a shard are a number here. That they end is what
`ActorShard` shows.

**NetworkStart** computes `set_network_config()` for every machine; each listens,
waits at the barrier, connects to smaller ids, accepts larger ones on the shard the
load balancer picks, and builds its routing table. Connects can be refused or time
out, and the listening timeout can fire at any time. A connect that has timed out is
not cancelled: it may still be made (`LateConnect`) and is then closed, but the
server counts it and reads a machine id from an empty buffer, a null pointer
(`ReadEmpty`, after which the machine has crashed). `Settings` has whether the
coordinator synchronises machines and which options are rejected: a list of machines,
after which the process stays, or a timeout, after which `exit()` reads a routing
table that does not exist.

**NetworkPath** follows messages from a shard over the queue to its proxy, the proxy's
buffer and sender, to the receiver of another machine. The queue is a `fifo` of the
sender and a bounded `ring`; a shard that finds nothing to do falls `asleep`, even on
a fifo that a full ring did not take. Sleeping with empty fifos is left out, as it
changes nothing that the properties see. Length and body are separate writes,
connections break, and both machines may stop.

**SerializableQueue** implements **FifoQueue** (`SerializableIsFifo`). It has the
array, the list of arrays with its counters, the move constructor and the wire
format. **ColumnBatch** has two handles on shared buffers and `UIntMod` in place of
2^32. Nothing in the code keeps a push inside of the buffers, so `fault` records the
first push that writes outside of them or does not return, and what follows is
undefined. **ScopeBuilder** has addresses in units of two bytes. **ActorTaskQueue**
records of the heap only whether the queue is one.

**ThreadResourcePool** splits the worker's loop at every access to shared memory; its
reads of `_employer_shard` and `_employer` come after `return_worker()`, as in the
code. **AlienThreadPool** has threads that can fail to be created, and tasks that are
added late. If such a task is left, the assertion in `~task_queue()` aborts a debug
build, and a release build drops the task. In **GpuResourcePool** `get_stream()`
captures a local variable by reference: when its continuation runs after the call,
the id is any value. The variable `stale` records that this happened, and the
properties hold until then.

**ActorCodegen** has the generator's threads with counters and mutexes, the
directories and files, the headers whose work ends with an exception (`raised`), and
then the program: registration, `create()` and the dispatch of `do_work()` along the
base classes.

`MCPools` and `MCWire` join modules that share no state. A behaviour exercises the
one its first state names, so a run is the union of the runs of its parts.

## Runs

| Run | Instance | Distinct states | Shows |
|---|---|---|---|
| `shard` | root, two nested groups, two actors, 3 messages | 105,469 | counts, activation, deletion, exit, drops, births; stopping ends, requests are settled |
| `shard_foreign` | two actors under the root, limit 2, 4 messages | 1,478,540 | all but deletion, when a stop runs code in a foreign context |
| `channel` | 2 shards, queue 2, batch 2, 3 messages | 178,730 | order, refinement of the abstract channel, wakeup, delivery |
| `pools` | 2 shards, 1 worker, 3 items; 2 alien threads; 2 streams; 3 requests; 2 generator threads, 4 headers, 3 of them in new directories | 40,136 | work is in one place and completes, stops lose nothing, ids are unique |
| `shutdown` | 3 shards, 3 barriers, queue 1 | 108,794 | barriers, room in the worker's queues, nothing alive at the exit, the exit happens |
| `network_start` | 3 machines with 2, 2 and 1 shards | 211,481 | routes, mirrored and balanced connections, barrier before connect, all start unless a connection is missed |
| `wire` | 2 proxies, ring of 1, batch of 2, 2 messages, 1 break; 5 buffers; column batches of 2; 3 actors; 4 layers | 234,399 | order without gaps, one place per message, both stops return; payloads, batches, heap, addresses |

The bounds let the interesting cases happen: a concurrency limit that is reached and
left, a queue that is full with more in the fifo, a worker wanted by two shards, a
stream at its limit, a ring that is full, a list of payload arrays with a second
node, a batch that grows and one whose size wraps, a dealing counter that wraps on a
machine with one shard. Work is finite in every instance, so a run ends when it is
used up and deadlock is not checked; the liveness properties take its place.

Every property has a mutant in `PROJECT.json`: a plausible slip in one definition
that makes TLC report the property violated.

Larger instances were checked once and held:

* `shard` with 4 messages, liveness included (683,847 states);
* `channel` with a queue of 1, with three shards and two senders (1,497,000), and
  with traffic both ways (2,916,376).

### Fairness

* `ActorShard`: the reactor keeps running, and the events that suspended chains wait
  for do come. The second is up to user code.
* `ActorClient`: a ready continuation is run. No response is assumed to come.
* `LocalChannel`: an awake reactor keeps going, a written event wakes it, and stores
  become visible. Nothing else is sure to wake it.
* `ThreadResourcePool`: threads are run, reactors poll before they sleep, a shard
  that retries for a worker gets one if one is free again and again (`SF`: the retry
  is on a timer, and the free list is first come first served).
* `AlienThreadPool`, `GpuResourcePool`: threads and continuations are run; a waiting
  `get_stream()` that finds a stream again and again gets one.
* `Shutdown`: worker and stores as above; an awake reactor runs its tasks; stopping
  actors end.
* `NetworkStart`: what can happen on a machine that has not crashed happens.
* `NetworkPath`: an awake shard flushes and takes from its rings, and a message in a
  ring wakes the shard it is for. Nothing else is sure to wake one. Breaks, stops and
  sends are not forced.

### Limits of what the passing runs show

* **`NoDanglingReference` is not true of every tree.** It passes in `shard`, whose
  root has no actor as a child. On the instance of `shard_flying_chain` it is
  violated. The other invariants hold there (`ShardConsistent`), but what follows
  such a deletion is undefined in C++. Liveness suffers too: with an actor under the
  root beside a group and chains that suspend twice, TLC finds a forced stop that
  never reaches the exit.
* **`RequestsSound` and `OwnResult` exclude late requests.** With them `OwnResult`
  fails (`client_late`). The free list is sound only up to the stop: afterwards each
  swept slot is removed a second time by its continuation, which links it to itself.
* **`SentIsReceived` needs a sender that wakes up.** Otherwise a shard sleeps on a
  fifo it could not move because the queue was full; the receiver makes room but
  wakes nobody. Other traffic or a Seastar timer may wake it.
* **`CompletesWhileAwake` and `ExitEndsEngine` need reactors that wake up** for
  some reason: see `thread_pool_wakeup`. The coordinator's worker can miss that the
  reactor has fallen asleep, since its release store may pass its load of the flag.
* **`AddressIntact`** holds up to the six groups that the format of an address names
  (`actor_message.hh:47`). The assertions of `scope_builder` admit one more, and
  then the type of the method overwrites half of the actor's id.
* **`BatchSound`** says when a push may fail: on a batch that is full, loaded, dumped
  or moved from, with a reserve of 0, which is doubled for ever, and with data over
  half of what 32 bits can count. It claims nothing of two handles on one buffer that
  both push or both dump.
* **`EverythingArrives` needs a sender that wakes up**, like `SentIsReceived`: without
  that exception TLC finds a message that stays in the fifo of a sleeping shard.
* **`SerializableIsFifo`** covers no push after a move (`node_count` is not moved) and
  no `peek()` at a head node that `pop()` has drained.
* **`DestroyReturns`** promises that nothing is dropped only if no task was added to
  the running pool.
* **`RequestSettled`** counts a stop request as settled when a later one for the same
  scope has overwritten its promise id.
* **`FailsForCause`** does not say that good headers succeed: two threads may find the
  same directory missing, and the second `mkdir()` raises. It says that a header
  without fault fails only so, with another that made the directory, or because the
  parent directory is missing.
* **`AllStart`** excludes missed connections and rejected options. A connect made
  after its timeout crashes the server that reads its id (`connection.cc:114`). After
  a rejected list, `exit()` sends its stop messages to `global_shard_count()` shards,
  which is still 0, and the process stays. After a timeout of 0 the shards are
  counted, but there is no routing table to send by, and the process crashes.
* **`GpuSafe`** and `WaitingIsServed` hold until a stale stream id is used.

## Disagreements with comments, tests and documentation

Five runs expect a violation.

* `shard_flying_chain`: `_cur_concurrency = 0` is commented "no flying chain", but
  `clean_task_queue()` leaves the caller's execution context in place, so a
  continuation can be bound to an actor that does not count it.
* `client_late`: a request made after the stop reuses a cancelled id and gets the
  cancelled request's response.
* `thread_pool_wakeup`: a worker reads its employer after it has returned itself to
  the pool; a shard that hired it meanwhile is tested in place of the one that waits.
* `network_start_missed`: a missed connection is meant to end the machine, but its
  exception is discarded and the application runs without the connection.
* `codegen_nested`: with three classes in a chain, a method of the middle one called
  through a reference to the last runs another method, or none.

Two differences have no run. A forced stop reclaims queued requests unanswered,
although the tutorial (line 148) promises results. And it waits for suspended
chains, although `actor-template.hh:54` says it does not wait for pending tasks.

## Proofs

| Module | Theorems | For every |
|---|---|---|
| `ActorShardProofs` | `TypeCorrect` | tree, limits, messages |
| `ActorShardStopProofs` | `OnlyForceDropsHolds`, `NoBirthHolds` | tree, limits, messages |
| `ActorCallProofs` | `RequestsSafe`, `OwnResultHolds` | set of requests, if none is late |
| | `TypeIdsAreSound` | threads, headers, classes of the generator |
| `LocalChannelProofs` | `TypeCorrect`, `NoWakeupIsLost` | number of shards, queue and batch size |
| `LocalChannelOrderProofs` | `ChannelIsQueuePerPair`, `ExactlyOnce`, `ChannelIsSafe` | the same |
| `PoolProofs` | `AlienIsSafe`, `GpuIsSafe` | finite set of threads or streams, tasks |
| `ThreadResourcePoolProofs` | `PoolIsSafe` | shards, items, finite set of threads |
| `ShutdownProofs` | `ShutdownIsSound`, `NoActorAtExitHolds` | number of shards, barriers, queue length |

* **ActorShard.** `TypeOK` is inductive. `OnlyForceDrops` is not: one must know that
  what is in a mailbox was delivered to that node (`MailDelivered`), and for births
  that a group that is not disabled is running (`EnabledGroupRuns`). Each action is
  shown to be a `StopStep`, and a `StopStep` to preserve the invariant.
* **ActorClient.** The invariant adds that before the stop requests under way have
  active slots and responses belong to waiting requests (`Linked`), that owners wait
  (`Owned`), and that no slot is active afterwards.
* **LocalChannel.** `NoLostWakeup` speaks only of sleeping shards; the argument is
  about shards on their way to sleep. `Wake` says that from the raising of the flag
  on it is up unless a wakeup is coming, that what a shard in its last poll cannot
  see was pushed after the barrier by a sender that has yet to read the flag, and
  that the same goes for the queues its poll has passed. A push in that time finds
  the flag up or the wakeup on its way; the barrier starts the claim, and nothing
  but the poll itself extends it.
  `ChannelIsQueuePerPair` is the refinement of `MessageChannel`. The abstract queue
  of a pair is what the receiver holds in its hand, then the lock-free queue, then
  the sender's fifo. Each lemma `...Kept` shows that a step which only shifts
  messages between the three leaves that concatenation as it was. A send inserts in
  it, at its end unless it is urgent, and the second pop of `process_incoming()`
  cuts off its front. `ExactlyOnce` needs no more of a step than that: what was
  received and what is queued is numbered without gap or double, a delivery moves
  the border between the two, and an insertion keeps the normal messages in order.
  Both rest on `Base`, the types and what the control points mean.
* **ThreadResourcePool.** `PoolInv` counts an item in three places (handed over, in
  work, completed) and says that the sum is 1 while it is hired and 0 otherwise; the
  property only compares with 1. `WorkerOK` says what the place of a thread in its
  loop, its item, its event, its quit flag and its membership in `_threads` have to
  do with each other. Without it a thread could be hired twice, or told to stop
  with an item. `ShardOK` says that completed items are with their own shard and
  that a sleeping reactor has its flag up, and once `stop()` begins nothing is
  outstanding. `_employer_shard` is not claimed to be right: `SleepIsSeen` excepts
  threads that another shard hired, which is what `thread_pool_wakeup` is about.
* **AlienThreadPool.** `AlienInv` counts the copies of a task (run, queued, with a
  thread): never more than one. A thread that left found the queue empty of early
  tasks (`TasksHeld`), so the destructor leaves none.
* **GpuResourcePool.** `GpuInv` says that tasks past `get_stream()` have a stream of
  the device (`Held`), and of each stream, until a stale id is used, that its count
  is the number of its tasks and that its token is in one place exactly while it has
  room (`StreamOK`). The lemmas about counting a value in a sequence
  (`TimesAppend`, `TimesTail`, `CountedOne`) serve all three pools.
* **Shutdown.** A barrier's count is not invariant while signals are in flight:
  `CoordinatorInv` says that units in the semaphore and signals on their way are
  together the other shards that have called. So shard 0 passes when all have, and
  a shard calls only when it is empty and stopping for good. The worker's room is
  accounted by where its items are.
* **ActorCodegen.** Only the holder of the mutex has read a counter, and what it read
  is still its value (`Locked`); ids given out lie below their counters (`Drawn`);
  every class has an id or is ahead of some thread of its phase (`Covered`,
  `InPhase`); a registered class is in the directory at its id (`Filed`).

Each inductive invariant was also checked with TLC, on small instances. The
assumptions are the named `ASSUME`s (a finite tree, finite sets of threads, streams
and GPU tasks, disjoint names, positive sizes, the barrier of the exit being global),
which TLC evaluates in the runs.

Only model-checked: `NoDanglingReference` (false of some trees), `CountsRight`,
`NoLostActivation`, `ExitOnceEmpty` and `ShardConsistent` of the actor tree;
`MethodReached` and `FailsForCause` of the generator; `PopsHighest`,
`AddressIntact`, `BatchSound` and `SerializableIsFifo` of the data structures; all of
`NetworkPath` and `NetworkStart`. No proof of these has been written yet. Liveness,
`ENABLED`, induction over data and `RECURSIVE` operators are out of the prover's
reach and stay with TLC.

## Not modelled

* Seastar (reactor, futures, sockets), CUDA, libclang, lock-free queues and the
  blocking call of a coordinator implementation are external, modelled from their
  use.
* Reading options and files, metrics, formatting, byte order, and the text of
  generated files.
* Timers, exception types, `message_reclaimer.hh`: no protocol of their own.
  `cb_table.hh` is not used by anything.
* Several connections per proxy shard, and traffic in both directions over one.
* The build with round-robin proxies, which gives up the order of messages.
* The promise manager of a GPU device, which all shards use without a lock: what
  follows a data race there is undefined.
* A second round of a barrier with the same name, which no caller in the repository
  makes: signals that come before the first round's erase would be lost.
* Two runs of the generator: type ids depend on the schedule of its threads, so
  binaries of one cluster must come from one run.
* Loading results and user types from the wire, iterators of column batches.
