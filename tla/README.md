# Formal models of INE5645-2025.01

The repository holds two C++ programs written for a course on parallel and
distributed programming:

- **trabalho_2**, a distributed shared memory over MPI: processes that maintain
  blocks, cache each other's blocks and invalidate the caches on a write;
- **trabalho_1**, a restaurant simulation: cook and client threads, a closing
  timer, and a small library of synchronisation primitives.

This directory holds TLA+ modules translated from their source, TLC
configurations that check them on small instances, and proofs that TLAPS checks
for every value of the constants. `PROJECT.json` lists which lines each
definition stands for. Source paths below are relative to `src/`.

## 1. Inventory

### trabalho_2: distributed shared memory (`trabalho_2/project/src`)

| Part | State | Operations | Interaction |
|---|---|---|---|
| Block distribution (`utils.hpp` 122-127, 190-209; constructors in `lib.hpp`) | the `memory_map`, fixed at start-up | `resolve_maintainers`, `resolve_maintainer` | every part asks it who holds a block |
| `LocalRepository` (`lib.hpp` 31-124) | `blocks` of this process, a shared mutex | `read`, `write` (assign, unlock, then notify the broadcaster) | called by the main thread and by two listeners; `MPI_Send` to the broadcaster |
| `RemoteRepository` (`lib.hpp` 130-284) | cached copies of other processes' blocks, a shared mutex | `read` (hit, or request and response under the shared lock), `write` (request under the unique lock), `invalidate_cache` | called by the main thread and by `notification_listener`; messages to maintainers |
| `UnifiedRepositoryFacade` (`lib.hpp` 286-355) | `access_map` | dispatches by block | the only interface of the main thread |
| Listeners (`servers.cpp`) | what a handler has received | `read_listener`, `write_listener`, `notification_listener` | three threads in each worker; probe, receive, act on the repositories |
| Broadcaster (`servers.cpp` 112-134, 220-257) | none | `notification_broadcaster`, `handle_notify` | a process of its own; receives notifications, `MPI_Bcast`s them |
| Worker loop (`main.cpp` 126-239) | the current access | `worker_proc`, `escreve`, `le` | draws random accesses, block by block |
| Start-up (`main.cpp` 78-138, 169-183; `utils.hpp` 59-174; `store.cpp`; `logger.cpp` 30-78) | the registry of each process, the log directories, the barrier | `capture_args`, `validate_args`, `GlobalRegistry::get_instance`, `create_directory`, `start_helper_threads`, `MPI_Barrier` | every process for itself on the same arguments; one file system; one barrier |
| Encoding, output of the logger | message buffers; log files | copying fields, printing | no other part depends on them |

What is hard here: four threads per process share the two repositories; a reader
waits for another process *while it holds a lock* that invalidations need; read
responses carry no key; a block is stored before its notification is sent; reads
and writes of one process travel by different channels and are served by
different threads; remote writes are never answered; processes start one by one and
the first may write before the last listens.

What makes it correct: an out-of-date copy always has an invalidation on its way
(invalidation on write); a response is the answer to the request that waits for
it; no request reaches a process that does not hold the block; every access
returns; every write is stored; the reads of a block by one worker never go back
in time; bytes end where the caller put them; no process acts on another before
that one is ready, and none is left waiting for one that gave up.

### trabalho_1: restaurant (`trabalho_1/project/src`)

| Part | State | Operations | Interaction |
|---|---|---|---|
| `barrier`, `counting_semaphore`, `synchronizing_queue`, `observer_subject` (`sync_lib.hpp`) | counts, queue, subscriptions, each with a mutex and a condition variable | `wait`; `acquire`, `release`; `push`, `pop`, `empty`; `subscribe`, `notify` | shared by all threads |
| Cooks (`main.cpp` 40-102) | order in hand, equipment, log | take an order, take stove then oven, cook, release, notify, log | queue, semaphores, callbacks into clients |
| Clients (`main.cpp` 106-147) | order number, `order_received` | check `is_open`, subscribe, push, count, wait | queue, subscriptions |
| Timer and main thread (`main.cpp` 32-36, 149-182) | `is_open`; counters | close; start threads, barrier, joins, report | joins everyone |
| Arguments, statistics (`utils.hpp`, `types.hpp`) | `program_args`, `stats` | parse, print | order of the arguments matters |

What is hard here: `is_open` and the queue are read at different times and under
no common lock; callbacks refer to a client's stack frame; two kinds of equipment
are held at the same time; `pop` has no way out but an order; `notify_one` comes
after the unlock, and a thread may be in one generation of the barrier while the
next fills up.

The hazards of both programs are listed in `PROJECT.json`, each at its line, with
the properties that would catch it.

## 2. Plan

| Order | Module | Content | State |
|---|---|---|---|
| 1 | `MemoryMap` | block distribution, block arithmetic | done |
| 2 | `SharedMemory` | repositories, listeners, broadcaster, main threads | done |
| 3 | `SharedMemoryHistory` | history variables over 2: what a caller may rely on | done |
| 4 | `SharedMemoryProofs` | theorems about 1 and 2 | done |
| 5 | `Restaurant` | cooks, clients, timer, main thread | done |
| 6 | `CoherentMemory` | what a caller of `escreve` and `le` may rely on, implemented by 3 | done |
| 7 | `SyncLib`, `AtomicSync` | semaphore, queue and barrier at the level of mutex, condition variable and wakeups, and the atomic operations they implement | done |
| 8 | `BlockTransfer` | `escreve` and `le` byte by byte | done |
| 9 | `Startup` | arguments, registry, log directories, `MPI_Barrier`, the first broadcast | done |
| 10 | `RestaurantProofs`, `Counting` | theorems about 5; lemmas on counting sets | done |
| 11 | `SyncLibProofs` | theorems about 7, with the safety part of the refinement | done |
| 12 | `SharedMemoryHistoryProofs` | theorems about 3, with the safety part of the refinement | done |
| 13 | `BlockTransferProofs`, `StartupProofs` | theorems about 8 and 9 | done |

No module that is proved about declares or reaches a RECURSIVE operator.

How the modules fit together:

    MemoryMap <- SharedMemory <- SharedMemoryHistory --implements--> CoherentMemory
        ^  ^---- BlockTransfer
        |
      Startup (its registry meets MemoryMap's assumption)

    SyncLib --implements--> AtomicSync        Restaurant (takes the atomic operations)

## 3. The modules

### MemoryMap

Constants `NumWorkers`, `NumBlocks`, `BlockSize`. The code computes a block's
maintainer twice, as a map built once and as a remainder taken when a write is
sent, and so does the module (`MemMap`, `ResolveMaintainer`); that the two agree
is a theorem. `ScopedBlocks` is the `ceil` of `escreve` and `le`, `DrawnSizes`
the sizes that `worker_proc` draws. `ConfigAssumption` is what `validate_args`
lets through, with at least one worker.

### SharedMemory

One action per step of a thread between two points where other threads can
interfere.

| Thread | State | Actions |
|---|---|---|
| main | `pc`, `next`, `final`, `written` | `CallLe`, `CallEscreve`, `LocalRead`, `RemoteReadHit`, `RemoteReadMiss`, `RemoteReadFill`, `LocalWrite`, `NotifyBroadcaster`, `NoticeSent`, `RemoteWrite`, `RemoteWriteSent` |
| read_listener | none | `HandleRead` |
| write_listener | `wpc`, `whand` | `ReceiveWrite`, `ApplyWrite`, `NotifyWrite`, `NotifyWriteSent` |
| notification_listener | `nkey` | `ReceiveInval`, `InvalidateCache` |
| broadcaster | none | `HandleNotify` |

`local` and `cache` are the repositories' maps; `mtx` is the lock of the remote
repository, which is held across messages. The lock of the local repository is
held only inside a single step and needs no variable. The channels are sequences
per sender, receiver and tag, as MPI keeps the order of those and of nothing
else; a probe with `MPI_ANY_SOURCE` is a choice of the sender. A broadcast
appends to one sequence per worker.

A block's content is the identity of the write it comes from: `<<w, n>>` is the
n-th block write of worker w. Two contents are equal in the model exactly when
they come from the same write, which is stricter than comparing bytes.

`EagerSend` says what `MPI_Send` does, which MPI leaves to the implementation:
TRUE, it buffers the message; FALSE, it returns when the message has been
received (and `MPI_Bcast` when everyone has taken part). In the second case a
sender has a state of its own (`sendingNotice`, `sendingWrite`, `sending`), and
`by` in a notification says which thread of the process waits for it.

The response to a read is the one send that is not split, as the reader is
already waiting in `MPI_Recv` for it.

`handle_read` and `handle_write` throw when the block is not their own. The
actions have that test as a guard, and `NoHandlerThrows` says that the guard
never blocks.

### SharedMemoryHistory and CoherentMemory

`issued`, `stored`, `log` and `seen` record which writes a worker called for, how
many of them are stored, what was stored in a block and in which order, and which
version each worker last read. They constrain nothing: each history action is an
action of `SharedMemory` together with its record.

`CoherentMemory` has these variables and no others: no messages, caches, locks or
threads. A write of a block of one's own is stored by the call, any other some time
later, in the order of the calls for that block; a read returns any version not
older than the last one that worker read, and the latest at the maintainer. It says
nothing across blocks, and does not promise that one reads one's own writes, as the
code keeps neither. `ImplementsCoherentMemory` is the refinement, with the fairness
that every write is stored in the end. `HistoryInv` is the inductive invariant behind
it (section 6).

### BlockTransfer

A call of `escreve` or `le` and the rounds of its loop, with one worker, so that
all blocks are local. A byte is known by the buffer and offset it comes from, which
tells a byte that was moved to a wrong place from one that is right. `buffer` holds
the caller's bytes and those that lie behind it, as the code's last `memcpy` reaches
them. Any position and size may be asked for, also those that do not fit;
`worker_proc` draws some of these.

`fill`, `documented` and `spill` are history. `fill` is what the caller filled its
buffer with. `documented` is the memory as the comments on `escreve` have it: it is set
once for the whole call, when a call returns 0 (`Record`), from what the caller asked
for (`posicao`, `tamanho`, `fill`) and not from the rounds, their addresses or their
number, so that a lost round, a wrong address or a call that fails half way shows.
`spill` holds the bytes that a call may have written beyond its size, up to the end of
its last block.

The `block_size` bytes of a round are moved at once, as with one worker nobody
observes them in between; with several, `SharedMemory` has the interleavings, and a
block there changes as a whole, under its lock.

### Startup

`pc` follows the main thread of each process through `main`: `InitMPI`,
`CaptureArgs`, `ConvertTimestamp`, `ValidateArgs`, `MakeRegistry`,
`ResolveMaintainers`, the construction of the logger (`LookForRunDir`, `LookForLogDir`, `MakeDir`: each look
at the file system and each `mkdir` is a step, as the processes share it),
`StartHelpers`, `EnterBarrier`, `LeaveBarrier`. A number is itself, any other
argument is `Text`, on which `std::stoi` throws. `exited` is `std::exit`, `aborted`
an uncaught exception. What runs after the barrier is one action, `SendNotice`: a
worker in its loop writes a block, and the process that stores it tells the
broadcaster.

The second argument, the timestamp, is returned by `capture_args` as it is
(`Captured`) and converted by `main` (`ConvertTimestamp`), which throws on text.
`WellFormed` is therefore about all arguments. What the processes find in the file
system is part of the initial state: the directories there are, something else in the
place of one (`obstacle`), and whether `mkdir` makes directories (`mkdirs`: always,
never, or for some calls only). Both exceptions of `create_directory` follow from it.

`Unfit` lists what the program cannot run with, and `NoCrash` says that nothing else
ends a process by an exception. Two of these are rougher than the comment on
`capture_args` has it, which says that it exits on invalid input (utils.hpp:57): text
makes `std::stoi` throw, and with too few arguments rank 0 throws while it prints the
usage. `AllOrNone` excepts one of these by name: when `mkdir`
fails for one process and works for another, the one ends in its first log message and
leaves the others in the barrier.

`RunsConfigured` instantiates `MemoryMap` with the registry of a process, and says
that what `MemoryMap` assumes of its constants holds for every configuration the
program gets to run with. `ServersBeforeClients` is why `SharedMemory` may start
with all threads running.

### SyncLib and AtomicSync

What a thread does while it holds a mutex, up to the unlock or the sleep in
`cv.wait`, is one step. The `notify_one` of `release` and `push` comes after the
unlock and is a step of its own (`Notify`); the `notify_all` of the barrier is
inside the critical section and part of `Arrive`. `NotifyOne` wakes any of the
sleepers, a sleeper may wake by itself (`SpuriousWakeup`), and a woken thread checks
its predicate again (`Acquire`, `Pop`, `Pass`). The three objects are in one module
and every thread may call any operation at any time, as the callers in the
restaurant do, except that none takes a second permit of one semaphore.

`AtomicSync` has the same operations taking effect at once and no sleepers. That
`SyncLib` implements it, with the fairness that an operation that stays possible
goes through, is what lets `Restaurant` take each operation as one step.

### Restaurant

Each operation of `sync_lib.hpp` is one step, a wait on its condition variable a
guard (`SyncLib` shows that it may be). The loop condition of a cook is two steps (`CheckOpen`, `CheckQueue`), as
`is_open` and the queue are read one after the other. The callback of a client
is two steps (`NotifyClient`, `SignalClient`), as the client can see
`order_received` as soon as `order_mutex` is free; the cook holds the subject's
mutex through both. `TakeOrder` draws the equipment in the step that pops the
order: both are the cook's own. `Enter` reads `is_open` and draws the order
number in one step: nobody acts on the number before it is used, and the gap
that matters, up to the push, is kept. Delays are arbitrary.

`NOvens == NumFogoes` and `NStoves == NumFornos` are not a slip of the model: it
is what `std::apply` does with the arguments (see the findings).

### The proof modules and Counting

`SharedMemoryProofs`, `SharedMemoryHistoryProofs`, `RestaurantProofs`,
`SyncLibProofs`, `BlockTransferProofs` and `StartupProofs` hold the theorems about the
module they are named after; `Counting` has the lemmas on sizes of sets that two of
them share. The inductive invariants are in the modules themselves, as the runs check
them too. See section 6.

### MCSharedMemory, MCSharedMemoryHistory, MCBounds, MCBlockTransfer, MCStartup, MCSyncLib, MCRestaurant

Values of the constants for TLC: how often each worker writes, sets of cooks,
clients and threads, argument lists.

Operators named `Mutant...` are faulty versions of the definition that follows
them. They are used in no specification; putting one in the place of the original
makes a property fail, which shows that the property depends on that code.

## 4. Runs

| Run | Instance | Distinct states | Shows |
|---|---|---|---|
| `memory_coherence` | 2 workers, 3 blocks of 2 bytes, one block write each, blocking sends | 1 065 164 | no stale copy without an invalidation under way, cached or in flight; responses match requests; requests reach the holder; the inductive invariant of the proofs |
| `memory_history` | 2 workers, 2 blocks, 2 writes of one worker, buffered sends, fair | 182 592 | the shared memory implements `CoherentMemory`; reads do not go back; accesses return, stale copies go away; `HistoryInv` |
| `block_transfer` | 2 blocks of 3 bytes, every position, sizes up to one byte too many, two fills | 158 689 | after a call its bytes are where they belong, whatever the rounds; a call that fails changes neither memory nor buffer |
| `startup` | 1, 2 or 3 processes, 14 argument lists, five states of the log directory, `mkdir` that works or fails | 52 442 | who runs has a configuration that fits; servers start before clients; a process crashes only for a reason in `Unfit`, and none is left waiting |
| `sync_lib` | 3 threads, 1 permit, a barrier of 3, 2 generations, a queue of 2 | 74 726 | no wakeup is lost, generations are apart, `SyncLib` implements `AtomicSync` |
| `restaurant` | 2 cooks, 2 clients, 1 stove, 1 oven, fair | 69 970 | orders, notifications, equipment, barrier, report; orders before closing are served, no equipment deadlock |

The runs of the shared memory, the restaurant and start-up also check the inductive
invariant of the proofs about their module (`CoherenceInv`, `HistoryInv`,
`RestaurantInv`, `StartupInv`). `TransferInv` and `SyncInv`, which add little to the
properties of their runs, are left to the proofs.

Bounds. `MaxWrites` bounds the block writes of each worker; reads are not bounded.
Two writes of the same block by one worker are the smallest case in which one can
overtake another, and one write each the smallest in which two writers meet. With
blocks of two bytes a drawn size spans from no block to all of them. With three
blocks over two workers one of them maintains two, so the map, the remainder and the
skipped invalidations differ from worker to worker. The proofs of section 6 cover
more workers; one writer among two readers is beyond the state space that can be
explored next to two writers.

`block_transfer`: three bytes are the least for a block with a first, an inner and a
last byte; two blocks give a first and a last round. `startup`: one process is
the division by zero, two one worker and one broadcaster, three two workers and the
broadcaster, with more workers than blocks for one of the lists; the lists have too few
and too many arguments, text in each kind of place, and each condition of
`validate_args` at its boundary; `MaxNotices` = 1 is enough
as what matters is the first broadcast. `sync_lib`: with three threads two can sleep
while the third releases, and one can be slow in a generation of the barrier while
the next one opens; `MaxElements` = 2 is the least for two pushes in a row, and
`MaxGenerations` = 2 for a thread of an earlier generation to meet a later one.
`restaurant`: two cooks for one stove and one oven are enough to wait for each other
on both, and two clients to have one order in the queue and one in hand.
`stoves_as_configured` has two ovens for one stove, as the swap shows only when they
differ.

Deadlock is checked in `memory_history` and `block_transfer`, whose programs never
stop. With blocking sends the shared memory can (see the findings). Start-up ends
with running or exited processes, the restaurant ends, or hangs, and the threads of
`sync_lib` may all wait for someone to release, push or arrive, so these runs do not
check it.

### Statements of the documents that the code does not meet

| Run | Statement | What the code does |
|---|---|---|
| `read_your_writes` | the main thread need not care whether an access is remote (article.tex:186-191) | a worker can read a remote block and get the value from before its own write: `write` leaves the cached copy, and a read request can overtake the write |
| `blocking_sends` | local and remote accesses succeed (article.tex:386-387) | `MPI_Send` under the unique lock closes a cycle main, write_listener, broadcaster, notification_listener, if sends are not buffered. Messages have at most 36 bytes, which MPI implementations buffer in practice; the run says that the program relies on it |
| `block_overrun` | `tamanho` is the number of bytes written, or read (main.cpp:30-31, 44-45) | the last block is moved as a whole: `escreve` stores bytes from behind the caller's buffer over the rest of the block, `le` writes behind the buffer |
| `no_order_after_closing` | the timer closes the restaurant for new orders (main.cpp:30) | a client inside the open branch pushes later; if all cooks have left by then, it waits for ever |
| `cooks_finish_shift` | cooks work until it is closed and there are no more orders (main.cpp:55-56) | a cook inside `pop()` at the end never leaves, and the program does not end |
| `stoves_as_configured` | the third argument is NUM_FOGOES, the number of stoves (README.md:71, 86) | it becomes the number of ovens |

## 5. Fairness

`SharedMemory`: each of the four threads of a worker, and the broadcaster, is an
endless loop, so each is weakly fair as a whole. Nothing is assumed about which
sender a probe finds first, about which access a main thread draws next, or whether
it draws one at all. The lock of the remote repository is the one thing that weak
fairness may not grant: `InvalidateCache` is disabled while the main thread is inside
a remote read that misses. It is granted all the same, because a read that misses
leaves a copy behind, so that between two invalidations only finitely many reads miss.

`Restaurant`: every thread is weakly fair, and every sleep ends. Which waiter a
semaphore or the queue serves is left open.

`SyncLib`: a thread that is awake inside an operation runs (weak fairness of
`Run(t)`). Nothing makes a thread call an operation, release or push, no spurious
wakeup can be counted on, and `notify_one` may always wake the same thread.

`Startup`: each main thread is weakly fair; its waits are the guards of its steps.

`CoherentMemory` and `AtomicSync` state what follows from these: every write is
stored, an operation that stays possible goes through.

## 6. Proofs

TLAPS checks the theorems below for every value of the constants that meets the named
assumptions: any number of workers, blocks, cooks, clients and threads, any block
size, any argument lists. The bounds of the runs (`MaxWrites`, `MaxOver`,
`MaxNotices`, `MaxElements`, `MaxGenerations`) are constants like the others there, of
any size.

| Module | Assumptions |
|---|---|
| `MemoryMap` | `ConfigAssumption`: what `validate_args` lets through, with a worker; `Startup`'s `ConfigurationHolds` proves that every process that runs meets it |
| `SharedMemory` | `BoundAssumption`, `SendAssumption`, `NullAssumption`: types, `Null` is no content |
| `Restaurant` | `ArgsAssumption`: a cook, positive numbers of stoves and ovens, finitely many threads; `NoOrderAssumption`: `Null` is no order |
| `SyncLib` | `SyncAssumption`: finitely many threads, a barrier for at least one |
| `BlockTransfer` | `ConfigAssumption`; `TransferAssumption`: the byte behind the buffer differs from every fill |
| `Startup` | `StartupAssumption`: types, `Text` is no number |

### SharedMemoryProofs

| Theorem | Statement |
|---|---|
| `MaintainersAgree` | the map, the read target and `resolve_maintainer` name one worker per block |
| `TypeCorrect` | `[]TypeOK` |
| `CoherenceInvariant` | `[]CoherenceInv` |
| `StaleCopiesAreInvalidated` | `[]StaleCopyIsInvalidated` |
| `StaleResponsesAreInvalidated` | `[]StaleResponseIsInvalidated` |
| `ResponsesMatchRequests` | `[]OneRequestPerReader` |
| `HandlersDoNotThrow` | `[]NoHandlerThrows` |

`StaleCopyIsInvalidated` is not inductive. A copy enters the cache from a
response, so responses in flight must be covered too (`StaleResponseIsInvalidated`);
that covers the right block only if the response is the answer to the block the
reader is at, and the invalidation cannot overtake the store only if the reader
holds the lock (both in `OneRequestPerReader`); and an invalidation is skipped at
the block's maintainer, so there must be no copy there (`CopiesAreRemote`).
`CoherenceInv` is the conjunction of the four with `TypeOK`.

The proof follows an invalidation through its stages (`UnderWayStays`): about to be
notified, queued at the broadcaster, broadcast, in the listener's hands. A step
moves it one stage on or leaves it, until it is carried out. `LocalFrame` says that
a block changes only in a step that puts its writer into the first stage,
`CacheFrame` and `ReaderFrame` that a cache and a reader's channels change in two
steps each. Each conjunct is then shown to be kept by any step.

`HandlersDoNotThrow` rests on `MaintainersAgree`: what is sent is sent to the
worker that the map names.

### SharedMemoryHistoryProofs

| Theorem | Statement |
|---|---|
| `HistoryInvariant` | `HistorySpec => []HistoryInv` |
| `ReadsDoNotGoBack` | `HistorySpec => MonotonicReads` |
| `MemoryIsCoherent` | `HistorySpec => Memory!Spec`, the safety part of `ImplementsCoherentMemory` |

`Memory!Store` says that what a maintainer stores is the oldest write of its worker
that is not stored. That takes more than the history itself: the requests in a channel
are in the order of the calls, and a `write_listener` holds an earlier one than those
still in the channel (`RequestsInOrder`); and what is in flight is exactly what is
pending (`PendingIsInFlight`), so that an older write that is not stored would have to
be in front. Since the writes of a worker are numbered in the order of its calls
(`IssuedInOrder`) that write is the next one: `InTurn`.

A read returns content; that it is a version, and which one, follows as the log has
every write once (`LogIsStored`, `VersionUnique`), and that it is no older than the
last one read holds of every copy in a cache or in a response before it is read
(`CopiesAreSeen`). A response never outlives the read it belongs to, for which the
proof uses `OneRequestPerReader`; that a local read at the maintainer has no copy
beside it is `CopiesAreRemote`. `HistoryInv` is therefore inductive together with
`CoherenceInv` and `NoHandlerThrows`, whose theorems carry over because the history
constrains nothing (`CodeInvariant`). It does not need the invalidations: a stale copy
that is never dropped is still a version, and not older than what was seen.

Each step is then mapped (`StepIsCoherent`): a read that returns is `Read`, a write of
a block of one's own `WriteOwn`, any other `WriteRemote`, the assignment by the
`write_listener` `Store`, and every other step leaves the variables of `CoherentMemory`
as they are.

### RestaurantProofs

| Theorem | Statement |
|---|---|
| `RestaurantInvariant` | `[]RestaurantInv` |
| `TypeCorrect` | `[]TypeOK` |
| `OrdersInOnePlace` | `[]OrderInOnePlace` |
| `ClientsAreNotified` | `[]NotifiedWhenReady` |
| `CallbacksFindTheirClient` | `[]SubscriberIsThere` |
| `PermitsAreConserved` | `[]EquipmentConserved` |
| `NobodyStartsEarly` | `[]BarrierHolds` |
| `StatisticsAddUp` | `[]ReportAddsUp` |

The properties hold each other up. `BarrierHolds` needs what the barrier counts
(`BarrierInv`): while nobody has passed, `arrivals` is the number of threads still to
arrive. `OrderInOnePlace` and `SubscriberIsThere` need that the order numbers of
clients differ and are those they subscribed with (`TicketsInv`), and that an order
carries the number of its client (`OrdersInv`). `ReportAddsUp` needs what each counter
counts at every moment (`CountersInv`) and what main's joins have waited for
(`MainInv`). `EquipmentConserved` is kept by steps that know that a cook waits only for
what it has drawn (`JobsInv`). `OrdersInv` states "at most one place" without
`Cardinality`, which is easier to keep; `OrderInOnePlace` follows from it.

`SubscriberIsThere` is about the start of a callback, where it sets `order_received`.
The `notify_one` after it (main.cpp:127) may come when the client has left, in the
model (`SignalClient`) as in the code, and no theorem says otherwise.

### SyncLibProofs

| Theorem | Statement |
|---|---|
| `SyncInvariant` | `[]SyncInv` |
| `TypeCorrect` | `[]TypeOK` |
| `NoLostWakeup` | `[]WakeupsSuffice` |
| `RoundsDoNotMix` | `[]GenerationsApart` |
| `OperationsAreAtomic` | `Spec => Atomic!Spec`, the safety part of `ImplementsAtomicSync` |

`SyncInv` adds to the properties that no thread remembers a generation to come,
without which the reset of a round could meet a thread already inside the next.
`WakeupsSuffice` is about sizes of sets: `EnoughStays` lists the ways in which a step
changes what there is to take and who is awake, asleep or about to notify, and the
steps of both operations are instances of it. In the refinement a thread that is about
to call `notify_one` counts as done with its operation, and sleeps, wakeups and
rechecks that fail are stutters.

### BlockTransferProofs and StartupProofs

| Theorem | Statement |
|---|---|
| `TransferInvariant`, `TypeCorrect` | `[]TransferInv`, `[]TypeOK` of `BlockTransfer` |
| `WritesAreKept` | `[]MemoryHoldsWrites` |
| `ReadsAreRight` | `[]LeReturnsMemory` |
| `StartupInvariant`, `TypeCorrect` | `[]StartupInv`, `[]TypeOK` of `Startup` |
| `ConfigurationHolds` | `[]RunsConfigured` |
| `ServersComeFirst` | `[]ServersBeforeClients` |
| `NobodyCrashes` | `[]NoCrash` |

The properties of `BlockTransfer` are about finished calls, which `documented` and
`fill` describe as wholes; `TransferInv` is about the rounds done so far (`Moved`): what
they moved is in its place, all else as it was before the call. At the return the rounds
together cover exactly the caller's bytes and the rest of the last block
(`BlocksOfBytes`), as their number is the quotient rounded up; with a size that fits the
addresses stay inside the memory. Such arithmetic is in lemmas of its own.

In `StartupInv` the place of a process in `main` tells what it has passed (the
conversions, the checks of `validate_args`, the division), what it has made (its
registry, its helper threads), and that it was ended by an exception only for a reason
in `Unfit`; notices exist only when a process is past the barrier, which is when all
have helpers.

### Only model-checked

- The liveness properties (`AccessesReturn`, `StaleCopyGoesAway`,
  `OrdersBeforeClosingAreServed`, `EquipmentIsGranted`, `AllOrNone`) and the fairness of
  the two refinements, which are the rest of `ImplementsCoherentMemory` and
  `ImplementsAtomicSync`: liveness under fairness is out of the prover's reach.
- The statements that the code does not meet, which are refuted by a behaviour.

Every other property of a passing run is stated by a theorem.

## 7. Not modelled

- All printing: what the logger writes and when, the wording of messages; `dump`,
  which only reads. The value of the timestamp: in the arguments it only names a
  directory once it is converted, and no receiver of a message looks at it.
- The byte layout of messages (`encode_*`, `decode_*`): the fields they copy are
  the records of `SharedMemory`.
- What MPI does to the other processes when one exits or aborts. The launchers end
  them; `AllOrNone` does not count on it.
- How the MPI library tells apart an `MPI_Bcast` and an `MPI_Barrier` that two
  threads of one process call at the same time on one communicator; the model takes
  the two as independent.
- Failures of processes or of MPI calls once they run: the code throws and the
  process ends, and no part of it recovers.
- `capture_args` of the restaurant, which parses four numbers and checks none of
  them: zero or negative ones are left out (`ArgsAssumption`).
- `synchronizing_queue::peek`, which nobody calls, and `size`, which only reads. `peek`
  would take the one wakeup that a `push` sends and leave the element, so that a
  thread in `pop` could sleep on; `WakeupsSuffice` holds without it only.
- The data races on `rng` and on the cooks' log before the barrier, whose outcomes
  the language leaves open, and the dangling reference in `stats`.
- The programs never finish (trabalho_2) or finish with the last join (trabalho_1).
