# Coroutines_Examples: TLA+ models, checks and proofs

The repository holds three example programs about coroutines and a copy of the
library cppcoro. This directory models the concurrent parts of it: the task
queues of `Example_1_std`, the echo server of `Example_3_std_boost`, and the
synchronisation primitives, tasks, generators, schedulers and I/O service of
cppcoro.

Contents: 1 the system, 2 modules and the code they model, 3 runs, 4 fairness
and deadlock, 5 findings, 6 proofs, 7 abstractions, 8 what is not modelled and the plan.

Paths below are relative to `src/`; `cppcoro/` stands for
`Example_3_std_boost/libs/cppcoro/`.

## 1. The system

### Example_1_std: work queues on threads

*State.* Three static `WorkQueue`s (writer, network, ui), each a deque of tasks,
a stop flag, a mutex and a condition variable; one thread per queue is inside
`Run()`. The coroutine of the second test has a promise with `_currentQueue`.

*Operations.* `PushTask`, `PopTask`, `Run`, `Shutdown`; `co_yield` of a queue,
which notes the queue in the promise and pushes the coroutine's handle there
unless it runs there already.

*Interaction.* `main()` starts the three workers, calls `codeWithCallbacks`
and joins; then the same with `codeWithCoro`. Each piece of code runs on one
worker and pushes the next piece to another one; the last piece shuts all three
queues down.

*Hard.* A notification is sent after the mutex is released (`PushTask`) or
without the mutex at all (`Shutdown`); `Run` clears the stop flag; a coroutine
is resumed on one thread while another one is still inside its `await_suspend`;
the second test uses what the first one left.

*Correct when* no wake-up for a task is lost, tasks run once and in order,
`Run` returns only from a drained queue, the pieces of a test run one after the
other on the threads they name, and the joins return. The last is not so (section 5).

### Example_3_std_boost: TCP echo server

*State.* One acceptor, and a `Session` per connection with a socket, a buffer
and the coroutine that loops over it; `io_context` with the completions to handle.

*Operations.* accept, `async_read_some`, `async_write`, each an awaiter whose
completion handler resumes the coroutine.

*Hard.* Sessions interleave at every `co_await`; reads return pieces, writes go
out in pieces; each operation may fail; the buffer is reused for every piece.

*Correct when* every client gets back exactly the bytes it sent, errors end only
the session they belong to, and the session of a client that closed ends.

### cppcoro: primitives and schedulers

| part | state | operations | hard |
|---|---|---|---|
| `async_mutex` | one word: free, held, or a stack of waiters; the holder's list | `try_lock`, `lock_async`, `unlock` | arrivals during the release; order of service |
| `async_auto_reset_event` | two counts in one word; two lists; a reference count per waiter | `set`, `reset`, `co_await` | who owns the lists; resumption inside `await_suspend` |
| `static_thread_pool` | a deque per worker, a global stack and list, flags and a count of sleepers, an event per worker | `schedule`, steal, sleep, wake, shut down | lost wake-ups, claims on sleepers, the last item of a deque |
| cancellation | a slot per registration in growing chunks, a state word with two reference counts | register, deregister, request | request against deregistration, run-once, destructor waits |
| sequencers and barrier | published number(s), a stack of awaiters | claim, publish, wait | out-of-order publication, wrap, requeued awaiters |
| `task`, `shared_task`, `when_all`, `sync_wait` | a state word per task, a list and a reference count per shared task, a counter per join, an event per wait | start, await, complete, copy, destroy | completion racing suspension; the last reference racing a reader |
| manual reset event, latch, scope, single-consumer events | a word or a count each | `set`, `reset`, `co_await`, `count_down`, `spawn`, `join` | set racing the registration of a waiter; who resumes frees the next one |
| `async_generator` | a five-valued state of producer and consumer | yield, advance, end, destroy | both or neither suspend; destruction while the body runs |
| `io_service` | a completion port, a list for what it refused, a stop flag with the count of threads, a count of work | `schedule`, the four process functions, `stop`, `reset`, work scopes | stop racing a thread that enters or waits; the list and the wait |
| its timers | lists and flags shared with one timer thread, a reference count per timer | `schedule_after`, cancel, fire, shut down | a wake-up between two looks; both ends letting go |
| overlapped operations (files, sockets) | a state word and a result per operation | start, complete, cancel | three parties, any order |

`PROJECT.json` lists every component with its status, and the hazards of the
code at their lines.

## 2. Modules

| module | models | of |
|---|---|---|
| `WorkQueue` | one queue, its worker, its callers | `Example_1_std/src/WorkQueue.{h,cpp}` |
| `QueueProgram` (extends `WorkQueue`) | `main()`, both tests, the coroutine's awaiter and promise | `main.cpp`, `TestCode*.h`, `CorutineTask.*`, `TestFunctions.cpp` |
| `QueueScript` | what both tests promise: straight-line code | abstract |
| `AsyncMutex` | `async_mutex` | `cppcoro/lib/async_mutex.cpp`, `.hpp` |
| `FifoLock` | first-come first-served lock | abstract |
| `ThreadPool` | scheduling, global queue, stealing, sleep and wake | `cppcoro/lib/static_thread_pool.cpp`, `auto_reset_event.cpp` |
| `LocalQueue` | the ring buffer of one worker with its thieves | `thread_state` in `static_thread_pool.cpp` |
| `AutoResetEvent` | `async_auto_reset_event` | `cppcoro/lib/async_auto_reset_event.cpp` |
| `Cancellation` | sources, tokens, registrations, the request | `cppcoro/lib/cancellation_*.cpp` |
| `SequenceBarrier` | `sequence_barrier`, its wait operation, wrapping numbers | `sequence_barrier.hpp`, `sequence_traits.hpp` |
| `MultiProducerSequencer` (extends it) | published slots, their search and their waiters | `multi_producer_sequencer.hpp` |
| `RingBuffer` (extends both) | claims, producers and consumers of either sequencer | `single_producer_sequencer.hpp`, the loops of `test/multi_producer_sequencer_tests.cpp` |
| `EchoServer` | accept loop, session loops, awaiters | `Example_3_std_boost/src/AsyncTCPEchoServer.cpp` |
| `CoroStacks` | call stacks of threads over coroutines, for the next eight | what a compiler makes of a coroutine |
| `SharedTask` (extends it) | `shared_task` and its promise | `shared_task.hpp` |
| `WhenAll` (extends it) | `task`, `when_all_task`, the counter, the parent | `task.hpp`, `when_all*.hpp`, `detail/when_all_*.hpp` |
| `SyncWait` (extends it) | `sync_wait` and the three events under it | `sync_wait.hpp`, `detail/sync_wait_task.hpp`, `lib/lightweight_manual_reset_event.cpp` |
| `TaskProgram` (extends it) | tasks that share a task, under `sync_wait(when_all(...))` | the tests of both |
| `AsyncGenerator` | a source, a generator over it (`fmap`), their consumer | `async_generator.hpp` |
| `ManualResetEvent`, `SingleConsumerEvents`, `AsyncScope` | the events, the latch and the scope | the headers of these names, `lib/async_manual_reset_event.cpp` |
| `EventProgram` (extends the three) | workers, a controller, a consumer and a parent over them | in the manner of the tests |
| `IoService` | event loop, overflow list, stop, reset, work | `lib/io_service.cpp`, `io_service.hpp` |
| `IoTimers` (extends it) | timers and the timer thread | `lib/io_service.cpp` |
| `OverlappedOperation` (extends it) | start, completion and cancellation of an operation | `detail/win32_overlapped_operation.hpp`, `lib/socket_recv_operation.cpp` |
| `IoProgram` (extends it) | coroutines, I/O threads, main and a canceller over one service | in the manner of `test/io_service_tests.cpp` |
| `MCStructures`, `MCProgramAndMutex`, `MCCoroutines`, `MCTasksAndCancellation` | independent components side by side, in one run | |
| other `MC*` | symmetry sets, scenarios for TLC | |
| `ThreadPool_proofs`, `LocalQueue_proofs` | theorems about the module of the name, and their proofs | |
| `MutexAndRing_proofs` | the same of `AsyncMutex`, and of `RingBuffer` and the two modules under it | |
| `Structures_proofs`, `Coroutines_proofs` | the same of `WorkQueue` and `AutoResetEvent`, and of `EventProgram`, `EchoServer` and `AsyncGenerator` | |
| `TasksAndCancellation_proofs` | the same of `TaskProgram`, and so of the four modules under it, and of `Cancellation` | |
| `IoProgram_proofs` | the same of `IoProgram`, and so of the three modules under it | |
| `ListLemmas` | what several of them need of lists and counts | |

How state and actions correspond:

**WorkQueue.** `tasks[q]`, `stop[q]` are the fields; `pc[q]` is the line the
worker of `q` is at. The worker holds the mutex in the states
`predicate`, `block`, `take`. `condition_variable::wait` is `Lock` /
`EvalPredicate` / `Block` / (woken) / `Lock`. A caller is `PushTask` then
`NotifyOne`, or `SetStop` then `NotifyAll`, with other threads between the two:
`pendingOne`, `pendingAll` hold the calls that have not notified yet. `pushed`
and `ran` are histories.

**QueueProgram.** Task *k* is the code after the *k*-th hop of a test. A hop is
`PushCallback` in the first test and `AwaitQueue` in the second, where
`yield_value`, `await_ready` and `await_suspend` are one step: they are calls of
one thread on state that only the running piece touches, up to the push.

**AsyncMutex.** `m_state` is `locked` and `arriving`; `State` gives back the
word. Each atomic operation on it is an action; `m_waiters` changes together
with the atomic operation before it, since only the holder reads it.

**ThreadPool.** Thread 0 is the application, 1..N are the workers. Each action is
one atomic operation or one critical section of the code that takes part in
sleeping and waking. A local queue is a sequence with atomic ends, which is
what `LocalQueue` shows it to be. `scan` is the loop variable of the loops over
the threads.

**LocalQueue.** Loads and stores of `m_head`, `m_tail` are steps; the cursors wrap
at 2^W. `deque` is a history: the operations pushed and not taken; whoever takes an
item removes from it the operation that was in the slot, wherever that is in the list.
`PowerAssumption` states three laws of exponents, which TLC evaluates and the provers need.

**AutoResetEvent.** `sets` and `waiters` are the halves of `m_state`; each action
is one atomic operation on it, on `m_newWaiters`, or on a reference count. `EventInit`,
`EventNext` and `EventSpec` are its initial states, steps and specification, so that the
module can stand beside `WorkQueue` in one run.

**Cancellation.** `requested`, `complete`, `sourceRefs`, `tokenRefs` are the parts of
`m_state`. `slots` are the lists of chunks, flattened; each exchange on a slot is an
action. `pc[t]`, `arg[t]` are a thread's call of a constructor or destructor;
`phase`, `at`, `running` are the loop of the one thread that notifies, which may
make calls from the callback that it runs.

**SequenceBarrier, MultiProducerSequencer, RingBuffer.** Each load, store and
exchange of the published numbers and of `m_awaiters` is a step; the linked lists
that `add_awaiter`, `publish` and `resume_ready_awaiters` build are the sequences in
`local[t]`. `op[t]` is the wait operation. The list of waiters of a
`multi_producer_sequencer` is `awaiters["items"]`. Reads and writes of the
buffer are steps of the users; `buffer` holds the numbers of the items.

**EchoServer.** A step of the server is one completion handler, run to the next
`co_await`. Clients and asio are the environment: `Connect`, `Send`, `Close`;
`ReadSome`, `WriteSome` and failures. It serves the variant over `cppcoro::task` as well,
whose loops are the same.

**CoroStacks and what is built on it.** `stack[t]` is the call stack of a thread,
the running coroutine first, and `at[co]` is where a coroutine stands. A
`resume()` from C++ code is `Call` (the caller goes on when the other one
suspends), one in tail position or by symmetric transfer is `Transfer`. A label in
`Suspensions` means suspended; a coroutine that is resumed too early or twice is
on two stacks, or on one while it is suspended. `OneActivation` of each program
says that this never happens; for the generators it is `EndsRunOnce`, a part of
`GeneratorEndsAgree`.

**SharedTask, WhenAll, SyncWait.** `waiters` is `m_waiters` with its three
kinds of value; `oldWaiters` and `walk` are the local copies that the loops
compare with and walk over. `settled` is the state of a `task` without symmetric
transfer, where the awaiter starts the task and then tries to attach itself; with it the
continuation is set first and no flag is needed. `symmetric` chooses at the start. `count` is the
counter of `when_all`; `event`, `mainAt` are the thread in `sync_wait`.

**AsyncGenerator.** Coroutine 1 is the source, 2 to N map it, N + 1 consumes.
`state[k]` is `m_state` of the generator that coroutine *k* makes, `seen[k]` is the
`m_initialState` or the reloaded state of whoever waits on the other side. The compare-exchange
loops of `yield` and `advance` are `Reload`, `TrySuspend`, `Await`. The consumer may
stop and destroy the chain at any value (`Drop`): whoever of the two comes second frees the frame.
`ChainInit`, `ChainNext` and `ChainSpec` are its initial states, steps and specification, so that the module
can stand beside `EventProgram` and `EchoServer` in one module of proofs.

**ManualResetEvent and its neighbours.** `event[e]` is the word of an event,
`walk` the rest of the list that a `set()` still has to resume. The latch is an event and a count.

**IoService, IoTimers, OverlappedOperation.** `loop[t]` is where an I/O thread stands
in `try_process_one_event`; `stop()` is the store of the flag and one step per
wake-up. The timer thread's loop is cut where another thread can change what it reads:
`WokenUp`, `TakeFlag`, `Scan`, `TakeNewTimers`, `Sort`, `TakeDue`, `ResumeTimer`. An operation is given to
the system in `TryStart` and completed by it any time later; what `CancelIo` asks of the system may come too late.

Each module holds, next to the action it changes, the mutated forms that show
its properties to be able to fail (comments beginning `Mutant`). They are not part
of `Next`.

## 3. Runs

| run | shows | bounds, and why they are enough |
|---|---|---|
| `structures` | the task queue: no lost task wake-up; order; `Run` returns only drained. The event: one owner of the waiters; one await per set | Queue: 2 queues, 2 other threads, 3 tasks, a shutdown per queue, 1 spurious wake-up; a queue is empty, has one and has two tasks, and with 2 tasks order matters. Event: 3 waiters for ever, 2 setters with 2 calls each, so sets above, at and below the number of waiters, and an owner with work arriving. Symmetry in all names |
| `program_and_mutex` | the first example is straight-line code; one carrier of control; shutdown after the loop runs; clean restart; the script completes. The mutex: mutual exclusion, no lost waiter, FIFO refinement, no starvation | The program itself, unbounded but for 1 spurious wake-up. 4 coroutines that lock for ever: one holds, two are queued on both lists, one arrives |
| `queue_program_joins` | **violated**: the joins return | as above |
| `thread_pool` | each operation in one place; blocked workers findable; no stranded work | 2 workers, 2 operations, each rescheduling itself once. Two workers are the fewest that steal, wake and contend for a claim; the three properties are proved for every number of workers and operations |
| `thread_pool_count` | **violated**: a count of 0 means that no worker sleeps | 3 workers, the fewest that lose a claim; 2 operations |
| `thread_pool_wake` | **violated**: `wake_one_thread` returns | 1 operation, 2 workers |
| `local_queue` | slots hold the deque; items leave at their end | 2 thieves, 4 operations, cursors of 4 bits, buffer 2 growing to 4. Cursors wrap many times; the buffer is full, grows, and is contended down to the last item. Both are proved for every width and size |
| `tasks_and_cancellation` | tasks: no coroutine is resumed twice or too early; frames outlive their users; the parent finds the results; `sync_wait` returns. Cancellation: the state outlives its users, one call per callback, nobody passed over, destructors outlast callbacks, calls return | Tasks: 2 tasks, a shared task, 4 threads, each implementation of the event, both kinds of transfer; the last of two wrappers and of two awaiters is told from the other one. Cancellation: 3 threads, 2 registrations, 2 lists of at most 2 slots in chunks of 1: two constructors or destructors compete with the request in one list, or the scan passes from one list to the other. The safety properties are proved for every number of each |
| `ring_buffer` | resumed on target; unread slots intact; no publication missed; no deadlock | 2 producers, ranges of 1 and 2, 1 consumer, 2 slots, numbers of 3 bits, for ever. Numbers wrap every 4 rounds; two waiters with different targets share a list, and one of them is put back. All three are proved with one consumer for every number of producers, width and size |
| `ring_buffer_broadcast` | **violated**: resumed on target | 1 producer, 2 consumers that each read everything |
| `coroutines` | no coroutine is resumed twice or too early; a generator's frame outlives its consumer's use; waiters find what they waited for; each value once; no lost signal; the echo is the stream; every program ends | Generator: a source, one over it, 3 values, 2 threads. Events: 2 workers, a latch of 2, a gate that is closed once. Echo: 2 clients, buffer 2, 3 bytes each: a stream longer than the buffer, every split of reads and writes |
| `io_service` | each coroutine is resumed once; nothing uses an operation that is over; a stop reaches every thread; the timer thread is woken; the service ends | 2 coroutines with one thing to await each, 2 I/O threads (one that waits, one that polls), time 0..2, 1 reset, cancellation at any time. The six scenarios are the pairs that meet in one list or on one thread: two schedules on one and on two threads, two timers, a timer and a schedule, two cancellable operations, one without a token and a schedule |

`coroutines`, `tasks_and_cancellation`, `structures` and `program_and_mutex` each put independent components side by
side: a first choice (`program`, `structure`, `part`) picks one, and the variables of the others never change. The state spaces
add up and do not multiply; one exploration stands for the runs of each alone.

Bounds in guards: `MaxSpurious` (spurious wake-ups), `MaxSchedules` (times an
operation schedules itself again), `MaxCalls` (calls of a setter), `MaxBytes`
(bytes of a client), `MaxYields` (values of a source), `MaxResets` (times a gate is closed, times a service is reset),
`MaxTime` (the clock), `MemoryLimit` (size of the largest buffer), `MaxSlots` (slots of a
list of registrations), `MaxSources` (sources at a time), `MaxClaim` (numbers claimed
at a time). Tokens are no more than the registrations that are left, and a claim
of a ring buffer keeps the numbers in use within half the width: with 3 bits, three producers
could otherwise wait for numbers that look half the width ahead to one who read the gate before, and be resumed too early;
with 64 bits that takes 2^63 numbers claimed and not read. In `WorkQueue`
each task is pushed once and each queue shut down once. `MemoryLimit < 2^(W-1)`
because a full ring together with a reserved slot is `mask + 1` apart, which must
stay positive as a signed W-bit number; in the code W is 64.

Symmetry is used in runs of safety properties only.

Each property has a mutant: a plausible bug in a definition of the code for
which TLC finds that property violated under the same configuration.

## 4. Fairness and deadlock

Temporal properties are checked under weak fairness, with one exception.

- the program in `program_and_mutex`: each thread takes its next step when it can (an operating
  system schedules every runnable thread). The mutex needs no strong fairness:
  its other users hold it for a bounded number of their own steps. Spurious
  wake-ups are bounded, and not fair.
- the mutex in `program_and_mutex`: a holder unlocks and `unlock()` runs to its end. Nobody is obliged to lock.
- `ThreadPool` (`FairSpec`): every worker and the application are scheduled. In
  the counter-example every thread takes steps for ever.
- cancellation in `tasks_and_cancellation`: every thread finishes the constructor, destructor or request it is in,
  and callbacks return. Nobody is obliged to make a call.
- the tasks in `tasks_and_cancellation`: threads run what is on their stacks, what is awaited completes and
  main goes on. Spurious wake-ups are not fair.
- `coroutines`: threads run what is on their stacks, what is awaited completes, and the starting threads go on. `EchoServer`: `run()` handles completions; an accept, read or write that can
  complete does. Clients are never obliged to do anything. The one strong fairness is that of
  `SourceEnds`: a source whose operation may always complete later one time more does come to its end,
  which is up to the program that is written as its body.
- `io_service`: I/O threads, the timer thread, main and the coroutines are scheduled, the system completes
  operations that it was given, and time goes on. Nobody is obliged to request a
  cancellation; its callbacks, once it is requested, are called.

`CHECK_DEADLOCK FALSE` is set where the system may stop: when the joins have
returned or every worker sleeps (`structures`, `program_and_mutex`), when the pool has
been destroyed (`ThreadPool`), when the setters have made their
calls (`structures`), when a program has ended (`coroutines`) or the service is destroyed (`io_service`), when main has returned or every handle is gone (`tasks_and_cancellation`), when consumers have
read what there is and no one makes room (`ring_buffer_broadcast`), and when the
clients are quiet (`coroutines`). `local_queue` and `ring_buffer` are
checked for deadlock.

`NothingIsMissed` of the ring buffer says in terms of states what liveness would
say: when all calls of the library are over, nobody is suspended whose number has come.

## 5. Findings

**`queue_program_joins`: `main()` may hang.** `Shutdown` (`WorkQueue.cpp:26-30`)
stores the flag and notifies without the mutex. A worker that has evaluated its
predicate and not yet begun to wait misses both and sleeps for ever; `join`
never returns. `WorkQueue.cpp:15` says that on termination the worker gets an
empty function. `TaskWakeups` (section 6) proves that the same cannot
happen to a pushed task, whose push takes the mutex.

**`thread_pool_count`: the count of sleepers can lose one.** `wake_one_thread` takes a count
of 0 to mean "No sleeping threads" (`static_thread_pool.cpp:727`), and the comment at
lines 626-629 says that a worker which claimed a sleeper and finds its own flag taken
"will wake up another thread". `try_clear_intent_to_sleep` looks for that other thread in a
single pass and drops the claim when it finds none. Worker 1 so passes worker 2
before that one raises its flag; worker 3 claims what worker 2 then adds to the count and
clears its own flag; the pass of worker 1 ends, and the count is 0 while worker 2 sleeps.
`schedule()` wakes nobody until some worker sleeps again: one worker is lost to the pool meanwhile. No
work is left behind for that: `WorkIsNotStranded` (section 6) proves that the count is 0
only while some worker is awake.

**`thread_pool_wake`: `wake_one_thread` may search for ever.** The comment at
`static_thread_pool.cpp:738-741` says that a thread which claimed a sleeper is
guaranteed to find one. `shutdown()` clears flags without taking claims: when it
takes the flag for which another worker holds a claim, that worker goes
round the flags for ever and the destructor never joins it.

**`ring_buffer_broadcast`: a consumer is resumed early.** `add_awaiter`
(`multi_producer_sequencer.hpp:782`) compares the number the calling coroutine waits for,
not that of each awaiter it took off the list, and resumes them all. A
consumer that waits for number 1 so comes back with the result 0 when another one,
which waits for 0, finds it published. The comment at line 77 says that it is suspended
until its number has been published. One consumer alone is never affected,
as `ring_buffer` shows.

## 6. Proofs

All theorems hold for every value of the constants, under the named assumptions
of the modules (finite or not: threads, tasks and coroutines are any sets; the
pool has any number of workers from 1). Where the code counts threads or coroutines they
are finitely many (`FiniteAssumption`).

**Structures_proofs**, on `WorkQueue`. `TypeCorrect`, `TaskWakeups` (`NoLostTaskWakeup`),
`PushOrder` (`TakenInPushOrder`), `DrainedReturn` (`ReturnsOnlyDrained`). The
two sentences about the wake-ups are inductive together with the type: a task is
put in only while the worker does not hold the mutex, so it cannot appear between
the predicate and the wait, and a push adds its notification to `pendingOne` in
the same step.

**Structures_proofs**, on `QueueProgram`. `ProgramConsistent`, `CarriedByOne` (`OneCarrier`), `TestsStartClean` (`CleanBetweenTests`),
`NoShutdownIsUndone` (`ShutdownFindsTheLoopRunning`) and the refinement `RunsTheScript` (`StraightLine`). The premise, `ProgramAssumption`,
names the three queues and the main thread; `MCProgramAndMutex` assumes it too, so that TLC evaluates it. The invariant counts the pieces that have
begun. `OnePiece`: a task in a queue is the next piece, in the queue of that piece, and who has still to hop runs the last
one. `Serving`: while there is a baton no worker leaves Run, since the flags of those inside Run are down and only the last
piece raises them. `Along`: the queues of the pieces that ran have their workers inside Run, so that the last piece, which follows
one in each queue, shuts down nobody who has yet to clear the flag. `Noted`: the queue the promise remembers is never the one of
the next hop, so the branch of `await_ready` that does not suspend is not taken by this script. `RunsTheScript` maps each step to a
step of `QueueScript` or a stutter: `BeginPiece` to the next piece, `MainJoins` to the next test.

**MutexAndRing_proofs**, on `AsyncMutex`. The inductive invariant is `MutexTypeOK` with
`MutualExclusion`, `UnlockAssertions` and the statement that the
suspended coroutines are the members of the two lists, each once. Mutual exclusion
alone is not inductive: `HandOver` makes the head of the list an owner, which is
safe because only suspended coroutines are listed. From it follow `Mutex`,
`Assertions`, `NoLostWaiter` and `Refinement`: initial states and steps of
`AsyncMutex` map to those of `FifoLock` or stutter, with the queue
`waiters \o Reverse(arriving)`; the reversal in `TakeArrived` is a stutter.

**MutexAndRing_proofs**, on `RingBuffer`. `RingBufferInvariant`, `ResumedHaveTheirTarget` (`ResumedOnTarget`), `UnreadItemsAreIntact`
(`UnreadIsIntact`) and `NoPublicationIsMissed` (`NothingIsMissed`), of either sequencer, for any number of producers, any
claims, any power of two as size up to a quarter of the numbers, and any width from 3 bits. Their premise, `OneConsumer`, is one
consumer that the producers wait for, as in the tests of the library. It is needed: with two consumers
`ResumedOnTarget` is violated (`ring_buffer_broadcast`). All numbers are counted from the gate, the number the consumer released
last: `At(s)` is how far ahead `s` is, and `Number(i)` the number that far ahead. The invariant has five parts:

- `Typed`: types, and who makes which calls (`Roles`).
- `Places`: a coroutine that waits is in one stack or in one list of one thread, on the barrier it waits for,
  and nobody else is anywhere. A stack is taken and put back in pieces, so without it nobody could say that a coroutine is not resumed twice.
- `Ring`: claims (`Claims`) are disjoint ranges up to `Top`, and one that is being published lies within the ring; the number to
  read (`Reading`) is the next one after the gate or, during the read, one in the ring; a slot (`Slotted`)
  holds of its number this round or the last, and the items written this round.
- `Known`: what a thread has read and still believes. The gate only goes forward, so what it saw is never ahead of what is;
  with many producers (`Counting`), that all numbers up to what it counted are published.
- `Seen`: who is in a stack although its number came has somebody who will look: who has put it there and not looked
  again, or who has published and not yet taken the stack. It is `NothingIsMissed` for the moments when calls are under way, and the reason why
  `add_awaiter` looks again after its exchange.

The three properties follow from the five. When the gate moves (`ReleaseSlots`) every count from it shifts by what was
read: that each part survives the shift is most of the proof, with the lemmas on wrapping differences. What the loops that split a
list make of it (`Among`, a recursive function) is proved by the least index at which it would fail, which the library's theorem on
well-founded orders gives. Assumed of the constants:
`RoleAssumption`, `WidthAssumption`, `ExponentAssumption` (laws of exponents), `BufferAssumption`, `KindAssumption`, `GatingAssumption`
and `ClaimAssumption` (a claim is less than half the width). TLC has checked the invariant on the instance of `ring_buffer`.

**ThreadPool_proofs.** `TypeCorrect` and `BlockedAreFindable` (`BlockedIsFindable`).
The invariant adds to the type `Positions`, which bounds the loop variable at each
place it indexes a thread and says what `op` is there, and `AnnouncedIsFindable`:
a worker is announced from `NotifyIntent` until it leaves the sleep, and while it
is, its flag is up, or its event is set, or somebody is about to set it. The worker
can be found from the moment it announced itself, not only once it blocks; that is
what makes the statement inductive, since the queues are looked at in between.

`WorkIsSeen` and `WorkIsNotStranded` (`NoStrandedWork`). `NoStrandedWork` speaks of the
moment when all sleep; `WorkInv` says what holds before: while the global stack or list
has work, some worker has not yet looked at it since it announced itself, or has its
event set, or the application is about to wake somebody; a worker with local work
is not going to sleep; and a count of 0 means that some worker is not counted yet, or that
its flag was taken. The last part is what is left of "the count covers the sleepers", which is
not so (section 5), and it is enough: whoever enqueues and finds the count at 0
leaves the work to a worker that has still to look.

`EachInOnePlace` and `OperationsStayInOnePlace` (`OnePlace`). `OnePlace` counts how often an
operation occurs in all queues and hands. `PlaceInv` says it without counting: of any two places
an operation is at, both are the same; no list holds it twice; a hand holds one only where a
thread is about to run or schedule it; and one that was scheduled is somewhere. The last leads from
the one to the other with the lemmas about cardinalities.

**LocalQueue_proofs.** `Consistent`, `SlotsHold` (`SlotsHoldTheDeque`), `EachTakesFromItsEnd`
(`TakesFromItsEnd`), for every width of the cursors, size of the buffer and number of thieves. The
invariant speaks of cursors that do not wrap: there is an integer *b*, the number of items ever
stolen, such that `tail` is *b*, or *b* + 1 while a thief claims, and `head` is
*b* + `Len(deque)`, or one less while the worker claims, both modulo 2^W; the item *n* of the deque
is in the slot *b* + *n* - 1 modulo the size. `SlotsHoldTheDeque` speaks of the rest between
operations only and is not inductive. The heart is in `Items`: a thief that decided to steal leaves an
item for a worker that decided to pop, since each moves its cursor before it looks at the other's.
The proof rests on lemmas about remainders: a difference below half the range survives wrapping, a
power of two divides the range, and two items less than a buffer apart have different slots. That the full
ring has one item more than `mask` when a thief puts its claim back is where `MemoryLimit < 2^(W-1)` is needed.

**Structures_proofs**, on `AutoResetEvent`. `Consistent`, `OwnerIsAlone` (`OneOwnerOfTheWaiters`), `SetsAreUsedOnce`
(`OneAwaitPerSet`). The two counts are a lock: while both are positive one thread owns the
lists, and it has taken off no more than it may. Inductive are, together: the owner; that a waiter is
linked in one list at most; what its reference count stands for; and two balances, the length of the lists against
the count of waiters and the sets ever made against the awaits that passed. The balances hold for
the owner only up to what it has taken and not subtracted, so they are stated with that number as
a parameter.

**TasksAndCancellation_proofs**, on `TaskProgram`. `TasksAreConsistent`, `TasksRunOnce` (`OneActivation`), `FramesOutlive`
(`FramesOutliveUsers`) and `ResultsAreThere` (`ParentFindsTheResults`), for any number of tasks, with and without symmetric transfer,
and with any of the three events. The premise, `UserAssumption`, says that there are finitely many tasks, names the coroutines and gives
each a thread; the run checks it of its own. The invariant, `TaskInv`, says who can resume whom:

- `TasksScheduled` is `Orderly` of the other programs: who is not at a place of suspension is on the stacks once, and nobody else is.
- `SharedInv`: the pointer of the shared task tells how far its coroutine has come (`SharedPhases`); who is queued is in
  its list, or in the one that the completion walks over, once (`WaitersQueued`); what an awaiter read of the pointer still
  holds as far as it relies on it, since the pointer only moves on (`AwaitersKnow`); and while the coroutine is under way somebody
  waits for it (`SomebodyWaits`).
- `JoinInv`: without symmetric transfer, a wrapper is suspended only when the task has still to find that it is (`TasksWrapped`); the
  counter counts the wrappers that are not done, and the parent while it starts them (`WrappersCounted`); main waits for
  an event that the parent sets last but one (`MainWaits`).
- `ReferencesCounted`: the count is that of the tasks that have not released their copy, and one for main.
- `ResultsKept`: who releases its copy has its result, and a value comes from the shared task.

`FramesOutliveUsers` follows along two lines. A count of 0 means that every task has released its copy; so nobody waits, and by
`SomebodyWaits` the shared coroutine is not under way. The count alone would not tell, for the coroutine has no
reference to itself (section 7). And when `sync_wait` has returned, the event was set, so the parent is at its last step or through, so no
wrapper is pending, so all tasks are done (`AllTasksAreDone`), and no stack holds anything but the parent that has still to wake
the futex.

**TasksAndCancellation_proofs**, on `Cancellation`. `Consistent`, `CalledOnce` (`CalledAtMostOnce`), `NonePassedOver`
(`NobodyIsPassedOver`), `DestructorWaits` (`DestructorOutlastsCallback`), `StateIsCounted`
(`StateOutlivesItsUsers`). The invariant relates three views of a callback: the slot it is in, the stage
of its registration, and the call of the thread that constructs or destroys it. A callback is in the
slot it remembers or was called, for as long as somebody may look for it there. What the scan
has passed is not a registered callback (`NothingLeftBehind`): a registration that is added behind the
scan is one whose constructor has still to look at the flag. For the state, the
two halves of the count are the cardinalities of who can reach it: sources, tokens, constructors under way and
registrations that hold one.

**Coroutines_proofs**, on `EventProgram`. `Consistent`, `ResumedByOne` (`OneActivation`), `WaitersFindIt`
(`WaitersFindWhatTheyWaitedFor`), `NoSignalIsLost` (`SignalIsNotLost`), for every number of workers. The premise,
`EventAssumption`, only names the coroutines and gives each a thread; the run checks it of its own.
The invariant has six parts. `Orderly` says that a coroutine is on the stacks once if it is not at a place of
suspension, and nowhere if it is; a step keeps it whenever whom it resumes is suspended, and the other parts
are there to know that. `QueuedOnce`: who is in the list of an event, or still to be resumed by a call of `set()`, is queued,
and there only. `Latched`: the latch is set, or has been read as set, or somebody passed it, only when all have counted down.
`Scoped`: the count of the scope is the number of workers on their way, and one until it is joined; so the one who
finds it at 1 finds the owner in `join()`. `Signalled`: one worker at most is between the two exchanges of
`set()`, while the consumer is suspended and the event set, and what is published and not taken is still to be signalled, or the event is
set. `Told` is the same of the event of the parent. `OneActivation`, which counts places on stacks, follows with the
lemma `RunsOnce`.

**Coroutines_proofs**, on `EchoServer`. `EchoConsistent` and `EchoIsFaithful` (`EchoIsTheStream`), for every size of the buffer
and any set of clients. `EchoIsTheStream` relates what a client sent to what came back, what the session
holds and what the kernel has. It is inductive with `InOrder`: a completion in the queue belongs to what its session
waits for, there is one per session, and a session that writes has written no more than it read. Without the first two
a second completion could move a session that is under way. The proof follows the bytes through each step by
associativity of concatenation.

**Coroutines_proofs**, on `AsyncGenerator`. `ChainIsConsistent`, `ChainRunsOnce` (`EndsRunOnce`),
`ChainPassesEachValueOnce` (`EachValueOnce`) and `ChainKeepsItsFrames` (`ProducerStaysWhileUsed`), the three parts of
`GeneratorEndsAgree`, for a chain of any length, any number of values, with and without symmetric transfer. The
assumption, `GeneratorAssumption`, names the coroutines and their threads and says that `End` is not a value. The
invariant, `ChainInv`, has five parts:

- `ChainTyped`: types, the places of source, middle and consumer, and that the stacks hold who runs.
- `Dropping`: what a destructor is about to destroy is its own source, or the source of what it has destroyed. A chain
  is destroyed one frame at a time, and the frames in the middle are destroyed by the one behind them or by themselves.
- `EndsSettled`: without symmetric transfer, what each value of `m_state` says of the two ends. This is the protocol:
  in "VNRCA" the producer still makes the value, or offers it, and the consumer wants it; in "VNRCS" the consumer is suspended; in
  "VRPA" the producer offers what the consumer may be reading; in "VRPS" the producer rests until it is asked. A state read
  before (`seen`) tells apart the two ends of one compare-exchange. `EndsRunOnce` says nothing of `m_state` and is not inductive
  without it: that whom a step resumes is suspended is known only from the state.
- `OneGoesOn`: with symmetric transfer there is no such state; one coroutine has the baton, those before it wait to be asked and
  those behind it for what they asked for.
- `ValuesInOrder`: a value that was not yet read is one more than what was read of it last, all along the chain (`Passes`), and the
  end comes after the last one, with the exception of the source.

A step touches two neighbours of the chain, so the proof shows for each action what it does to the generator on its left and on its right, and that
the others have `SameEnds`. `EachValueOnce` speaks of the two ends of the chain, and follows from `Passes` at the consumer's generator alone, since
`Passes` bounds each value by `yielded` and gives each exception as that of the source.

**IoProgram_proofs**. `InvariantHolds`, `ResumedOnce` (`OneActivation`), `NobodyUsesIt` (`NothingUsesAFinishedOperation`),
`NoThreadIsForgotten` (`StopReachesEveryThread`) and `TimersAreServed` (`TimerThreadIsWoken`), for any finite numbers of coroutines
and I/O threads, any mixture of what they await, any times and any number of resets. The invariant says of each coroutine who
can still resume it. `Orderly` is as in `EventProgram`. `Posted`: one that is posted has one packet in the port, or one place in the overflow list or in the
batch of one thread that posts the list again, and is suspended. `Kept`: a timer is in one list of the timer thread at most,
and its reference count is what the two ends have still to let go of: 2 until `await_suspend` or the thread has, and the one that finds it at
1 schedules; the timer at the head of `ready` is out of the count while the thread is at `schedule` or `push`. `Operated`: the system holds an
operation from the call that starts it to the packet that is taken, and the state word tells whether its coroutine
has suspended. A coroutine in one of the three is suspended, or about to, and in no other, so
whoever finds it may resume it; that is `ResumedOnce`.

`Callbacks` says that a callback is registered or runs only while its coroutine awaits, that a timer that is kept has its callback until
cancellation is requested, and that a kept timer whose callback has been called is still to be seen: the flag is set, or the scan has it
before it. `Awake` carries the wake-ups from who has made the list or the flag worth a look to the thread, and the time the
thread is to wake up by itself: that one is only right again once `TakeDue` has set it, so the invariant
names the places between that and the next look. `Stopped` balances the threads that wait or will against packets and wake-ups to come. It
is inductive with the two counts: the count of threads is that of the threads in the loop, and the count of work says that
main or one coroutine alone stops the service. When the port refuses a wake-up it holds a packet for each thread already, which is why
dropping it is right.

**ListLemmas** has no theorem of the system: stacks that are reversed into queues, lists that hold
nothing twice, sets that one element joins or leaves, and the stacks of `CoroStacks`: what a call, a
suspension and a transfer of control do to who runs where.

**Model-checked only.** Everything temporal under fairness (`EveryoneGoesOn`, `WaitsEnd`,
`ProgramsEnd`, `ServiceEnds` and the violated `JoinsReturn`, `WakeReturns`): liveness is out of the prover's reach. All other
properties of the passing runs are proved. The type invariants and
`UnlockAssertions` are not among the properties of the runs: the proofs establish them.

## 7. Abstractions

- Memory orders are not modelled: every load and store is sequentially
  consistent. Hazards that need weaker orders are listed with that note.
- A coroutine that is resumed goes on as an actor of its own, while in the code it
  runs inside the call that resumed it. The models so have every behaviour of
  the code and some more.
- Tasks, operations and coroutines are names; what they compute is left out, as
  are logging, sleeps and results. `NeedNetwork` and `NetworkOk` are the
  constants that `TestFunctions.cpp` returns.
- In `ThreadPool` a local queue may be found full at any time (the code
  falls back on the global queue); `LocalQueue` has the real condition. The look at
  the queues in the spin loop is unsynchronised, and may answer either way.
- In `Cancellation` any free slot may be found, and a chunk may be added while there are
  free ones: the code's free counts are approximate. A callback may destroy its own
  registration or any other one, but does not wait for another thread in any other way.
- A coroutine resumed by a barrier may go on at any time, which stands for the schedulers
  it is resumed on.
- Failures to allocate are modelled where the code handles them (`EnqueueFails`);
  failures of the operating system to create threads are not, nor are exceptions
  out of `condition_variable`.

- In `IoService` the port refuses a packet when it holds one per I/O thread, which
  stands for a system short of memory. `wait` of a thread that polls may time out at any time.
  `notify_work_finished` calls `stop()`, which goes on to post wake-ups after the last thread may have left:
  main does not destroy the service before the coroutine that does so is through.
- Of the system's failures, `WAIT_FAILED` and failures to create handles or threads are not modelled; a post
  may be refused (a wake-up is then dropped, as in the code) and `SetWaitableTimer` may fail. Two coroutines that start
  the timer thread at once are one step: the loser of the race deletes its copy. The heap of timers and the list
  that stands in when it cannot grow are one set.
- `ServiceEnds` admits one outcome other than the end: an operation that the port refused and that is in the
  overflow list when every thread waits already. The code looks at the list only when a thread
  comes around, as the comment at `io_service.cpp:521` says ("until some I/O thread next enters its event loop").
- A shared task is never assigned to, and the event of `sync_wait` is never reset: both are left out. The constructor's comment at
  `shared_task.hpp:335` says that the count starts at 2, one for the coroutine; the code starts it at 1, and so does `SharedInit`.
- An exception that a cancelled generator's body throws is dropped, as `unhandled_exception` does.

## 8. Not modelled, and the plan

Not modelled: `Example_2_boost` (four sequential demonstrations), the
Go test client (the environment of the echo server), `generator`, `recursive_generator` and the adapters and
inline schedulers that one thread uses (their control is that of C++ coroutines), IP addresses and
endpoints (parsing, tested by example), and how each file and socket operation calls Windows.

What could come next, in this order:

1. Proofs: a ring buffer of one `single_producer_sequencer` whose producer waits for several consumers.
2. Abstract specifications: a channel for the ring buffer and the generator, and a
   one-shot broadcast for events and tasks.
3. Timers and operations over the real `Cancellation` in place of the token that `IoProgram` keeps.
