# TLA+ models of the mnser fiber runtime

This directory holds TLA+ models of the concurrency core of mnser:
fibers, the scheduler, the timer manager, the epoll-based IOManager, the
per-descriptor table and the syscall hook layer, and the byte buffer used
for serialization. Everything is checked
with TLC. `PROJECT.json` lists the components, the runs, the mutants, the
map from each definition to the source lines it models, the findings and
the hazards.

## 1. Inventory

### Components, their state and operations

| Component | Source | State | Operations |
|---|---|---|---|
| Fiber | `src/src/fiber.cpp`, `src/inc/fiber.h` | `m_state` (INIT, HOLD, EXEC, TERM, READY, EXCEPT), stack, context, callback; thread-locals `t_fiber`, `t_threadFiber` | constructor, `reset`, `swapIn`/`swapOut`, `call`/`back`, `YieldToReady`, `YieldToHold`, `MainFunc`/`CallerMainFunc` |
| Scheduler | `src/src/scheduler.cpp`, `src/inc/scheduler.h` | `m_fibers` (the FIFO of `FiberAndFunc` units, each with an affinity `thread_id`), `m_activeThreadCount`, `m_idleThreadCount`, `m_stopping`, `m_autoStop`, `m_threads`, `m_rootFiber` | `schedule`, `start`, `stop`, `switchTo`, `run` (the worker loop), `idle`, `tickle`, `stopping` |
| TimerManager | `src/src/timer.cpp`, `src/inc/timer.h` | `m_timers` (a set ordered by `(m_next, address)`), `m_tickled`, `m_previousTime`; per timer `m_next`, `m_ms`, `m_recurring`, `m_cb` | `addTimer`, `addConditionTimer`, `Timer::cancel`, `Timer::refresh`, `Timer::reset`, `getNextTimer`, `listExpiredCb`, `detectClockRollover` |
| IOManager | `src/src/iomanager.cpp`, `src/inc/iomanager.h` | epoll set, the tickle pipe, `m_fdContexts` (per fd `curEvents` and a read and a write `EventContext` holding a scheduler plus a fiber or a callback), `m_pendingEventCount` | `addEvent`, `delEvent`, `cancelEvent`, `cancelAll`, `triggerEvent`, `idle` (the reactor loop), `tickle`, `stopping`, `onTimerInsertedAtFront` |
| FdManager | `src/src/fd_manager.cpp`, `src/inc/fd_manager.h` | `m_datas`: per fd a `FdCtx` (`m_isSocket`, `m_sysNonblock`, `m_userNonblock`, `m_isClosed`, receive and send timeouts) | `get(fd, auto_create)`, `del`, `FdCtx::init`, `setTimeout`/`getTimeout` |
| Hook layer | `src/src/hook.cpp` | thread-local `t_hook_enable`; per wait a `timer_info` (`cancelled`) shared with a condition timer | `do_io` (read/write family, `accept`), `connect_with_timeout`, `sleep`/`usleep`/`nanosleep`, `socket`, `close`, `fcntl`, `ioctl`, `setsockopt` |
| Thread, Mutex | `src/src/thread.cpp`, `src/inc/mutex.h` | pthread handle, semaphore | thin wrappers, not modelled |
| ByteArray | `src/src/bytearray.cpp`, `src/inc/bytearray.h` | a singly linked list of `Node`s of `m_baseSize` bytes from `m_root`; `m_cur`, `m_position`, `m_size`, `m_capacity` | `write`, `read`, the positional const `read`, `toString`, `getReadBuffers`, `getWriteBuffers`, `addCapacity`, `setPosition`, `clear`; the varint and zigzag codecs |
| Out of scope | log, config, address/socket, http, tcp_server | | consumers of the runtime |

### How the components interact

* A worker thread runs `Scheduler::run`. It takes the first unit of
  `m_fibers` that it may run, swaps into the unit's fiber, and looks at the
  fiber's state when the fiber swaps back. A READY fiber is scheduled
  again. Any other unfinished fiber is marked HOLD and belongs to whoever
  holds a handle to it: a timer callback, an event context or a
  `switchTo` entry in the queue.
* IOManager overrides `idle`. The idle fiber blocks in `epoll_wait` for
  at most the time to the next timer, capped at 3 s. It then schedules the
  expired timer callbacks (`listExpiredCb`) and triggers the ready fd
  events, each of which schedules the waiting fiber or callback.
  `tickle()` writes to a pipe to wake an idle worker, but only if some
  worker is idle.
* The hook layer turns a blocking call into: try the call; on EAGAIN, add
  a condition timer for the fd's timeout and `addEvent(fd, ev)`; then
  `YieldToHold`. The fiber is resumed either by the event or by the timer
  callback, which sets `timer_info::cancelled = ETIMEDOUT` and calls
  `cancelEvent`. The resumed fiber cancels the timer, reads `cancelled`,
  and either returns the timeout or retries the call.
* `sleep` adds a timer whose callback schedules the current fiber, then
  yields.

### What is hard

* Several worker threads take units from one queue. A fiber can be put
  back in the queue (by `switchTo`, a timer or an event) before it has
  swapped out of its old thread. The only defence is the "state == EXEC"
  skip in the scan.
* `m_activeThreadCount`, the queue and the stop flags are read together in
  `stopping()` but are not updated atomically with one another.
* A timeout timer and a readiness event race to wake one fiber. They share
  the `cancelled` flag and the per-fd lock.
* The reactor processes a batch that `epoll_wait` returned earlier. By then
  the fd may have been cancelled and re-armed.
* The tickle is conditional: it is sent only when the queue was empty and
  some worker is idle. A timer inserted at the front notifies only once
  per `getNextTimer`.
* Clock steps: `detectClockRollover` uses unsigned arithmetic.

### What makes each component correct

* Scheduler: no fiber runs on two threads at once, and every unit is
  consumed exactly once. `stop()` returns, and
  every scheduled unit runs first.
* IOManager: an armed event is triggered or cancelled exactly once, and
  its waiter is resumed exactly once. `m_pendingEventCount` equals the
  number of armed events. `stopping()` is true only when nothing can still
  arrive.
* Timer manager: a timer is in the set exactly while it has a callback.
  `cancel` succeeds once. A cancelled timer never fires. `listExpiredCb`
  takes exactly the due timers, and all of them after a clock rollover.
* Hook layer: a wait ends either with data or with ETIMEDOUT, and ends
  with ETIMEDOUT only if the timeout elapsed before readiness. A timer
  left over from an earlier wait never affects a later one.
* FdManager: one `FdCtx` per open fd. The user's non-blocking flag is kept
  apart from the forced OS flag.

## 2. Plan

Modules, in order of importance:

1. `Scheduler` (done): the `run` loop with fiber states, the EXEC skip,
   `switchTo`, yields, callback units, the caller thread and
   `stop`/`stopping`. MC module `MCScheduler`.
2. `IoWait` (done): the IOManager event table and the reactor batch,
   together with the hook-layer wait of `do_io` and its condition timers
   (`connect_with_timeout` has the same shape). Which worker runs a
   resumed fiber is abstracted away; `Scheduler` models that. Checked:
   exactly-once wake-up, the pending count, deadlines across calls, and
   delivery of readiness, and `close()`'s `cancelAll` racing the waiters.
   Open: the tickle pipe, `delEvent` and callback events.
3. `TimerManager` (done): the ordered set, `cancel`/`refresh`/`reset`,
   `listExpiredCb` with recurring timers and rollover (unsigned
   subtraction modelled modulo a word). The `m_tickled` front
   notification is left out (see section 5).
4. `FdHook` (done): `FdManager` and the descriptor half of the hook
   layer (`socket`, `accept`'s registration, `close`, `fcntl`, `ioctl`,
   `setsockopt`, and `do_io`'s choice of the native path), against a
   kernel modelled by what it does. See section 6.
5. Refinement (done): `ByteArray` is shown to implement the flat byte
   array `FlatBuffer` through `INSTANCE ... WITH`. See section 7.
6. `ByteArray` (done): the node list of the serialization buffer, shown
   to implement a flat byte array `FlatBuffer`, and its codecs. See
   section 7.

## 3. Scheduler (`Scheduler.tla`, `MCScheduler.tla`)

State: `queue` is `m_fibers` (a sequence of `[f, t]` units). `fstate` is
each fiber's `m_state`. `pc`/`cur` give each worker's position in `run`
and the fiber it holds. `idleSt` is the state of each worker's idle
fiber. `active` is `m_activeThreadCount`. `stopping` and `autoStop` are
the two flags. `mainPc` is the constructing thread.

Actions follow `run`:

* `Pick` is the locked scan plus `swapIn`.
* `PickNone` and `NoWork` are the empty scan, the idle fiber (the base
  `idle` yields until `stopping()`) and leaving the loop.
* The fiber body does one of `YieldToReady`, `SwitchTo`, `Spawn`
  (schedule a new unit) or `Finish` (TERM or EXCEPT).
* `Settle` is `--m_activeThreadCount`. `Requeue` re-schedules a READY
  fiber or marks HOLD.
* `MainSchedule`, `Stop` and `Join` model the constructing thread. With
  `UseCaller` the caller thread `Root` is a worker whose loop starts only
  inside `stop()`.

`Settle` and `Requeue` are separate steps because the code decrements the
counter before it re-schedules.

Bounds: one spawned thread plus the caller thread, 2 or 3 fiber ids, one
yield per fiber. That is enough for a fiber to be re-queued by `switchTo`
while still EXEC, for the other worker to scan it, and for `stop` to land
in every window. `Pins` is the set of affinities the application uses.

Fairness: weak fairness on every worker step except the optional ones
(spawning, yielding). OS threads are scheduled fairly. A fiber body is
finite, so a running fiber eventually finishes (`Finish` is fair). The
main thread eventually calls `stop()`.

Runs:

* `sched_safety` (pass): `ExclusiveExec` (no fiber is held by two
  workers) and `SingleOwner` (a fiber is queued or held at most once,
  except in the switchTo window; a finished fiber is never queued).
  The same run checks two liveness properties: `UnpinnedStopReturns`
  and `UnpinnedUnitsFinish`. In every behaviour where no unit is ever
  pinned to a thread, `stop()` returns and every scheduled unit runs to
  completion. The hypothesis `NeverPinned` keeps the behaviours of the
  pinned instance out, and the next run shows why it is needed.
* `sched_stop_hang` (violation): `StopReturns` fails when units may be
  pinned to threads. `stop()` can evaluate `stopping()` while a READY
  fiber sits between `--m_activeThreadCount` (scheduler.cpp:229) and its
  re-schedule (scheduler.cpp:235). If that happens, the caller's root loop
  is never started, or a worker leaves its loop. A unit that the
  re-queued fiber then pins to that thread is never run, and `stop()`
  never returns.

No run checks affinity after a yield. A unit scheduled onto thread T that
yields READY is re-scheduled with `thread_id = -1` (scheduler.cpp:235),
and `Requeue` keeps that. The spec's "runs only on that thread" is about
a unit's first run, and a unit test reaches the yield case directly, so
a model run adds nothing there.

## 4. I/O waits (`IoWait.tla`, `MCIoWait.tla`)

The module models one blocking call through the hook layer. A fiber in
`do_io` is a *waiter* with a fixed `(fd, event)` and a timeout. It races
against the reactor threads (`IOManager::idle`) and against the expired
timer callbacks that the scheduler runs as callback units.

State and actions:

* `pc`, `gen`, `cancelled`, `result`: the position in `do_io`, the
  call's generation, and its `timer_info` and return value.
  * `Try` is the native call.
  * `AddTimer` is `addConditionTimer`.
  * `AddEvent` is `IOManager::addEvent`.
  * `Yield` is `YieldToHold`.
  * `Resume` is a worker swapping the fiber in.
  * `CancelTimer` is `Timer::cancel`.
  * `Check` is the flag test and the `goto retry`.
  * `NextCall` is the fiber's next call, with a new `timer_info`.
* `curEvents`, `ctx`, `pending`: the `FdContext` table and
  `m_pendingEventCount`.
* `ready`, `rlist`: the kernel side, modelled by what it does. `ready`
  says whether the native call would succeed. `rlist` is the
  edge-triggered ready list: an fd goes on it on an edge while armed or
  on an ADD/MOD while ready, and it comes off when `epoll_wait` reports
  it. `Arrive` is the peer making an fd ready, bounded by `MaxArrive`.
* `EpollWait`, `ProcessSkip`, `ProcessTrigger`, `ProcessAbort`,
  `FinishBatch`: one iteration of the idle loop.
  * `epoll_wait` and `listExpiredCb` are a single step.
  * Each returned event is then handled as its own step under the fd
    mutex, against the table as it is at that moment.
* `timers`, `cbq`, `Tick`: the timer set in relative time, with `left`
  ticks to the deadline, and the queued callbacks.
  * `TimerCbLock` is `OnTimer` and the lambda's `winfo.lock()` and flag
    write.
  * `TimerCbCancel` is its `cancelEvent`.
  * `waited` counts the ticks since the call began.
* `aborted`: an `MS_ASSERT` failed. After that, `Crashed` stutters.
* `fdst`: the progress of a third fiber's `close(fd)` (hook.cpp:349-362)
  for each fd in `Closing`: `open`, `cancelled`, `closed`.
  * `CloseCancelAll` is `IOManager::cancelAll`. Under the fd mutex it
    clears `curEvents`, lowers `m_pendingEventCount` and triggers every
    armed event. It does not touch the waiters' `timer_info`.
  * `CloseNative` is `close_f`. The fd leaves epoll and the ready list.
  * On a closed fd, the native call returns EBADF (the closed branch of
    `Try`).
  * `addEvent`'s `epoll_ctl` fails, so `do_io` cancels its timer and
    returns -1 (`AddEventFail`).
  * The reactor's `epoll_ctl` fails for a batched event and it skips
    that event (`ProcessCtlFail`).
  * `cancelEvent` from a timeout fails the same way and triggers nothing.

Bounds: two fibers (a reader and a writer), one reactor thread, timeout 1
tick, 2 readiness edges, and 1 or 2 calls per fiber. With both fibers on
one fd, both events can be returned in one batch. Two calls let a timer
of the first call outlive it.

Fairness: weak fairness for each fiber, each reactor thread, the
callbacks, time, and the native close of a close already begun. Starting
a close is the application's choice, so it gets no fairness. The peer is never obliged to send.

Runs:

* `io_safety` (pass): `EventTableOK`, `WaiterOwnedOnce` (exactly-once
  wake-up) and `TimeoutOnlyAfterDeadline`.
* `io_delivery` (pass): `EventTableOK`, `WaiterOwnedOnce` and
  `ReadyIsDelivered`. An armed and ready event always resumes its fiber,
  unless its fd is closed first. The reader and the writer park on one
  socket with no timeout, so only the reactor can end their waits. The
  two events of one fd are what make the edge-triggered ready list
  matter. A batch entry skipped, or the `EPOLL_CTL_MOD` that re-arms the
  fd's other event, must leave the readiness for the next `epoll_wait`.
  The mutant whose MOD does not re-examine readiness breaks it. A third
  fiber may close the socket, but nothing obliges it to. Only the native
  close that follows a started `cancelAll` is weakly fair. So a
  behaviour where no close happens must deliver.
* `io_close_race` (violation, `NoWaiterOnClosedFd`): spec section 4.6
  says `close` unblocks whatever is parked on the fd. The shortest trace
  has four steps:
  1. The writer gets EAGAIN.
  2. The closing fiber's `cancelAll` finds nothing armed.
  3. The writer's `addEvent` arms WRITE.
  4. `close_f` closes the fd.

  After that, epoll never reports the fd, and the writer is parked for
  ever. A timeout would not help: its `cancelEvent` fails on the closed
  fd (iomanager.cpp:248-253). `m_pendingEventCount` stays above zero, so
  `IOManager::stopping` never holds. A fiber that `cancelAll` woke can
  retry, because `cancelled` is 0, and it re-arms in the same window.
* `io_stale_batch_abort` (violation, `NoAbort`): the reader and the
  writer of one socket are both ready, and `epoll_wait` returns both bits.
  Before the reactor locks the fd, the writer's timeout callback cancels
  WRITE. The reactor sees READ still armed, so it does not skip the
  event, and it triggers both bits (iomanager.cpp:397-404).
  `triggerEvent(WRITE)` then fails `MS_ASSERT(curEvents & event)`.
* `io_spurious_timeout` (violation, `NoTimeoutAfterDataWake`): the
  reactor triggers READ. The already expired timeout callback then sets
  `cancelled = ETIMEDOUT` (hook.cpp:129). Its `cancelEvent` finds nothing
  to cancel, and the resumed call reports ETIMEDOUT although it was woken
  by data.
* `io_wait_hang` (violation, `WaitEnds`): the timer is armed before the
  event (hook.cpp:121-134). If it fires in between, the callback sets the
  flag and cancels nothing. The fiber then arms the event and parks with
  no timer left, and a read with a timeout blocks until data comes.

Not modelled here:

* `epoll_ctl` failures other than on a closed fd.
* `EPOLLERR`/`EPOLLHUP`.
* Callback events (`addEvent` with a callback).
* `delEvent`, which nothing in the runtime calls.
* The tickle pipe. `epoll_wait` may return at any step, as its
  3 s `MAX_TIMEOUT` allows.

## 5. Timers (`TimerManager.tla`, `MCTimerManager.tla`)

The operations are `AddTimer`, `Cancel`, `Refresh`, `ResetTo` and
`ListExpired` with `DetectRollover`. Each one holds the manager's write
lock for its whole body, so each is one step. `RunCb` is a handed-out
callback running later as a scheduler callback unit. `Advance` and
`StepBack` move the wall clock.

* The timer set is kept as a set with each timer's `next`, `ms`,
  `recurring` and callback-present flag. The order by `(m_next, address)`
  only serves `lower_bound`, and together with the equal-deadline scan
  that selects exactly the timers with `m_next <= now`.
* Clock values are uint64, kept modulo `Modulus`. `Sub64` is the unsigned
  subtraction of `detectClockRollover`.
* `getNextTimer` and `m_tickled` decide only whether a front insertion
  writes to the tickle pipe. A missed tickle delays the reactor by at most
  `MAX_TIMEOUT`, so no safety or liveness property depends on them.

Bounds:

* Two timers and intervals {1, 2}.
* "An hour" is 1 tick.
* The clock runs from 1 to 4 and is stepped back at most once. A step of
  1 is within the hour; a step of 3 is a rollover.
* The clock stays at or above one hour, because `GetCurrentMS` is
  wall-clock time. It is not defined in this repository.

Fairness: `ListExpired` is weakly fair. `IOManager::idle` calls
`listExpiredCb` on every turn of its loop, and `epoll_wait` returns after
at most `MAX_TIMEOUT`. Nothing obliges the clock to move or a callback to
run.

Runs:

* `timer_safety` (pass):
  * `SetMatchesCb`: a timer is in `m_timers` exactly while `m_cb` is set.
    `cancel()` erases `find(this)` on that assumption.

  Whether `cancel()` returns true at most once, and whether callbacks are
  handed out only when due, are not checked. The first holds because
  nothing sets `m_cb` again after `cancel()` clears it. The second holds
  because the model's `ListExpired` takes exactly the timers with
  `m_next <= now`. That is what `lower_bound` with the equal-deadline scan
  selects: every timer with an earlier deadline sorts before the probe,
  and the scan takes the equal ones on either side of it.
* `timer_cancel_race` (violation, `CancelFinal`):
  1. A recurring timer expires. `listExpiredCb` copies its callback and
     re-inserts it.
  2. `cancel()` now returns true.
  3. The copied callback still runs.

## 6. Descriptors (`FdHook.tla`, `MCFdHook.tla`)

The module models `FdManager::m_datas` and the hook calls that create,
change or drop its entries, against the kernel's view of each descriptor.

State:

* `osOpen`, `osKind`, `osNb`: the kernel. A descriptor is open or not,
  a socket or another file, and has the `O_NONBLOCK` flag. New
  descriptors take the lowest free number, so a closed number is reused.
* `table`: `m_datas`, per fd `None` or an `FdCtx` record (`isSocket`,
  `sysNb`, `userNb`, `closed`, `rcv`).
* `stalled`: a worker thread is blocked inside a native call.

Actions and operators:

* `NewCtx` is `FdCtx::FdCtx`/`init`. `GetCreate` is `get(fd, true)`,
  which returns an existing entry unchanged. `Del` is `del`.
* `SocketCall(hooked)` is `socket()`, registering only on a hooked
  thread. `AcceptCall` is `accept()`'s registration of the new
  connection, done on every thread. `OpenOther` opens a non-socket.
* `CloseCall(fd, hooked)` is `close()`: `del` only on a hooked thread.
* `SetFlCall` is `fcntl(F_SETFL)`, forcing `O_NONBLOCK` while `sysNb`.
  `GetFl` is `fcntl(F_GETFL)`. `IoctlCall` is `ioctl(FIONBIO)`.
  `SetSockOptCall` is `setsockopt(SO_RCVTIMEO)`.
* `DoIo(fd)` is the part of `do_io` before the first native attempt. For
  a managed socket whose user flag is off, the call is made expecting
  EAGAIN. If the kernel flag is off, the call blocks the worker.

Each call is one step. No other thread can name a descriptor before the
call that created it has returned, so the gap between the read lock and
the write lock in `get` cannot be hit through these calls.

Bounds: descriptor numbers {3, 4}. Two numbers are enough for the lowest
free number to be reused after a close while another descriptor stays
open.

Run:

* `fd_ioctl_blocking` (violation, `HookedIoNeverBlocks`). A hooked
  `socket()` is followed by `ioctl(fd, FIONBIO, 0)` and a hooked read.
  The hook records the user flag, then passes 0 to `ioctl_f`
  (hook.cpp:537), which turns the kernel flag off. `fcntl` would have
  forced it back on. `do_io` then makes the native call on a blocking
  socket, and the worker thread blocks.

  The same property also fails a second way, if `ioctl` is taken out.
  An unhooked `close` leaves the entry in the table. A hooked `socket()`
  then reuses the number and gets the stale entry, so `init` does not
  run and the socket stays blocking.

## 7. Byte buffer (`ByteArray.tla`, `FlatBuffer.tla`, `MCByteArray.tla`)

A `ByteArray` belongs to one caller at a time; each method is one step.

State:

* `mem[i][o]`: byte `o` of the `i`-th node of the list. A fresh node
  holds `Junk`, what `new char[]` leaves uninitialized.
* `nodes`, `capacity`, `pos`, `size`: the length of the list,
  `m_capacity`, `m_position` and `m_size`.
* `cur`: `m_cur`, a node index or `Null`.
* `out`: the bytes the last read, `toString` or `getReadBuffers` handed
  to the caller.
* `crashed`: `NoCrash`, or the operation and length that dereferenced a
  null `Node*`. Nothing runs after that.

The copy loop shared by `write`, `read`, the positional const `read`
and the iovec getters is the recursive operator `Segs`. It starts in
`m_cur` at `m_position % m_baseSize` and moves to `next` while the node
cannot hold the rest. A null `next` whose `size` the loop reads is a
crash. `EndCur` is the `m_cur = m_cur->next` taken when a copy ends its
node exactly. `AddCapacity` appends `ceil((k - left) / base)` nodes and
moves `m_cur` onto the first new node only when nothing was left.
`Write`, `Read`, `ByteString` (`toString`), `GetReadBuffers`,
`GetWriteBuffers`, `SetPosition` (with its walk `Seek`) and `Clear` are
the methods. The typed readers and writers end in `write`/`read`, so
writes and reads of every short buffer stand for them.

`FlatBuffer` is what the class promises without nodes: an array of
bytes with a position and a size, where bytes at or past the size are
`Junk`. `setPosition` may expose whatever memory held.

The varint (`writeUint32/64`, `readUint32/64`) and zigzag codecs are
pure operators. Their bit operations are written as the arithmetic they
perform on these operands: `& 0x7F` is `% 128`, and so on. They are
checked at a word width of 16, since TLC's integers are 32-bit. The
32- and 64-bit versions differ only in the width.

Bounds: nodes of 2 bytes, at most 2 of them, two byte values and `Junk`,
and reads and writes of up to 2 bytes (reads also of 0). A write can
start mid-node, end a node exactly, or span both nodes, and the
position can reach the end of the list.

Run `byte_buffer` (pass):

* `LayoutOK`: after any mix of calls, `m_capacity` is the list's bytes,
  the position and size lie within it, and `m_cur` is the node of the
  position (the next one when the position ends a node, null past the
  tail).
* `TypeOK` types `m_cur` as null or a live node, never one `clear`
  deleted.
* `OnlyEmptyReadCrashes`: the only null dereference any sequence of
  calls reaches is `read(buf, 0)` with the position at the end of the
  list. `read` evaluates `m_cur->size` before its loop (line 407), and
  `m_cur` is null there. `readStringF16`/`F32`/`F64`/`Vint` of an empty
  string written as the last bytes of a node reach it. The run reaches
  this crash and checks that `write`, `getWriteBuffers`, `toString` and
  `getReadBuffers` never crash.
* `ImplementsFlatBuffer`: every step maps to a `FlatBuffer` step or a
  stutter. The bytes below `m_size` are mapped to node `p / base`,
  offset `p % base`. So the positional const `read` is right for
  `toString`'s only use: it starts from `m_cur` whatever position it is
  given (line 437), but `toString` passes `m_position`.
* `CodecRoundTrip`: on the 16-bit boundary values, and on the buffer's
  own lengths as `writeStringVint` would prefix them, these round-trip:
  * `writeUint` then `readUint`;
  * `writeInt` (zigzag, then varint) then `readInt`.

  Each takes exactly the bytes it wrote, one per 7-bit group, and the
  shift-and-xor zigzag equals the textbook map of the disabled `#if 0`
  branch.

## 8. Not modelled

Logging, configuration, addresses, HTTP and the TCP server contain no
scheduling logic.

Two defects of `bytearray.cpp` lie outside the modelled methods:

* `writeToFile` writes `min(read_size, base) - diff` bytes from the
  first node (line 497). When the readable bytes end inside that node
  past `diff`, this is zero or negative, `read_size` never reaches 0,
  and the loop walks to a null node. `writeToFile` and `readFromFile`
  are file I/O.
* `getReadBuffers(..., position)` clamps with `getReadSize()`, which is
  `m_size - m_position`, not `m_size - position` (line 601). Nothing in
  the repository calls it.

`toHexString` and the endianness swaps are formatting and are left out.

Still to be modelled:

* The `sleep` family, whose conversions
  overflow for very long durations.
* The unchecked `contextResize` in `addEvent` (iomanager.cpp:143). It can
  shrink the table and orphan a live `FdContext`, after which neither a
  timeout nor `close` wakes that fd's waiter. This needs the table's size
  as a model of its own, and the project's run budget is spent on the
  wait itself.
* `connect_with_timeout`'s own wait. It arms the timer before the event,
  as `do_io` does (so `io_wait_hang` applies to it). When `addEvent`
  fails, it reports success from `SO_ERROR` while the connect is still
  in progress (hook.cpp:276-289).

`PROJECT.json` lists these as hazards without a property. The ucontext switching itself is abstracted
to the state change of `swapIn`/`swapOut`. The thread and mutex wrappers
are assumed correct.
