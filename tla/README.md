# Dolphin-Note: specifications of the kernel and of the firmware

Dolphin-Note is the firmware of a board with an STM32F103, a touch screen, a
CC3200 Wi-Fi module and a few keys and LEDs: pen strokes are taken from the
screen and sent to a phone. It runs on RT-Thread, whose kernel is part of the
repository (`RT-Thread-STM32/Kernel/src`) and is where most of its hard
behaviour is. The firmware's own code is in `drivers/src` and `applications`.

This directory holds TLA+ specifications of the kernel (threads, IPC objects,
memory pool, timers, heap), of the buffers of its driver framework, and of the
firmware's Wi-Fi link, serial port and LED sequences; TLC configurations that
check them on small instances; and TLAPS proofs about most of them. Paths below
are relative to `src/RT-Thread-STM32/`. `PROJECT.json` maps each definition to
the lines it models.

    tlc -workers 2 -config Threads.cfg MCThreads   # a run
    tlapm SemaphoreProofs.tla                      # the proofs of a module

## 1. Inventory

### The processor and what is atomic

There is one processor. Threads are scheduled by strict priority and by time
slices among equals; an interrupt handler runs to its end between two
instructions of a thread unless the thread has disabled interrupts
(`rt_hw_interrupt_disable`). So what may interleave is decided by the regions
in which interrupts are disabled. **An action of the kernel modules is one such
region** (or several, where nothing between them can be told apart), or one
whole interrupt handler, and a program counter `pc[t]` remembers between which
regions a thread is. `rt_schedule()` called by a thread after its region is a
step of its own, because an interrupt may come before it. The firmware's parts
share flags without any section: there an action is the code between two
accesses that another thread or a handler can tell apart.

### Kernel (`Kernel/src`)

| part | state | operations | interacts with | what makes it correct |
|---|---|---|---|---|
| threads and scheduler (`thread.c`, `scheduler.c`, `irq.c`) | state and priority of each thread, ready lists and their bit group, the current thread, lock nesting, the thread timers | create, startup, suspend, resume, sleep, yield, exit, delete, priority; enter/exit critical; time-out; time slice | every IPC object; tick interrupt | lists and states agree; the most urgent ready thread runs; a closed thread is gone from every list; sleepers return; equals take turns |
| idle thread (`idle.c`) | list of defunct threads | free what was deleted or has exited | delete, exit | nothing is freed twice or while it is referred to |
| semaphore (`ipc.c` 199-512) | value, wait list | take, trytake, release, reset, detach | threads, handlers, time-outs | units conserved, no lost wake-up |
| mutex (`ipc.c` 514-876) | owner, depth, original priority, wait list | take, release | scheduler (priorities) | mutual exclusion; inheritance and its end; bounded inversion |
| event (`ipc.c` 878-1238) | bits, wait list, each waiter's request | send, recv (AND, OR, CLEAR), reset | threads, handlers | no satisfied waiter; answers match requests; a bit is cleared for one |
| mailbox (`ipc.c` 1240-1717) | ring with two offsets, two wait lists | send, send_wait, recv, reset | threads, handlers | FIFO; nobody waits for what is there |
| message queue (`ipc.c` 1719-2280) | linked messages, free list, wait list | send, urgent, recv, reset | threads, handlers | messages in one place each; not overwritten during a copy; FIFO |
| memory pool (`mempool.c`) | free list through the blocks, count of free blocks, count of waiters | alloc, free | threads, handlers | blocks accounted for; no lost wake-up |
| timers and clock (`timer.c`, `clock.c`) | two sorted lists, flags, expiry ticks, the timer thread | start, stop, detach, control; check | tick interrupt, callbacks, threads | sorted across the wrap; everything due expires; only started timers do; the timer thread wakes in time |
| heap (`mem.c`) | block headers in address order, start of the search, bytes in use | malloc, realloc, free | `heap_sem` | blocks tile the heap, free ones are merged, the count is exact |
| objects, services, devices (`object.c`, `kservice.c`, `device.c`) | lists by type | init, find, detach | everything | little state, no waiting (not modelled) |

### Driver framework (`components/drivers/src`)

| part | state | operations | interacts with | what makes it correct |
|---|---|---|---|---|
| data queue | ring with two indices, low water mark and its flag, two wait lists | push, pop, reset | threads, handlers | FIFO; a pusher is woken at the mark |
| ring buffer, pipe | indices with mirror bits; two wait lists | put, get; read, write, blocking or not | threads, handlers | a FIFO of bytes; nobody waits for what is there |
| completion | flag, wait list | wait, done | threads, handlers | no completion lost; an answer belongs to a signal |
| work queue, portal, serial | | | | not modelled |

### Firmware (`applications`, `drivers/src`)

| part | state | operations | interacts with | what makes it correct |
|---|---|---|---|---|
| Wi-Fi link (`application.c`, `cc3200.c`, `wifi.c`) | `Main_Fuction_state`, flags of the link, the paired phone, keys, missed heart beats | the turns of the cc3200 thread, frames (in the interrupt of USART2), the led thread's count | UART2, keys, led thread | while the link is up it listens; a phone that asks is connected; silence is noticed; reconnection works and is for the same phone |
| AT commands (`cc3200.c`, `usart2.c`) | the batch of an answer, its end mark, timer 7 | send a command, look for the answer; the two interrupts | Wi-Fi module | an answer that is found answers this command; a batch that has begun ends |
| transmit ring (`usart2.c`) | ring with two byte indices, TXEIE | `Uart2_Put_Buf`, the TXE interrupt | link, led and screen threads | every byte is sent; the interrupt ends |
| LED sequences (`ledseq.c`) | step of each sequence, active sequence, timer, semaphore | `ledseq_run`, `ledseq_stop`, `runLedseq` | timer thread, several threads | the most urgent sequence is active and goes on; steps are read at an index it has |
| keys (`key.c`, `application.c`) | pressed, locked | Key thread | link | a press counts once |
| beep (`beep.c`) | two soft timers | beep | timers | it ends |
| touch screen (`Screen.c`), record queue (`Screen.c`, `spi_flash.c`) | receive state; ring of records in flash | | | one handler that receives a frame; the queue has no caller at this commit |
| board, startup (`board.c`, `startup.c`) | registers | initialisation | | order (not modelled) |

### What is hard here

* an interrupt or a preemption between two regions of one call (a test made
  before interrupts are disabled, a list tested in one region and used in the
  next, a message copied between two regions, a `realloc` in three);
* a time-out that races what the thread waits for, and the wait for the rest of
  the time after a wake-up that came too late;
* callbacks that change the list being walked (timers, event receivers);
* priorities that are raised and must come back;
* counters, indices and ticks at the end of their width;
* flags shared by threads and interrupt handlers without any section, and
  answers of the module that come late, split or not at all (the firmware).

Each is listed with its line under `hazards` in `PROJECT.json`, together with
the property that is about it, or why there is none.

## 2. The modules

    KernelOps ──┬── Threads        ─── MCThreads, MCProgress
                ├── Semaphore      ─── MCIpc, MCSemaphore
                ├── Mutex ─── Mutexes ─── MCServices; MCProgress   (abstract: Lock)
                └── Calls ─┬─ Mailbox, MessageQueue, DataQueue, Pipe ─┐
                           ├─ Event, Completion                       ├─ Ipc ── MCIpc
                           └─ MemPool ────────────────────────────────┘─ MCMemPoolTimed
                                                             (abstract: BoundedFifo)
    RingBuffer ── Pipe
    Timers ─────┬─ MCServices, MCTimersBeep         (Lists: under KernelOps and Timers)
    Heap ───────┘
    WifiLink ───┬─ MCFirmware, LinkTx (WifiLink with UartTx)
    LedSeq ─────┼─ MCFirmware, MCLedSeq             (LedShapes: sequences of ledseq.c)
    AtPort ─────┤
    UartTx ─────┘

    KernelProofs ──┬── ThreadsProofs
                   ├── SemaphoreProofs
                   ├── MutexProofs (Mutex, Mutexes)
                   ├── CallsProofs (each object of Ipc) ── IpcProofs (Ipc)
                   ├── ServicesProofs (Heap, Timers)
                   └── FirmwareProofs (WifiLink, AtPort, UartTx)

**KernelOps** is the layer all IPC objects stand on. The memory the functions
of `thread.c` and `scheduler.c` share is one record `k` (states, priorities,
lists, ready group, current thread, lock nesting, `thread->error`, armed
timers), and each function that runs with interrupts disabled is an operator
from such a record to the next: `Schedule`, `InsertReady`, `RemoveReady`,
`Suspend`, `Resume`, `Timeout`, `Yield`, `ChangePriority`, `ListSuspend`,
`ListResume`, `ResumeFirstWithError`, `Block`. They compose as the calls do in
C. A thread's `tlist` node is an element of one of the sequences `lists[h]`,
with `h` the head it hangs on. When a thread's timer expires is left open: an
armed timer may expire at any tick. This is a superset of what the clock
allows.

**Threads** cuts the calls of `thread.c` where they enable interrupts:
`rt_thread_resume` and `rt_thread_suspend` test `stat` before the region,
`rt_thread_delete` has four regions. The kernel leaves it to its callers who may
call what on whom; the constant `May` says it, and `Disciplined` what callers
have to keep to (see section 4).

**Calls** is what the calls of seven objects have in common: where each thread is
in its call, the wake-up that ends a transfer with its `rt_schedule()`, the tick
interrupt, linked lists. An object has one wait list (`Receivers`) or two. **Ipc**
puts the seven modules together: its variable `object` says which one the threads
of a behaviour use, the variables of the others keep the value `None`. The
properties of the run `ipc` and the theorems of `IpcProofs` are stated of it.
**Mutexes** does the same for two disciplines of the users of mutexes: one mutex
at a time, or two released in the reverse order.

**Semaphore, Mutex, Event, Mailbox, MessageQueue, MemPool, DataQueue, Pipe,
Completion** each hold `k`, the object's fields and `pc`. The actions are named
for the call and the place in it (`TakeWait` queues the caller, `TakeSchedule`
is its `rt_schedule()`, `TakeReturn` reads `thread->error`), and `IsrRelease`,
`IsrSend`... are the same calls from a handler. `TickTimeout` and `TickYield` (in
`Semaphore` `WaitTimeout` and `SliceEnd`) are the tick interrupt. `Semaphore` calls
`k` and `pc` `kern` and `place`, so that `MCIpc` can check it beside `Ipc`. Variables called history in the comments (`given`, `obtained`,
`last`, `strayed`, `overrun`, `mine`, ...) are no program state; they remember what
properties speak of. In `MessageQueue` a message is copied in a step of its own,
as `rt_memcpy` runs with interrupts enabled. A wait that is repeated with what
is left of its time is a choice between "some" and "nothing". `DataQueue` ends
where the code has no defined behaviour (`fault`), `MemPool` and `Semaphore`
where a list head is taken for a thread (`stray`, `strayed`). The indices of
`DataQueue` wrap at `IndexRange` and are masked with `size - 1` (`DqSlot`), as in
the code; the tests for a full queue (`dataqueue.c` 82) and for the low water mark
(225) subtract them without the wrap, as C does with its 16-bit fields. The history
`overrun` says that a push has stored over an item (see the conditions below).

**RingBuffer** holds the operators of `ringbuffer.c` on a record of indices,
mirror bits and bytes; `Pipe` uses put and get inside its calls. The calls of one
byte (`PutChar`, `PutCharForce`, `GetChar`), which no other module uses, are compared
with the sequence of bytes the ring stands for, by an assumption of `MCIpc` for every
state of the ring of that run.

**Lists** is `rt_list_t` as a sequence: taking a node out and linking one in.

**Timers** has its own state: two sorted lists, expiry ticks modulo `TickMod`
(2^32 in the code), the flags, and the timer thread with the local variables of
`rt_soft_timer_check` (the saved `n`). The timer thread reads the tick (`ReadTick`,
`timer.c` 650) and goes to sleep (`DelaySelf`, 656) in two steps, between which the
tick may come; the history `tt.late` counts those ticks. Calls of threads are cut where
`rt_timer_start` and `rt_timer_stop` enable interrupts; the timer thread is more
urgent than the application, so an application thread runs while it waits.

**Heap** keeps the headers of the blocks as a function on their addresses, so
that `next` and `prev` are what the code stores and can disagree. A step is a
region under `heap_sem`; `rt_realloc` has three.

**WifiLink** has one value of `pc` for each place in the cc3200 thread where an
interrupt makes a difference. The frames of `wifi_data_deal` come at any such
place while frames are read (`socket_start`). The led thread (priority 20) runs
only while the cc3200 thread (19) sleeps, but may itself be preempted between
its test of the count and the assignment that ends the link. **AtPort** is the
same port while AT commands are exchanged: the batch in `USART2_RX_BUF`, closed
by timer 7, and the thread that looks at it between sleeps (`socket_start` is
`framing` there and `exchanging` in `UartTx`, as the three modules are checked
side by side). **UartTx** is its
transmit ring, with the interrupt anywhere in `Uart2_Put_Buf`; as the code tests no
room, neither does the model, and the history `overrun` says that a byte was stored
where the interrupt reads next while bytes waited. **LinkTx** puts
`WifiLink` and `UartTx` together: which turn of the thread sends a frame, and
what the ring does when the socket is closed under it. **LedSeq** models one
LED: the threads, in the order of their priorities, and the timer thread are in
`ledseq_run`, `ledseq_stop` or `runLedseq` at a place `at[t]`, and the binary
semaphore `ledseqSem` has an owner and waiters.

The abstract specifications: **Lock** (a release hands the lock to a waiter at
once; depth counts), refined by `Mutex`, and **BoundedFifo** (append up to
`burst` items, or push in front for `rt_mq_urgent`, and take from the front, at
most `capacity` items; `offers` says which kind of queue may be emptied, has
urgent items or may be overrun), refined by `Mailbox`, `MessageQueue`, `DataQueue`
and `Pipe`. The refinement mappings are in `Mutex` and `Ipc`.

`MCServices` and `MCFirmware` check several modules in one run and have a variable
`object` too, that says which one a behaviour is about. The others keep their
initial state.

## 3. The runs

Every passing run fires all actions of its next-state relation.

| run | instance | what it shows |
|---|---|---|
| `threads` | a manager, a thread it manages, one it re-prioritises, one with static memory; lock nesting 2 | ListsExact, TimeoutAssertHolds (the assertion in `rt_thread_timeout`), UrgentRuns, FreedIsGone, ClosedIsOff, ClosedStaysClosed |
| `progress` | two sleepers of one priority; three threads with a mutex between the outer two | SleepReturns, EqualsTakeTurns, InversionBounded |
| `ipc` | seven kinds of object, 2 or 3 threads and handlers each: mailbox of 2, message queue of 2, data queue of 2 with mark 1, pipe of 2 bytes, event of 2 bits with every request, pool of 2 blocks with and without time-outs, completion; and a semaphore: 3 threads at 2 priorities, PRIO list, a value of 0 to 2 that wraps | NobodyStranded, MemoryAccounted, CopiedIntact, AnswersRequest, ClearedOnce, ImplementsFifo; TypeOK, KernelConsistent, UnitsConserved (a release racing a time-out or a reset loses and doubles nothing), NoLostWakeup |
| `services` | mutex: 3 priorities, depth 2, one with recursion, and two nested; timers: 2 beside the timer thread's own, hard across the wrap of a tick modulo 20, soft with callbacks that start and stop; heap: 7 units, two callers | MutualExclusion, PlainInherits, PriorityRestored, ImplementsLock; SortedLists, SoftWatched, CheckLeavesNothingDue, OnlyStartedExpire; HeapTiled, UsedExact |
| `firmware` | link: 1 phone with 2 addresses, 2 keys; LEDs: 3 sequences, 2 threads and the timer thread; AT commands: a buffer of 4 characters, an answer of 2; transmit ring: frames of 1 and 3 bytes in a ring of 8 | ConnectedListens, PairedIsConnected (a phone that asks while the board waits is connected), SilenceNoticed, ReconnectAnswered; MostUrgentActive, RunningGoesOn; AckIsFresh (the answer found was received since the command), BatchIsTimed; PendingIsSent |

Seven runs are violated, by behaviours of the code that contradict what it says
of itself:

| run | what happens |
|---|---|
| `mempool_timed` | a wait of `rt_mp_alloc` that times out leaves `suspend_thread_count` one too high (`mempool.c` 374); the next `rt_mp_free` takes the head of an empty list for "the suspended thread" (438-446) |
| `heap_lowest` | `lfree`, "pointer to the lowest free block" (`mem.c` 127), stays where it is when `rt_realloc` frees the rest of a block below it (431-450): `rt_malloc` begins its search above that block |
| `uart_storm` | `cc3200_set_udpIP` clears `socket_start` (`cc3200.c` 316) without waiting for the transmit ring: if the turn before answered a search, TXEIE is on, the handler serves it only with a socket (`usart2.c` 226-268), and the interrupt returns for ever |
| `timers_beep` | `rt_soft_timer_check` keeps a pointer to the next timer across a callback (`timer.c` 590); if the callback stops that timer, as the one of `beep.c` does, it is called although it is stopped, over and over. `beep()` has no caller in the application at this commit |
| `ledseq_race` | `runLedseq` reads the active sequence and its step before it takes the semaphore (`ledseq.c` 233-240): while a thread is in `ledseq_stop`, between the state it sets to -1 (192) and `updateActive` (193), the timer thread takes the step at index -1 of that sequence, a disorder which the head of the file says the semaphore prevents |
| `semaphore_detach` | `rt_sem_detach` calls `rt_ipc_list_resume_all` with interrupts enabled: if the last waiter times out between the test of the list (`ipc.c` 175) and the region that takes "next suspend thread" (178-181), the list head is resumed as a thread |
| `link_phones` | a search frame of a second phone replaces the phone ID "stored at the first connection" (`wifi.c` 228, 307), after which the first phone cannot reconnect |

### Conditions under which properties are stated

Some properties are true only under a condition; each says so where it is stated.

* `OwnerInherits` is stated where no thread owns two mutexes (`PlainInherits`
  is that part of `services`): releasing the
  inner one gives the owner its original priority back while a thread still
  waits for the outer one. `PriorityRestored` holds for nesting in reverse
  order; with the constant `Nesting = "any"` (release in another order) it does
  not, since each mutex saves the priority it saw.
* The properties of Threads are stated for callers that are `Disciplined`.
* `InversionBounded` needs waits without a time-out; a release without waiters
  lowers the owner's priority without scheduling.
* `NobodyStranded` of the memory pool needs waits without a time-out (see
  `mempool_timed`): its definition asks for them with `MpUntimed`, and `ipc` has a
  pool with time-outs too (`MpUses`), for `MemoryAccounted`. That pool
  stops where the code follows an empty list, as the data queue does where
  `rt_data_queue_pop` returns with interrupts disabled, hence
  `CHECK_DEADLOCK FALSE` in that run.
* `NobodyStranded` of the data queue has one pusher, and of the pipe one reader
  and one writer (`OnePusher` and `PipeSingle` in the theorems): `waiting_lwm` is
  one flag, and a pipe call wakes one thread whatever it leaves. With two pushers,
  with two readers or with two writers TLC finds one that stays behind.
* `NobodyStranded`, as far as the pusher of the data queue goes, and `ImplementsFifo`
  hold of the data queue until an item is overrun. While `put_index` has wrapped and
  `get_index` has not, their difference is negative and the queue is never found
  full, so that a push may store over an item that was not popped: this is
  reached in the run `ipc`, after which `BoundedFifo` promises nothing. The size must
  be one its mask fits (`SizeFits`, a power of two), which `rt_data_queue_init` does
  not test. The one queue of the firmware has 8 items (`serial.c` 309).
* `SoftWatched` allows for `tt.late`: the timer thread, which reads the tick with
  interrupts enabled and sleeps later, wakes as many ticks late as come in between.
* `OnlyStartedExpire` in `services` has callbacks that start other timers and
  stop their own; the callback that stops another one is `timers_beep`.
* The LED properties of `firmware` are stated for calls that do not overlap
  (`Alone = TRUE`); the overlap is `ledseq_race`.
* The link properties of `firmware` assume that frames are sent whenever they
  are stored; with the ring, `uart_storm` shows when that fails. Under the link
  the code behaves in two more ways a reader may not expect, and the model has
  them: the answer to the `AT+RST` of `cc3200_set_udpPort` is not seen when
  `socket_start` is set, and a connection request with a wrong bar code, which
  `wifi.c` 239 says is not answered, ends a link that is up.
* `PendingIsSent` holds until a byte is stored where the interrupt reads next while
  bytes wait, and again once the interrupt has caught up: `Uart2_Put_Buf` has no
  test of room. That happens in a full ring, and in a ring that is less full when
  the interrupt sends the last byte of a frame before the call tests TXEIE
  (`usart2.c` 206): it is then enabled on an empty ring and sends a whole lap of
  old bytes, and a frame that is stored meanwhile may end where it reads next.
* `PairedIsConnected` is about a request that was stored. One that falls between the
  two assignments that end a meeting (`application.c` 182-183) is lost; the phone
  has to ask again.
* `AckIsFresh` says nothing of answers that are missed. Timer 7, still running
  for the characters before a command, marks a batch that is empty, and what the
  module answers is dropped until the retry (100 ms, where the comment at
  `usart2.c` 412 says 10 ms). `BatchIsTimed` says only that a batch that has begun will end.

### Bounds, and why they are enough

* Threads: the races are between a thread in a call, one that interferes and
  one that a wrong wake-up could go to, so three besides the idle thread, or two
  where the object has one reader or two threads do both (the third is then
  created and not started); the wait lists then have an order worth checking, by
  time and by priority.
* `ValueRange = 3` (2^16 in the code) and `TickMod` of 20 and 32 (2^32): the wrap
  comes after a few steps and distances up to half the range still occur.
  `LastTick` and `MaxLag` end the model of the clock; `MaxLag` is how many ticks
  a round of the timer thread may last.
* Mailbox, queue, data queue and pipe of 2: empty, partly filled and full, and an
  index that wraps, are all different. Two payloads tell an order from its
  reverse. `IndexRange = 4` (2^16) lets the data queue's indices wrap after two
  laps of the ring; `MaxRequest = 2` lets one pipe call fill it.
* `MaxNest`, `MaxHold` = 2: nested and not nested. `MaxStale = 1`: one wait too
  many in the pool's count is what its error needs.
* Two bits and every request over them: AND, OR and CLEAR differ already.
* A heap of 7 units with headers of 1 and requests of 0, 1, 2 and 4 has up to
  four blocks: a freed block with neighbours on both sides to merge, a rest too
  small to split, and a request that fails, all occur.
* A buffer of 4 characters for answers of 2: an answer whole, split between two
  batches, behind other characters, and a batch that overflows.
* A ring of 8 for frames of 1 and 3 bytes: frames of both sizes wait behind each
  other and wrap.
* The missed heart beats are counted up to 4 as in the code.

### Fairness

Safety needs none. `progress`, `firmware` and `uart_storm` state liveness under
what the hardware and the scheduler give:

* the thread that has the processor again and again executes its next step
  (`SF` on its steps): a time slice lasts many instructions;
* the tick interrupt keeps coming: an armed timer expires, a time slice ends;
* in the inversion the owner releases the mutex if it gets to execute with it
  again and again; nothing is assumed of the thread of the middle priority or
  of the clock, the worst case for the waiter;
* in the link the cc3200 thread goes on (its sleeps end, the Wi-Fi module it
  waits for comes up in the end) and the led thread, which is due every second,
  gets the processor in a sleep. No fairness is assumed of frames or keys;
* in `uart_storm` the cc3200 thread goes on whenever it can, and USART2
  transmits: the counterexample is not a system that merely stops.

## 4. What is proved

The theorems hold for every value of the constants that the named assumption of
the module allows (`SemaphoreAssumption`, `ThreadsAssumption`, `MutexAssumption`,
`IpcAssumption`, `AtPortAssumption`, `UartTxAssumption`,
`WifiLinkAssumption`, `HeapAssumption`, `TimersAssumption`: types, ready lists that
are complete at start, sizes that are not zero), and each run of the module
evaluates that assumption. Where a theorem has a hypothesis beyond it, the table
says so.

| module | theorem | statement |
|---|---|---|
| `ThreadsProofs` | `ListsAgree` | `Spec => []ListsExact` if `Disciplined`, as all of this module |
| | `MostUrgentRuns` | `Spec => []UrgentRuns` |
| | `TimersOnlyOfSuspended` | `Spec => []TimeoutAssertHolds` |
| | `NothingFreedInUse` | `Spec => []FreedIsGone` |
| | `ClosedNeverScheduled`, `OnlyCreateReopens` | `Spec => []ClosedIsOff`; the action property `ClosedStaysClosed` |
| | `TypesHold` | `Spec => []TypeOK` |
| `SemaphoreProofs` | `Consistent`, `Typed` | `Spec => []KernelConsistent`, `[]TypeOK` |
| | `WakeupKept` | `Spec => []NoLostWakeup` |
| | `OnlyTakersSuspended` | `Spec => []SuspendedOnlyInTake` |
| | `UnitsKept` | `Spec => []UnitsConserved` for a finite set of threads |
| `MutexProofs` | `OneOwner` | `Spec => []MutualExclusion` (with `MaxHold < HoldRange`: the depth does not wrap by assumption) |
| | `MutexIsLock` | `Spec => ImplementsLock`: every step is a step of Lock or a stutter |
| | `Restored` | `Spec => []PriorityRestored` if `Nesting # "any"` |
| | `UrgentAsWaiters`, `PlainMutexInherits` | `Spec => []OwnerInherits`, and `MutexesSpec => []PlainInherits`, if `Nesting = "none"` and `Flag = "PRIO"` |
| `IpcProofs` | `NobodyIsStranded` | `IpcSpec => []NobodyStranded` for a finite set of threads, if `OnePusher`, `SizeFits` and `PipeSingle` |
| | `DeliversInOrder` | `IpcSpec => ImplementsFifo` for a finite set of threads, if `OnePusher` and `SizeFits`: every step is a put, a get or a stutter, of the data queue until an item is overrun |
| | `MemoryIsAccounted`, `CopiesAreIntact` | `IpcSpec => []MemoryAccounted`, `[]CopiedIntact` for a finite set of threads |
| | `RequestsAreAnswered`, `BitsAreClearedOnce` | `IpcSpec => []AnswersRequest`; the action property `ClearedOnce` |
| | `ListsOfKernelAgree` | `IpcSpec => []KernelOK(k)` for a finite set of threads, if `OnePusher` and `SizeFits` |
| `ServicesProofs` | `HeapTiles` | `HeapSpec => []HeapTiled` |
| | `UsedCounted` | `HeapSpec => []UsedExact` |
| | `TimersSorted` | `TimersSpec => []SortedLists` if `OneStarter` and `InReach`, as the next three |
| | `CheckIsComplete` | `TimersSpec => CheckLeavesNothingDue`, an action property |
| | `ThreadInTime` | `TimersSpec => []SoftWatched` if also `SoftInThreads` |
| | `StartedExpire` | `TimersSpec => OnlyStartedExpire`, an action property, if also `StopsOnlyOwn` |
| `FirmwareProofs` | `UpListens` | `Spec => []ConnectedListens` |
| | `AnswersAreFresh`, `BatchesAreTimed` | `PortSpec => []AckIsFresh`, `[]BatchIsTimed` |
| | `NoByteLeft` | `UartSpec => []PendingIsSent` |

**The kernel.** `KernelProofs` shows once what each operator of `KernelOps`
keeps (`SuspendProperties`, `ResumeProperties`, `ScheduleProperties`,
`TimeoutProperties`, `YieldProperties`, `BlockProperties`, ...): a consistent
kernel stays consistent and exactly the named thread moves between lists. It
rests on lemmas about removing from and inserting in a sequence without
repetition, and on the fact that a set of naturals that is not empty has a least
element (the highest priority in the ready group). The same fact stands in for
induction, as the theorems of the library that take an operator as a parameter
cannot be used: `Induct` speaks of a set of naturals, and `Iterated` gives for a
function `step` the function that a loop computes. What a loop of the code does is
then shown with the set of the loop counters up to which its invariant holds.

**The threads.** A kernel in the middle of `rt_thread_delete` is not consistent
in the sense of `KernelOK`: the target is off its ready list and still READY. The
invariant therefore says `Lists`: the ready lists hold exactly the READY threads
that nobody is closing, and `ThreadsProofs` carries the lemmas of `KernelProofs`
over by applying them to a kernel with the same lists in which just those threads
are READY (`Shadow`). Three more parts make it inductive. `InCall` says for each
place in a call what its test has found out and that this still holds when the
call goes on (a target that was SUSPEND is still SUSPEND and its timer is
stopped, a target being deleted is not freed, ...): this is where a preemption
between the test and the region could do harm. `Fate` ties a closed thread to its
exit or to the one that deletes it, and a freed one to being closed. `Executes`
says that the current thread is alive and, outside its way to `rt_schedule()`, as
urgent as any. `Fate` and `InCall` are not true of arbitrary callers, because
`rt_thread_resume` and `rt_thread_suspend` (`thread.c` 563, 604) test
`stat` with interrupts enabled. What the proof needs of them is `Disciplined`:
at most one other thread manages a thread, nobody deletes a manager, the idle
thread goes on, nobody resumes itself, a thread that is resumed or deleted by
its manager does not sleep with a timer, and one that is suspended by it does
not exit. Two managers that resume the same thread, for instance, both pass the
test, and the second one inserts a thread that is ready already. The
application keeps to it: it creates and starts its threads at start-up and
suspends and deletes none. The timer thread is outside of it, since whoever
starts a soft timer resumes it while it may sleep (`timer.c` 395-406); it is part
of Timers. The run `threads` evaluates `Disciplined` for callers that do more
than the application.

**The semaphore.** The inductive invariant is `IInv == TypeOK /\
Sound(kern, place) /\ NoUnitHeldBack(kern, value)`. `KernelConsistent` alone is not inductive: that the
current thread may be put on the wait list needs that it is READY, and this
depends on where it is in its call. So `Sound` adds that the suspended threads
are exactly the queued ones, that they are all inside `rt_sem_take`, that the
current thread is suspended only on its way to `rt_schedule()`, and that the
idle thread is always ready, without which `Schedule` might have nobody to
switch to. The step lemma `NextInv` has one step per action. The account of
units needs a second invariant, `Account`: the sum is kept as an equation over the integers
with the number of laps it has wrapped, because equal remainders alone are not
carried from one step to the next; and a thread that still waits has not been
told an error, since a release hands its unit over by saying nothing.

**The mutex.** Three invariants, each on top of the one before. `IInv` is for any
callers: beside `Sound` (as for the semaphore, with sleepers) it has `Owned` (a
free mutex has no depth and no waiters) and `Ledger`: `hold` counts the takes the
owner has made and the one being handed over to it, and nobody else has any. The
hand-over is why `MutualExclusion` alone is not inductive: `rt_mutex_release`
makes a thread the owner before that thread has returned from its take, and
whether the time-out or the release came first is told only by `thread->error`.
`MutexIsLock` follows from `IInv` one action at a time. `PInv` adds what
`rt_mutex_release` relies on when it lowers a priority: the mutex taken first
remembers the priority the thread was created with. That needs the reverse order
of releases; `Nesting = "any"` is refuted by TLC. `HInv` adds that a thread has
one mutex at a time, that wait lists are sorted and that the owner is as urgent
as its waiters; with `Flag = "FIFO"` the new owner inherits nothing of those that
still wait, and with two mutexes the release of one takes back what was inherited
through the other, so both hypotheses are needed.

**The calls.** `CallsProofs` has for each of the seven objects an invariant, the
lemma that a step keeps it (`MbStep`, `EventStep`, ...), and what follows from it
(`...Holds`). The parts they share come first. `Sound(k, pc)` says, as for the
semaphore, that a suspended thread is in a wait of its call and in exactly one
wait list, and that the idle thread is ready. `Calm(k)` says that who is queued has
not been told an error: that is how a thread, when it goes on, tells a wake-up from
a time-out. What a step does to the kernel is said with `Wakes(u, w, X)`: the
threads of `X` leave the wait lists and become ready, nothing else changes in the
lists. `rt_ipc_list_resume_all` of the resets is such a step for all the queued
threads, by `Iterated`.

What is not inductive is that nobody waits for what is there. A thread that was
woken takes its mail only when it runs again, and meanwhile another thread, or an
interrupt handler, may take it, send more or time out. `Matched(n, k, pc, places,
q)` counts: while somebody waits in `q`, at most as many things are there as
threads have been woken for them and have not yet looked. A send that finds
waiters adds one to both sides; a receiver that goes on takes one off both, or
queues itself when there are none; a time-out takes a thread off the list that
is not counted. The mailbox has it once for the mails and once for the free slots, the
message queue for its messages, the pool for its blocks, the data queue for its
items. A pusher of the data queue is not counted but marked: the low water
mark's flag is set as long as one waits. With a second pusher the flag is cleared
for the first one only, hence `OnePusher`. The pipe does not count either, and
with one thread on each side it does not have to: while one waits the buffer is
empty, or full, because the other has just put or taken at least one byte and woken
it (`PipeUnstranded`).

**The contents.** For the mailbox and the data queue the contents are the part of
a circle that begins at the out offset; appending, taking from the front and
dropping all are shown once for any circle. The circle of the data queue closes
at `IndexRange`, not at its size; with `SizeFits` the mask of an index is its
remainder by the size, so the slots go on across the wrap. This holds until an item is
overrun, from where on only the kernel's lists and the counts are spoken of. Of the ring buffer it is shown that `rt_ringbuffer_put` and
`rt_ringbuffer_get` append to and take from the sequence of bytes it stands
for, for every size and every number of bytes, using only that the mirror bits
differ exactly when the write index is a lap ahead (`Consistent`). Each step then is a
`FifoMove`, of the pipe a `PipeMove`, and either is a step of `BoundedFifo`
(`DeliversInOrder`).

**Linked lists.** The messages of a queue and the free blocks of a pool are linked
through the memory they are made of. `Path(S, next, p, s)` says that from the
pointer `p` one goes through the nodes `s`, each once, to `RT_NULL`; taking the
first node off, putting one in front or behind the last is a lemma about `Path`,
with the nodes that others hold left alone. The invariant of the queue (`MqHeap`)
says that there are a waiting list and a free list, that `entry` and the tail are
those of the first, and that every node is in exactly one of the two or in the
hands of one call (`Parted`). `CopiedIntact` follows from it with what a call knows
of its own node (`MqMarks`): a node in a receiver's hands is in nobody else's, so
nobody writes into it while interrupts are enabled for the copy. The pool is the
same with one list, and with the header of a block that is in use naming the pool.

**The event.** `rt_event_send` goes through the wait list and wakes those whose
request is met, clearing their bits as it goes on. Its loop is taken one waiter at
a time: before each turn, each thread that was woken has an answer, the bits that
were cleared went to one of them, no thread passed over is satisfied, and those
further on in the list are untouched. So at the end nobody waits for what is there (`EventUnheard`), and two
receivers that clear a bit do not both have it from one send.

**The completion.** There is one waiter, and its wait after a time-out ends in a
region of its own, in which a signal that came late is cleared with the flag. The
invariant carries `signalled` through each place of the wait.

**The heap.** A block is split and two blocks are joined in one place each; what
they do to the chain of headers is a lemma for any headers. The invariant `HeapInv
== Sound(mem, lfree, live) /\ Growth` adds that the used blocks are those the callers
hold, with room for what they asked for, and that a block being reallocated is
held by the one that does it (`Growth`), without which the third region of
`rt_realloc` could free a block that is somebody else's. That `used_mem` is exact
is shown of the units the held blocks cover, a set of naturals whose size adds up
because blocks do not overlap: no induction over the blocks is needed.

**The timers.** Ticks are compared modulo `TickMod`, which is no order. What is
one is how far a timer is ahead of or behind the present tick (`Dist`), as long
as all timers in a list lie in a window of half a turn around it. `InReach` says
when they do, in two cases: the clock has not come to half its range (24 days at
1000 ticks a second), or there are hard timers only and no call lasts longer
than half a turn less the longest time-out. In the second case the tick may wrap
any number of times, because the check takes a hard timer off its list in the
tick in which it is due. Soft timers are in the first case only: one that
expires at `RT_TICK_MAX` is taken for no timer at all (`timer.c` 114, 639) and
stays. Each operation on the lists is shown for any memory to keep them sorted
in the window and to change nothing but the timer it is about (`Moves`), and the
step lemmas are put together from it.
`TimersInv` adds what a call in each place knows (`CallOK`: between its stamp and
its insertion the timer is in no list and its expiry fits the window) and what
the timer thread knows (`ThreadOK`). That a timer is in no list when it is
inserted is what `OneStarter` is for: a timer that a thread is starting, with
interrupts enabled between the regions of `rt_timer_start` (`timer.c` 306-323),
is not started by another context meanwhile; else it is stamped while it is
linked, or linked twice.

`WatchInv` says that while the timer thread waits, its own timer expires before
each soft timer unless the application is about to wake it, and, on its way from the
look at the list to its sleep, that nothing was added that it has not seen. Each
tick between the look at the clock (650) and the sleep (656) makes the sleep end
one later; `late` counts them, and the property allows for them.
For this, interrupt handlers must not start soft timers (`SoftInThreads`):
`rt_timer_start` wakes the timer thread only if it sleeps already
(`timer.c` 395-406), and TLC shows that a handler between the look
(638) and the suspension (642) is missed. `SavedInv` says that the
saved `n` of `rt_soft_timer_check` is still in the list, or is being started
again by the very call that took it off; a timeout function that stops another
soft timer breaks it (`StopsOnlyOwn`), as `beep.c` does (`timers_beep`). Both
instances of `services` meet the hypotheses of all four theorems, and `MCServices`
has TLC evaluate them.

**The link and the port.** For the link, `FirmwareProofs` needs where the thread
can be in each state of its machine (`Places`), that the link is up only where
the thread stays in a meeting or goes to one (`UpInMeeting`), and that the socket is
open on the way there (`SocketOnTheWay`). For the port it needs that what stands
before the end of the batch was written since the command was sent, and that the
terminator keeps the search from what older commands left behind it.

**The transmit ring.** The distance of the two indices is the number of bytes not
sent, across the wrap of either, as long as the interrupt is disabled; when it is
enabled there may be more between them, a whole lap of old bytes where a call
enabled it on an empty ring (`Between`). The code tests no room, so a frame may be
stored over bytes not sent. Those are lost (`overrun`) and count as owed no more, but
only while the interrupt is enabled, and it stays enabled until its index has
caught up. A call that finds the interrupt disabled finds the ring empty and
stores less than a lap (`Roomy`), so that the indices do not meet in the middle of it.

Out of the prover's reach, and left to TLC: liveness under fairness and
`ENABLED` (`SleepReturns`, `EqualsTakeTurns`, `InversionBounded`,
`PairedIsConnected`, `SilenceNoticed`, `ReconnectAnswered`). Those six, the two
properties of the LED sequences, which are stated for calls that do not overlap, and
that the seven violations happen, are only model-checked. Every other property of a passing run is a
theorem.

## 5. Not modelled, and why

The map covers a small part of the lines of the repository because most of the
lines are no program of this board: code pages, peripheral headers, the C and DSP
libraries, three copies of a network stack, file systems and a shell, which the
firmware does not configure.

* `rt_thread_detach`; detach and delete of the IPC objects other than the
  semaphore: the same loop over another list; hooks; stacks; the context switch
  itself (a step).
* `rt_data_queue_peek`; `rt_ringbuffer_put_force`, the block form that overwrites
  what was not read, and with it pipes opened with `RT_PIPE_FLAG_FORCE_WR`
  (`pipe.c` 142, 147); creation and detach of pipes, the work queue, portals and
  the serial device: no caller in the application, or straight-line code.
* The automaton that puts frames together from bytes, and the contents of frames:
  a frame is what `wifi_data_deal` makes of it. `wifi_data_to_send`, the one buffer
  that three contexts build frames in, is in the hazards without a property.
* AT commands as text, logging, the display of what is measured, debouncing.
* Interrupts of different priority: no priority group is set, so that handlers do
  not interrupt each other.
* The record queue in SPI flash: `ScreenRecSeqIn` and `ScreenRecSeqOut` have no
  caller (the calls are commented out).
* The object system, device table, unused drivers, vendored code.
* Start-up: straight-line code. The order in which threads are started is the
  constant `Boot`; LedSeq starts after `ledseq_init`.

## 6. Plan

What was planned and is done: the kernel's threads and IPC objects, the pool,
timers, the firmware's link and LEDs; then the driver framework's buffers, the
heap, the serial port and its composition with the link; the proofs above. What
is left, in the order of what matters most:

1. **Frames**: the buffer `wifi_data_to_send` with its three writers and the
   receive automaton, composed with `LinkTx`.
2. **Scheduler lock with IPC**: `rt_sem_take` under `rt_enter_critical`; detach and
   delete of mutex, event, mailbox and queue, where a receiver that was woken and
   finds nothing may wait again on an object that is going away.
3. **WorkQueue** and the serial device.
4. Timers: two starters of one timer, a soft timer at the wrap, the flag of a
   timer its own callback restarts.

The proofs of all safety properties are done; new parts should come with theirs,
the scheduler lock and the deletion of objects first, as their invariants are those of
`CallsProofs` with one more kind of step.
