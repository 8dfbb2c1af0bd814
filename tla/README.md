# The RIOT kernel of RIOT64 in TLA+

RIOT64 is RIOT, an operating system for small devices, with a port to 64-bit
RISC-V. This directory models its kernel, `core/`, and the part of the RISC-V
port the kernel's correctness rests on: when a context switch happens, and to
whom the FPU registers belong. TLC checks the models on small instances; TLAPS
proves the scheduler's invariants and the ring buffer's refinement for every
instance.

All paths below are relative to `src/`.

## 1. The system

### Parts, state and operations

| Part | Source | State | Operations that change it |
|---|---|---|---|
| scheduler | `core/sched.c` | run queue per priority, bit cache of the non-empty ones, status of each thread, active thread, switch request | `sched_run`, `sched_set_status`, `sched_switch`, `sched_task_exit` |
| threads | `core/thread.c`, `core/kernel_init.c` | table pid -> thread, thread count | `thread_create`, `thread_sleep`, `thread_wakeup`, `thread_yield`, `thread_add_to_list` |
| context switch | `cpu/riscv_common/riscv_cpu.c`, `intr.S` | "in an interrupt" flag, pending software interrupt | trap entry and return, `thread_yield_higher`, `context_switch` |
| lazy FPU | same | FPU on/off, its owner, registers, saved contexts | FPU trap, switch, `thread_fpu_context_init` |
| mutex | `core/mutex.c` | one pointer: free, locked, or the list of waiters | lock, trylock, unlock, `mutex_unlock_and_sleep` |
| condition variable | `core/cond.c` | list of waiters | `cond_wait`, `cond_signal`, `cond_broadcast` |
| recursive mutex | `core/rmutex.c` | a mutex, owner, count | lock, trylock, unlock |
| mailbox | `core/mbox.c` | ring of messages, lists of readers and writers | put, try_put, get |
| circular index buffer | `core/include/cib.h` | read and write counters that wrap | put, get |
| thread flags | `core/thread_flags.c` | flags and mask per thread | set, clear, wait any/one/all |
| messages | `core/msg.c` | per thread a queue, a list of blocked senders, a buffer | send, try_send, send_receive, reply, receive, all from threads and (sends, replies) from interrupts |
| ring buffer, list, priority queue, lifo, bit operations | `core/ringbuffer.c`, `clist.c`, `priority_queue.c`, `lifo.c`, `bitarithm.c` | arrays, indices, next pointers | all |

Everything outside `core/` and the RISC-V port (`sys/`, `drivers/`, `boards/`,
`pkg/`, other CPUs) is listed in `PROJECT.json` as not modelled, with the reason.

### How the parts interact

There is one core. A thread executes until it blocks, yields, or makes a more
important thread ready; a smaller priority number is more important. Kernel
calls protect their bodies by disabling interrupts. A call that needs a switch
calls `thread_yield_higher`, which on RISC-V only raises the software interrupt
of the core: the switch happens once interrupts are enabled, and other
interrupts can come first. An interrupt handler may wake threads; it only notes
that a switch is needed, and the switch happens on return.

All blocking primitives are built from the same three calls: `sched_set_status`
moves a thread on or off its run queue, `thread_add_to_list` puts it into a
waiting list (with the same list node), and `sched_switch` asks for a switch if
the thread just made ready is more important than the active one.

### What makes it hard

- `sched_set_status` takes the *head* off the run queue without looking. It is
  right only if every thread that blocks is at the head.
- The list node of a thread serves run queue and waiting list. It must be in
  exactly one.
- Between the request for a switch and the switch, interrupts come and wake
  threads of any priority.
- A thread that was woken runs later; what was true when it was woken may not
  be true any more (mailbox writers, mutex owners, flag waits).
- `rmutex.c` reads the owner without any protection.
- FPU registers stay with a thread that no longer runs, through exits and reuse
  of its memory.
- Counters and positions wrap (`cib.h`, `ringbuffer.c`).

`PROJECT.json` lists these hazards line by line with the properties that would
notice if they went wrong.

## 2. The modules

### Kernel state and atomicity

`Sched` holds the kernel state as one record `k` and each C function as an
operator from record to record, so a handler that calls several of them is
their composition. `rq[p]` is the circular list `sched_runqueues[p]` as a
sequence, head first; `bitcache` is the set of bits of `runqueue_bitcache`;
`msip` is the pending software interrupt; `request` is
`sched_context_switch_request`; `fault` marks a read through a NULL
`sched_active_thread`.

Each API call is one step. That is what the code makes atomic: the body runs with
interrupts disabled, and what follows `irq_restore` only raises the software
interrupt, from values read before. The `sched_switch` that `thread_create`,
`thread_wakeup`, `mutex_unlock` and the others call after `irq_restore` belongs to
the step: the states in which the caller is between the two, with a more
important thread ready and no switch asked for yet, are not states of the model.
An interrupt that comes there switches on its own account if its handler asks
for it, and the late `sched_switch` then asks for a switch that `sched_run` turns
into none or into the one that is due. Where the code is *not* atomic the model has
several steps: the two critical sections of a flag wait, every access of
`rmutex.c`, what a thread does after it was blocked (`mbox`, `msg`), the calls of
the program under a condition variable. Interrupt entry, each call of a handler,
and the return are separate steps, possible between any two others.

| Module | Models | Notes |
|---|---|---|
| `Sched` | `sched.c`, `thread_add_to_list`, trap entry/return, context switch | operators on `k`, and the predicates `RunqueueConsistent`, `ActiveIsHead` |
| `Threads` | `thread.c`, `kernel_init.c`, `sched_task_exit` | starts where `kernel_init` ends; pids are found, given away and reused; interrupt handlers wake and create threads |
| `Cpu` | the machine under the primitives | sleep, wake-up, yield, interrupts, and the fairness `CpuFairness` |
| `Mutex`, `Lock` | `mutex.c` | `Lock` is the abstract promise: the lock goes from owner to most important waiter, never to two |
| `Cond` | `cond.c` with the pipe program documented in `cond.h` | interrupt handlers signal and broadcast too; variable `immediate`: does `thread_yield_higher` switch at once (`cpu/native`) or later (RISC-V) |
| `RMutex` | `rmutex.c` on `Mutex` | one step per access of owner and count; the count has a width |
| `Mbox`, `Cib` | `mbox.c`, `cib.h` | who puts and gets is a program chosen in `Init` |
| `ThreadFlags` | `thread_flags.c` | initial flags are arbitrary, because `thread_create` does not set them |
| `Msg` | `msg.c` on `ThreadFlags` | who sends what to whom is a program chosen in `Init` |
| `LazyFpu` | FPU trap, switch, context initialisation, on `Threads` | data registers are one value, `fcsr` another |
| `Ringbuffer`, `ByteFifo` | `ringbuffer.c` | `ByteFifo` is the bounded queue it implements |
| `CibFifo` | `cib.h` used as a queue | for sizes 0, 1, 2, 4 and counters of 4 bits |
| `Clist`, `NodeList` | `clist.h`, `clist.c` | next pointers with merge sort; `NodeList` is the list it implements |
| `PriorityQueue`, `Lifo`, `Bitarithm` | their C files | |
| `SchedProofs`, `ThreadsProofs`, `RingbufferProofs` | proofs | section 5 |
| `MC*` | instances for TLC | section 3 |

Variables that are not in the code record history for the properties: in `Mutex`
`locking` and `holds` (what a thread called and has), in `Mbox` `accepted`,
`taken` and `late` (messages stored by a writer that had waited), in
`ThreadFlags` `seen` (what `thread_flags_wait_one` found set), in `Msg` what is owed to whom and which requests are unanswered, in
`CibFifo` the abstract queue. `pc`, `call`, `stage` and `ipc` stand for a
thread's program counter.

## 3. The runs

Every run that is expected to pass checks deadlock too: interrupts always go on,
so a stop would be a modelling error. Bounds are constants of the `.cfg` files.

| Run | Instance | What it shows |
|---|---|---|
| `threads` | idle, main, three workers of one priority; a table of 4 pids | `RunqueuesAgree` (a thread is in a run queue exactly when its status says so), `LpopRemovesCaller` (the thread that executes heads its queue), `TableConsistent`, `HighestPriorityRuns`, `KeepsTurn` (a preempted thread keeps its place), `RoundRobin` (a ready thread of the highest ready priority gets its turn), `TypeOK` |
| `locks` | three threads on two priorities with an ordinary mutex and a signal (unlocked by whoever has news), or with a recursive mutex, nesting 2, a count of 2 bits | `OneOwner`, `BlockedIffQueued`, `NoOvertaking`, `ImplementsLock`, `EveryWaiterGetsIt`; `OwnerTruthful` (the unprotected read never misleads), `CountsNesting` (what `rmutex_unlock` asserts), `LockCompletes` |
| `waiting` | three threads on two priorities with a pipe of length 2, both kinds of port; or two threads on two priorities with two flags | `CondBlockedIffQueued`, `PriorityRespected` (no thread executes while a more important one is ready), where the switch is deferred also `NoLostSignal` and `CloseReleasesAll`; `NoLostFlag`, `WaitReturnsItsFlags` (any, all, or the least significant flag, whatever is set meanwhile), `EveryFlagIsSeen` |
| `mbox` | three threads, five programs: a ring of 2 with non-blocking writers and interrupts; a ring of 1 with one blocking writer above its readers, with one beside interrupts that put, with one below its reader, with two; 4 messages, counters of 3 bits | in every program `ListsAgree`, `OnlyLateOverlooked` (a reader waits beside a stored message only if its writer had waited), `NoWriterWaitsForFree`; `FifoNothingLost`, whose order holds in the first two (`Disciplined`) |
| `msg` | three threads on two priorities, four programs, queues of 1 and 2, at most 3 messages in flight | `DeliveredOnceInOrder`, `NoStrandedMessage`, `RequestsAndRepliesMatch`, `KernelConsistent`, `LoopMissesNoMessage`, `EveryRequestIsAnswered` |
| `lazy_fpu` | main and two threads that come and go, one context each or none | `RegistersPreserved`, `OnForOwnerOnly` |
| `data` | each data structure by itself | `RefinesFifo`, `RefinesList`, `BufferIsFifo`, `PriorityThenArrival`, `ArrayIsStack`, `BitFunctionsExact` |
| `mbox_sleeping_reader` | one blocking writer below its reader | violates `NoReaderWaitsForStored` (section 6) |
| `lifo_order` | three integers | violates `GetsLeastRecent` (section 6) |
| `mbox_overfull` | one blocking writer, one reader, interrupts that put | violates `NeverOverfull` (section 6) |
| `lazy_fpu_fcsr` | as `lazy_fpu`, two status values | violates `StatusPreserved` (section 6) |
| `ringbuffer_remove` | an array of 3 | violates `RefinesFifo` (section 6) |

### Why the bounds are enough

Two priorities above idle are needed to see preemption, and two threads on one of
them to see rotation and order of arrival; three threads on two priorities give
both, and give a waiting list two entries while a third thread owns. `threads` has
one worker more than free pids, so that the table fills and pids are reused. A
mailbox ring of 1 or 2 wraps and fills within 4 messages; counters of 3 or 4 bits
wrap within a few operations. Of the two flags one is waited for alone and both
together, so that each can be set while the other is waited for. Six nodes let the merge sort make passes with
sublists of 1, 2 and 4, the last one short. `bitarithm_lsb` isolates one bit and
looks it up, so the 32 single bits are the cases, and words of up to three bits
add the interaction. Two blocking writers of a mailbox with one place are the least that leaves one
waiting while another has been woken. The programs of `msg` together use every call of `msg.c`
and all combinations of direct hand-over, queue and waiting list.

`locks`, `waiting` and `data` check several components in one run: the variable
`subject`, chosen in `Init` and never changed, says which one steps, and the others keep their
initial state. Fairness is then stated per subject, as in the components' modules.

No symmetry is used: the threads of one priority are few, and liveness is checked.

### Fairness

- Interrupts come again and again and end; the software interrupt is taken in
  the end. This is the hardware, and handlers that return.
- No thread keeps the CPU for ever while another of its priority is ready
  (`CpuFairness`), or each thread yields again and again (`Threads`). RIOT has no
  time slices, so this is an assumption on programs; without it nothing about
  threads of equal priority can be promised.
- A thread that gets the CPU again and again goes on with the call it is in, and
  releases what it locked.
- Nothing protects a thread from more important threads that run again and
  again, and mutexes do not inherit priorities. The liveness properties therefore
  say: the wait ends, *unless* a thread more important than the waiter (or than the
  owner or server it waits for) executes infinitely often.

## 4. Abstract specifications

- `Lock`: locks that are free or owned by one client, with a set of waiters; on
  release the lock goes to a waiter than which none is more important. `Mutex`
  implements it with the owner computed from the history (`mutex.c` does not
  record one): checked by TLC as `ImplementsLock`.
- `ByteFifo`: a bounded queue of bytes with the results each call of `ringbuffer.h`
  returns. Checked as `RefinesFifo` and proved as `ImplementsFifo`.
- `NodeList`: a sequence of nodes with the calls of `clist.h`. Checked as
  `RefinesList`.

## 5. What is proved

**The scheduler, for any set of threads, any priorities, any table size**
(`SchedProofs`, `ThreadsProofs`). Assumptions: `SchedAssumption` and
`ThreadsAssumption` (idle and main exist and differ, priorities are in range, the
table has at least two entries). No assumption limits the order in which programs
create threads, sleep, yield, end and wake each other, nor where interrupts come
and whether their handlers wake or create threads. The steps are those of
section 2, so `sched_switch` is one with the call it ends.

`SchedProofs` proves what each operator does to a consistent kernel record: for
instance `SetStatusBlock`, that blocking the head of a run queue leaves the queues
consistent, and `SchedRun`, that `sched_run` picks the head of the best non-empty
queue. `ThreadsProofs` proves that `Inv` is inductive, with one lemma per action:

    Inv == TypeOK /\ RunqueuesAgree /\ LpopRemovesCaller /\ TableConsistent
           /\ OnRunqueue(k, Idle) /\ (~k.in_isr => ~k.request)
           /\ (k.active # NoThread => sched_active_pid \in Pids)

None of the first four is inductive alone. The agreement of run queues survives
`sched_set_status` only because the thread that blocks is the head; that survives a
switch only because some queue is not empty, which needs that idle never blocks;
and the table is needed to know that a thread that is created is not on a run
queue already, nor the active thread that an interrupt handler finds blocked and
about to be switched from (the last conjunct). From `Inv` follow `TypesHold`, `RunqueuesAlwaysAgree`,
`LpopAlwaysRemovesCaller` and `TableAlwaysConsistent`.

`HighestPriorityAlwaysRuns` needs a second invariant, `SwitchAsked`: when a ready
thread is more important than the active one, a switch is pending or requested. It
assumes that no thread is created with `THREAD_CREATE_WOUT_YIELD`, whose purpose is
to skip that request.

**The ring buffer, for any array size and any bytes** (`RingbufferProofs`).
`StaysInArray`: read position and count stay in range. `ImplementsFifo`: the
array with its indices implements `ByteFifo`, step by step, the refinement mapping
being the bytes from the read position on, wrapped. Both assume `~RemoveToEnd`: no
`ringbuffer_remove` ends exactly at the end of the array. Without the assumption
both are false (run `ringbuffer_remove`).

**Only model-checked:** everything in the other modules, all liveness properties
(the prover does not handle fairness and ENABLED), and what the recursive
operators of `Clist` and `Bitarithm` compute (no induction over data).

## 6. Where code and documentation disagree

Five disagreements have a run of their own; `PROJECT.json` quotes the lines.

- `core/mbox.c:88`: a woken writer stores without testing again whether there is
  room. If an interrupt handler's `mbox_try_put` took the place, the ring holds more
  than it has places and an unread message is overwritten (`mbox_overfull`).
- `core/mbox.c:88` again: nor does it look whether a reader waits. A reader that
  came after the writer was woken sleeps on beside the stored message, where
  `mbox.h:131` says that `mbox_get` blocks until a message becomes available
  (`mbox_sleeping_reader`). This needs a blocking writer less important than a
  reader, or several that put.
- `cpu/riscv_common/riscv_cpu.c:121`: `fcsr` of the old FPU owner is read and not
  stored, so a thread loses its rounding mode and exception flags
  (`lazy_fpu_fcsr`).
- `core/ringbuffer.c:124`: the read position is wrapped with `>` and not `>=`
  (`ringbuffer_remove`).
- `core/include/lifo.h:64` and `:71` say that `lifo_get` returns the least recently
  inserted element; the code, like its name, returns the most recent
  (`lifo_order`). `ArrayIsStack` is about what the code does.

Others met while modelling are visible in the models, but have no run:

- `core/sched.c:189` reads `sched_active_thread->priority`, and
  `cpu_switch_context_exit` (`riscv_cpu.c:592`) enables interrupts while that
  pointer is NULL. An interrupt that wakes a thread at that moment reads through
  NULL. `Threads` marks the state with `fault` and goes no further; `RoundRobin`
  excuses it.
- `core/include/cond.h:28` says that `cond_wait` unlocks and sleeps atomically. On a
  port that switches at once (`cpu/native/native_cpu.c:223`) it does not, and a
  signal can be lost. `NoLostSignal` and `CloseReleasesAll` are stated for the
  other ports.
- `core/mbox.c:53`: `_wait` calls `thread_yield` with interrupts enabled. If a
  handler has already served the caller, the rotation moves some other thread.
- `core/mbox.c:68` hands a message to a waiting reader without `sender_pid`.
- `core/msg.c:225`: `msg_send_receive` to a pid of no thread returns -1 with the
  caller REPLY_BLOCKED and still executing. The programs ask existing threads only.
- `core/msg.c:111`: a message queued for a thread that waits for flags makes it
  ready and requests a switch, but in thread context no one makes it until the
  next interrupt or blocking call. `Msg` therefore checks no property of the
  `PriorityRespected` kind.
- `cpu/riscv_common/riscv_cpu.c:617`: ownership of the FPU is dropped by pid. If a
  context is given to a new thread with another pid while the old owner's thread
  has ended, its registers are later saved into the new thread's context. `lazy_fpu`
  assumes one context per thread control block.

## 7. What is not modelled

`PROJECT.json` has the full list. In `core/`: logging, panic, assertions, byte
order, the `-EINVAL` of `thread_create` (threads of the models have priorities in
range), `bitarithm_lsb` where it is the compiler's `__builtin_ffs`, and the emulation of atomics (each one step where it is used). In the port:
register frames, the PLIC, exceptions that stop the system. Programs of the models
end no thread that owns a mutex or has to answer a request; the kernel leaves
others blocked in that case. Stack overflow, memory reuse of thread control blocks
by programs, and wrong use that the headers forbid (unlocking another thread's
mutex, other than as a signal) are outside.

## 8. Plan

Built so far, in this order: `Sched`, `Threads`, `Cpu`; the primitives; the lazy
FPU; the data structures; the proofs of section 5.

Next, models:

1. `sys/xtimer`: the short and long timer lists, the overflow of the counter,
   `xtimer_remove` and `xtimer_set` against the interrupt; `xtimer_msg_receive_timeout`
   and `xtimer_mutex_lock_timeout` on `Msg` and `Mutex`.
2. `sys/event`, `sys/sema`, `sys/pipe`, `sys/tsrb`, `sys/isrpipe`: on `ThreadFlags`,
   `Msg`, `Mutex`, and the ring buffer. `event` and `sema` get abstract specifications.
3. `sys/pm_layered`, `sys/trickle`, `sys/evtimer`.
4. State machines of the network stack: `gnrc_tcp`, 6LoWPAN reassembly, neighbour
   cache, `gnrc_pktbuf` reference counts; `sys/vfs` reference counts; `pthread` join.

New questions join existing runs where the state allows it (as `data` does for the
data structures), so that the number of runs stays small.

Next, proofs:

1. `Mutex`: `OneOwner` and `BlockedIffQueued` for any threads and mutexes, on the
   lemmas of `SchedProofs`; then the refinement of `Lock`.
2. `CibFifo`: `BufferIsFifo` for any power of two as size and any counter width.
3. `LazyFpu`: `RegistersPreserved`; `RMutex`: `OwnerTruthful`.
4. `ThreadFlags`: `NoLostFlag`; `KeepsTurn` as an action property of `Threads`.
