# A TLA+ model of the RTT_Lite kernel

RTT_Lite is a small preemptive real-time kernel for one Cortex-M processor, written in C: tasks with
priorities and time slices, timers, semaphores, mutexes, mailboxes, message queues, events, memory pools
and a heap. The kernel is `src/lib/os/`; the rest of the repository is vendor code (CMSIS, the STM32
peripheral libraries), board support and small application projects. The modules here model the kernel.

1. [Inventory](#1-inventory): the parts of the system
2. [How the code is modelled](#2-how-the-code-is-modelled)
3. [The modules](#3-the-modules)
4. [The runs](#4-the-runs): bounds, fairness and what each one shows
5. [Where the code does not do what it says](#5-where-the-code-does-not-do-what-it-says)
6. [What is proved](#6-what-is-proved)
7. [What is not modelled](#7-what-is-not-modelled)
8. [Plan](#8-plan)

Paths below are relative to `src/lib/os/src/` unless they start with `src/`.

## 1. Inventory

| Part | State | Operations | Hard behaviour | What makes it correct |
|---|---|---|---|---|
| Lists, `os_list.c` | circular doubly linked nodes; a head is a node | insert before/after, remove, empty | a wrong link corrupts a list far away | the rings are disjoint and implement sequences |
| Scheduler, `os_sched.c`, `os_misc.c` | ready lists per priority, two-level bitmap (`priority_group`, `priority_mask`), `os_current_task`, lock nesting | insert, remove, `os_sched`, lock, unlock | called from tasks, callbacks and interrupts, between any two critical sections | lists and bitmap agree with the states; a switch goes to the most urgent ready task |
| Tasks, `os_task.c` | `stat`, `current_priority`, `priority_mask`, `error`, `remaining_tick`, `tlist`, the built-in timer | init, startup, resume, suspend, yield, sleep, priority set, delete, exit, timeout | most calls are several critical sections; states are tested outside of them | a task is in the ready list exactly when it is READY; a linked timer belongs to a suspended task; an ended task stays ended |
| Idle task, `os_idle.c` | `os_defunct_task_list` | clean up one ended task | tasks end while it works | every ended task is cleaned up once |
| Clock, `os_tick.c` | `os_tick` (wraps), slices | tick increase, milliseconds to ticks | runs in the SysTick handler, preempts everything | slices share the processor; timers are checked every tick |
| Timers, `os_timer.c` | `os_timer_list` ordered by due time; `flag`, ticks | init, start, stop, delete, set, check | callbacks that call the timer API while the list is traversed; tick arithmetic modulo 2^32 | a timer fires exactly when due, in order, never after it was stopped |
| IPC base, `os_ipc.c` | the pending list of each object | suspend, resume, resume all | FIFO or priority order; timeouts remove waiters | waiting tasks are exactly the entries, in the promised order |
| Semaphores, `os_sem.c` | `value`, pending list | init, take with timeout, give, reset, delete | give races the timeout of the same waiter | no waiter while a token is free; each take has one outcome |
| Mutexes, `os_mutex.c` | owner, hold count, original priority | take, release (priority inheritance) | nested mutexes; chains of owners | one owner; an owner runs at least as urgently as its waiters |
| Mailboxes, `os_mbox.c` | ring of mails, two pending lists | put with wait, get, reset | a resumed task retries with what is left of its timeout | FIFO, nothing lost or duplicated |
| Message queues, `os_mqueue.c` | free list, message list | put, put urgent, get, reset | a message is moved in two critical sections | as mailboxes, and no message leaks |
| Events, `os_event.c` | bit set, pending list | put, get (and/or/clear) | waiters see bits in list order | waiters whose condition holds do not wait |
| Memory pools, `os_mpool.c` | free blocks, count of waiters | alloc with timeout, free, delete | the count and the pending list are two records of one fact | blocks are never shared; no waiter while a block is free |
| Heap, `os_heap.c` | block headers in an array, `lfree` | malloc, free, realloc | merging of neighbours, alignment, limits | blocks partition the array; `lfree` is the lowest free one |
| Interrupts, `os_irq.c` | `os_isr_nest` | enter, leave | no switch while interrupts nest | the nesting is balanced |
| Context switch, `arch/cortex_m*` | saved stack pointers, `interrupt_switch_flag` | PendSV | a switch is pended and done later, several requests merge | the task that runs is `os_current_task` with its own registers |
| Start, `os.c`, `src/project/hope/src/main.c` | - | init, start | none: interrupts are masked | the first switch finds a ready task |

The parts meet in the kernel's shared state: `os_sched` is called at the end of nearly every operation, an
operation that waits uses `os_list_suspend` of `os_ipc.c`, `os_task_suspend` and the timer built into the
task, the clock interrupt calls `os_timer_check`, which calls `os_task_timeout`, which inserts a task in the
ready list and calls `os_sched`. Mutexes, mailboxes, queues, events and pools put a task that waits in a pending
list and start its timer by the same functions; the heap uses a semaphore. Two tasks, or a task and an interrupt,
interleave at the points where
interrupts are enabled: between two critical sections (`os_hw_interrupt_disable` ... `enable`).

The list of hazards in `PROJECT.json` names the lines where this can go wrong.

## 2. How the code is modelled

**One critical section is one step.** On one processor with interrupts masked nothing can come in between,
so the state changes of one critical section are one atomic action. A C function that consists of several
critical sections is several actions, and `pc[t]`, `arg[t]` (and in `OsSem` `tmo`, `out`) hold where task `t`
is in it; in the modules over `OsWait` an `os_sched` that ends a call outside of any critical section is a
step of its own (`resched`). A test that the code makes outside the critical section is made at the earlier step
and is not repeated. Where a function that opens a critical section of its own is called inside another one, it
is part of the caller's step, since the sections nest. The calls of the heap are kept apart by a semaphore,
`heap_sem`, not by masking: there each part of a call is a step, and `heap_sem` is the abstract `Semaphore`
that `OsSem` implements.

**The kernel state is one record `k`**, and each C function of the kernel is an operator from a state to a
state (`OsKernel`). A handler is the composition of the functions it calls, in the order in which it calls
them; the modules differ in the operators they use.

**The data.** A task's two nodes (`tlist` and the timer's `list`) are members of sequences: the ready lists,
the pending lists, the defunct list, `os_timer_list`. `OsList` justifies this: it has the pointers of
`os_list.c` and implements `Lists`, in which lists are sequences. `priority_group` and `priority_mask` are the set
`bitmap` of the levels whose bit is set; each task has the bits *it* sets as `mask[t]`, apart from `prio[t]`,
because the code stores them apart. Stacks, names, entry functions and parameters are left out. Messages and
blocks of a pool are names; what is copied from one buffer into another is one assignment, in the step in which
the code copies. The offsets of `os_heap.c` are numbers, in units of `OS_ALIGN_SIZE`, and its array is the
function from the offsets of the headers to the headers.

**The tick counter** is abstracted to the ticks that are left for each timer in `OsKernel` (`left`), which is
what the comparison in `os_timer_start` sees, with `Overdue` for the timers whose difference has become
negative and which the unsigned subtraction takes for a huge one. `OsTimer` has the counter itself, modulo
`W`, and shows with the refinement of `TimerService` that nothing else depends on it.

**The clock interrupt** is `Tick` (slice, `os_tick`), then one step per due timer, then `TickEnd`. The traversal
of `os_timer_check` runs with interrupts masked, so nothing else happens between these steps; they are
separate because callbacks are. Interrupts of devices appear as one atomic action that resumes a task or
gives a semaphore, puts a mail or a message, sets bits or frees a block. Over the kernel state interrupts do not
nest; they do in `OsSwitch`.

**A switch** is the assignment of `os_current_task`: a task takes a step only when it is `k.cur` and no
interrupt is active. That the processor then really executes that task, with its own registers, is what
`OsSwitch` shows of PendSV; there the task that `os_sched` picks is any task.

**The application** may call every function of the API at any time, within what the comments of the API and
common sense ask: it does not block with the scheduler locked, it has one call at a time at work on a task, it does
not delete a task whose timeout is running, timer callbacks do not stop a task's timeout nor the timer after theirs. Each of these
restrictions is a name in the constant `Risky`; with the name in the set, the restriction is dropped. The passing
runs have `Risky = {}` or name what they allow; section 5 has what happens when one restriction is dropped and
the code breaks. This is how the restrictions were found: they are the calls the code does not survive,
and no comment of the API tells a user so.

Modules that compose several objects have a constant `Uses` instead, a set of sets of names: an application picks
one of them in the initial state (`ops`) and keeps to it. The names say which objects it uses and with which
discipline: for mutexes `nest` (holds more than one), `again` (takes one it holds), `anyOrder` (does not release
them in the opposite order), `timed` (waits with a finite timeout), `delete`; for messages `isr` and `empty`
(reset and delete); for the heap `realloc`. An object is deleted while those in its lists wait for ever and
nobody else is in the middle of a call on it; a mutex is deleted by its owner. An application of `OsObjects` may use
all its objects; those of the runs use one or two, and the proofs are about any. Timers of the application are in
`OsTask` and `OsTimer`; over `OsWait` there are none (`UserTimer = {}`), since their callbacks would be handlers that
resume a task, which the handlers of devices are already.

## 3. The modules

| Module | Models | Notes |
|---|---|---|
| `Lists` | what a list promises: sequences of nodes | abstract |
| `OsList` | `os_list.c`, `os_list.h`: `next` and `prev` of every node | implements `Lists` with `Items` as the refinement mapping |
| `OsListProofs` | the rings are always well linked and hold the sequences of `Lists` | proof |
| `OsKernel` | the state of the kernel and the functions of `os_sched.c`, `os_task.c`, `os_timer.c`, `os_ipc.c`, `os_tick.c` as operators | no actions of its own |
| `KernelInv` | what lists, bitmap, timers and states of a kernel have to do with each other | `KernelOK(k, D)`, extends `OsKernel` |
| `Chains` | cells linked through `next`, as in `os_mqueue.c` and `os_mpool.c`: `Chain`, `Leads` | no actions of its own |
| `OsKernelProofs` | every operator of `OsKernel` keeps `KernelOK`, and what it does to whom, to those who wait and to the order of a list; what linking and unlinking a cell does to a chain | proof |
| `OsTask` | `os_task.c`, `os_sched.c`, `os_idle.c`, the SysTick handler, `os_start` | extends `OsKernel` |
| `OsTaskInv` | the inductive invariant `IndInv` of `OsTask` | extends `OsTask`, `KernelInv` |
| `OsTaskProofs` | `IndInv` is inductive, what follows from it, and what a step may never do | proof |
| `TimerService` | what timers promise: a countdown for each one | abstract |
| `OsTimer` | `os_timer.c` with the tick counter modulo `W` and callbacks that call the API | implements `TimerService` |
| `OsTimerInv` | the inductive invariants `StopInv`, `LinkInv` and `TimerInv` of `OsTimer` | extends `OsTimer` |
| `OsTimerProofs` | they are inductive; `OsTimer` implements `TimerService` | proof |
| `Semaphore` | what a semaphore promises: a number of tokens, a queue, outcomes | abstract |
| `OsSem` | `os_sem.c` and `os_ipc.c` over the kernel, with timeouts, interrupts and the lock | extends `OsKernel`, implements `Semaphore` |
| `OsSemInv` | the inductive invariant `SemInv` of `OsSem` | extends `OsSem`, `KernelInv` |
| `OsSemProofs` | `SemInv` is inductive; `OsSem` implements `Semaphore` | proof |
| `OsWait` | what the waits of the five modules below have in common: `pending_list`, timer, `os_sched`, the rest of a timeout, `os_list_resume_all` step by step, `os_task_sleep`, the clock | extends `OsKernel` |
| `Channel` | what a mailbox and a message queue promise: one bounded queue | abstract |
| `OsMbox` | `os_mbox.c`: the ring, the lists of receivers and senders | extends `OsWait`, implements `Channel` |
| `OsMqueue` | `os_mqueue.c`: nodes, free list, message list, the two critical sections of put and get | extends `OsWait`, implements `Channel` |
| `OsMutex` | `os_mutex.c`: recursive takes, inheritance, hand-over | extends `OsWait` |
| `OsEvent` | `os_event.c`: AND, OR, CLEAR, the traversal of the waiters | extends `OsWait` |
| `OsMpool` | `os_mpool.c`: the chain of free blocks, `suspend_task_count` | extends `OsWait` |
| `OsObjects` | tasks and handlers that use a mailbox, a queue, mutexes, an event and a pool of one kernel | composes the five above |
| `OsObjectsInv` | the inductive invariants of `OsObjects`: `WaitInv`, `MutexInv`, `PrioInv`, `MailInv`, `PoolInv`, `BlockInv`, `NodeInv` | extends `OsObjects`, `KernelInv` |
| `OsObjectsProofs` | they are inductive; `OsMbox` and `OsMqueue` implement `Channel` | proof |
| `OsHeap` | `os_heap.c` in units of `OS_ALIGN_SIZE`, with the steps of each call | uses `Semaphore` |
| `OsHeapProofs` | `HeapInv`, `LowInv` and `LossInv` are inductive | proof |
| `OsSwitch` | `context_gcc.S` of the Cortex-M ports: the pended switch, nested interrupts, the first switch | |
| `OsSwitchProofs` | `SwitchInv` is inductive | proof |
| `MCOsTask`, `MCOsTimer`, `MCOsSem`, `MCOsMessages`, `MCOsResources`, `MCOsHeap`, `MCOsSwitch` | values for TLC | |

`MCOsMessages` and `MCOsResources` are two instances of `OsObjects`, one for each of its runs; `lists` runs `OsList`
as it is.

State and code, for the variables that are not obvious:

* `k.stat`, `k.prio`, `k.mask`, `k.error`, `k.rem`: `stat`, `current_priority`, `priority_mask` (with
  `priority_group`), `error` and `remaining_tick` of `struct os_task`;
* `k.lock`: `os_sched_lock_nest`; `k.isr`: `os_isr_nest` (the clock only); `k.n`: the variable `n` of
  `os_timer_check`, which survives the callback and is the source of several findings;
* `k.act`: the timers with `OS_TIMER_ACTIVATED` in `flag`;
* `pc[t] = "resume1"`: `t` is inside `os_task_resume`, after the test of the state; `"resume2"`: between
  its two critical sections; `"delete2"`, `"delete3"`, `"delete4"`: between the steps of `os_task_delete`;
  `"sched"`: before the `os_sched` that ends a call; `"sleepBack"`: after it, in `os_task_sleep`; `"cleanup"`:
  in the idle task, between its test of the defunct list and its critical section;
* in `OsWait`: `arg[t]` is the timeout of the call `t` is in, `since[t]` the difference
  `os_tick_get() - tick_delta` of the retry loops, `val[t]` what the call carries or has received, `todo[t]` the
  lists a reset or a deletion has still to empty;
* in `OsMqueue`: `mq.next` and `mq.data` are the nodes in `msg_pool`, `mq.head`, `mq.tail` and `mq.free` the three
  pointers, `node[t]` the local variable that holds a node between the two critical sections of a call;
* in `OsMutex`: `mx[m].orig` is `original_priority`; `stack[t]` is what the application knows, the takes that
  returned `OS_OK` and were not released. `own[t]` in `OsMpool`, `owner` and `asked` in `OsHeap` are of the same
  kind: what a caller may rely on;
* in `OsSwitch`: `context` is the task whose registers the processor has, `saved[t]` the task whose registers are
  where `t`'s stack pointer points, `level` what runs under the interrupts.

Actions have the names of the functions; a second step of a function is named after what it does
(`ResumeSecond`, `DeleteClose`). `map` in `PROJECT.json` gives the lines of each definition that translates code;
`OsObjects` composes others and has none of its own. The definitions
marked *mutant* in a comment are used by no specification: each is a plausible mistake in the definition after
it, with which TLC finds a property violated.

## 4. The runs

The third column is the number of distinct states. Each run takes less than three minutes with two
workers. Type invariants are not listed as properties of the runs: where there are proofs they are part of the
inductive invariant, elsewhere they give the ranges of the variables.

| Run | Question | States |
|---|---|---|
| `lists` | Do the pointers of `os_list.c` implement lists? | 261 |
| `task_state` | Do lists, bitmap and timers agree with the states of the tasks, with the whole task API and interrupts anywhere? Does each switch go to the most urgent ready task, does an ended task stay ended? | 1.22 M |
| `task_live` | Sleeping tasks and timers of the application share `os_timer_list`: does a timeout find its task suspended, does every sleep end, do tasks of one level share the processor by their slices alone, are two tasks that ended, one in front of the other in the defunct list, both cleaned up? | 69 k |
| `timer` | Does each of three timers fire exactly when it is due and never after it was stopped, whatever the callbacks do, while the counter wraps around? | 1.49 M |
| `sem` | Does `os_sem` with `OS_IPC_PRIO` implement the abstract semaphore under timeouts, interrupts, the lock and resets? | 1.11 M |
| `sem_fifo` | The same for `OS_IPC_FIFO`, with callbacks that give and with `os_sem_delete`; does every take with a timeout end? | 38 k |
| `messages` | Do `os_mbox` and `os_mqueue` implement one bounded channel, although a message is moved in two critical sections, another task may take what a receiver was resumed for, and interrupts put between any two steps? Is every node of the queue in exactly one place? Does every timed call end? | 312 k |
| `resources` | Do owner, hold count and successful takes agree, with nested, recursive, timed and deleted mutexes? Is every inherited priority given back? Does `os_event_put` serve every waiter it should, and clear bits for one only? Do blocks and `suspend_task_count` agree with the lists? | 3.04 M |
| `inversion` | Does a task that is less urgent than a waiter run while the owner could? Does the most urgent task get its mutex although the one in between never stops? | 30 k |
| `heap` | Do the blocks tile the heap, do free neighbours unite, is `used_mem` right, is `lfree` the lowest free block, does every call return, with steps of another task between any two parts of a call? | 280 k |
| `switch` | Does the processor end up with the registers of `os_current_task`, however often a switch is asked for before, in and after PendSV? | 301 |
| `mpool_timeout` | The wait that is not counted back, see section 5 | |

**Bounds.** Two or three tasks and the idle task: the code's decisions are about one task and the list it is in,
and the longest interaction needs a task that works on a second one while a timeout or an interrupt handler
resumes a third. Three priority levels: one for the tasks, one for the idle task, one to move to. Delays
of 0 to 2 ticks: due at once, due in the next tick, due behind another. `W` is 3 with intervals up to `W - 1`, so that the
counter wraps around in nearly every behaviour and differences take every value they can; three timers, so that
one is inserted between two others. A mailbox has two slots and a queue two nodes, so that each is empty, partly
full and full, and the ring wraps around; two messages tell one order from the other. Three tasks on three levels are
the smallest instance with an inversion; with two mutexes a task waits for an owner who waits. Two bits tell AND
from OR. The heap has 15 units beside the headers at its ends, headers of 3 and calls for 0, 2 and 9: there are blocks
of the smallest size (3), blocks that are split and blocks that are too small to be, and a large one is refused
beside small ones. In `OsSwitch` interrupts nest twice and there are three tasks, so that a pended switch is
changed to a third task.

`MaxLock` bounds `os_sched_lock_nest`, `MaxValue` the tokens of a semaphore, `MaxHold` (2) the takes of one task that
are not released; each is a conjunct of the guards of the actions that count up. `MaxNest` is how deep interrupts
nest, which the processor's priority levels bound. `since[t]` stops at the timeout, beyond which it makes no
difference. No run needs a state constraint.

**Deadlock** is checked everywhere: the clock always ticks, a task may always call the heap, an interrupt always
comes or returns.

**Fairness.** Safety runs have none. The liveness runs assume

* weak fairness of `Tick` and of `TimerFire \/ TickEnd`: the SysTick timer of the processor is periodic and an
  interrupt handler runs to its end;
* strong fairness of a task's next kernel step: a task executes only while it is `os_current_task`, and an
  interrupt may take the processor away infinitely often; a task that gets it back again and again executes
  its next instruction at some time. Weak fairness would not do, because the action is disabled by each
  switch;
* in `inversion`, strong fairness of a task's release of the mutex it holds: without it nothing could be promised
  to those who wait;
* in `heap`, weak fairness of the steps inside a call: the module has no priorities, and every task gets the
  processor at some time;
* nothing for the other calls: an application task may compute for ever. `RoundRobin` holds for tasks that never
  call the kernel.

`DefunctCleaned` has two hypotheses. The idle task runs again and again: more urgent tasks may keep it from
ever running, and nothing in the code promises otherwise. And tasks do not go on ending for ever (`TaskEnds`):
`os_task_exit` and `os_task_delete` insert at the head of the defunct list, where the idle task also takes the next one, so that an older
entry stays where it is while tasks are initialized and end again in front of it. Without that hypothesis TLC shows
such a run. `RoundRobin` has as a hypothesis that the scheduler is not
locked. `TimedTakeEnds` and `SleepEnds` have no hypothesis on other tasks: a timeout takes a task out of its wait
whatever the others do. `TimedCallsEnd` is about the retry loops of the mailbox and the queue: a task that was resumed
and finds nothing waits again with what is left of its timeout. It assumes only ticks, and excludes that a task is
suspended again and again in one call.

## 5. Where the code does not do what it says

One run shows a counterexample and is listed in `PROJECT.json` as a finding:

| Run | What happens |
|---|---|
| `mpool_timeout` | `suspend_task_count` is not decremented when a wait in `os_mpool_alloc` times out; the next `os_mpool_free` takes the head of an empty list for a task (`os_mpool.c:239`). In `resources` waits for a block have no timeout, and the property holds |

The configurations below are kept beside the modules and reproduce the others: `tlc -config <file> <module>` shows
the counterexample. Each drops one restriction of section 2; `OsTimerZero.cfg` instead allows an interval of 0, and
`OsHeapNull.cfg` needs none but sizes that fit exactly.

| Configuration | Module | Property | What happens |
|---|---|---|---|
| `OsTaskDeleteTimed.cfg` | `MCOsTask` | `DeletedLeavesQueue` | `os_task_delete` of a sleeping task is not atomic: a timeout between its first two steps puts the task back in the ready list, where it stays after it is closed |
| `OsSemDeleteShared.cfg` | `MCOsSem` | `NextIsSuspended` | `os_list_resume_all` tests the list outside its critical section: the head is taken for a task. With `Risky = {}` the property says no more than the test does, so that no run has it |
| `OsSemCallback.cfg` | `MCOsSem` | `TimeoutOnlyWhenSuspended` | the callback of a timer gives a semaphore to a task whose own timer is next: the timeout hits a READY task, against an assertion |
| `OsTimerRestart.cfg` | `MCOsTimer` | `LinkedCanBeStopped` | a one-shot timer that starts itself again in its callback is in the list without its flag and can not be stopped |
| `OsTimerDelete.cfg` | `MCOsTimer` | `ImplementsTimerService` | a periodic timer that deletes itself in its callback is started again |
| `OsTimerZero.cfg` | `MCOsTimer` | `OnTime` | an overdue timer (interval 0) makes `os_timer_start` misplace another one, which then fires late |
| `OsHeapNull.cfg` | `MCOsHeap` | `NullOnlyWhenFull` | `os_malloc` returns NULL although a block fits: the scan stops before one that fits exactly at the end (`os_heap.c:228`), and after `os_realloc` `lfree` may be behind the one that fits (`os_heap.c:382`) |

More members of `Risky` and `Uses` show the following when they are added to a passing run:

* `deleteInit` in `task_state`, against `SwitchToMostUrgent`: `os_task_init` leaves `priority_mask`, which
  `os_task_startup` computes. Deleting a task that was initialized again with another priority and not
  started clears the bit of the old level, and ready tasks of that level are passed over.
* `blockLocked` in `sem`, against `PendingExact`: `os_sem_take` with the scheduler locked returns `OS_OK` to
  a task that has no token and is still in the pending list.
* `callbackNext` in `timer`, against `ImplementsTimerService`: a callback stops the timer the loop visits next, which
  fires all the same; the cause is that of `OsSemCallback.cfg`.
* `anyOrder` with `nest` in `resources`, against `PriorityRestored`: each mutex keeps the priority its owner had when
  it took *this* one. A task that takes a mutex, is raised, takes a second one and releases the first before the
  second is raised again by the second release, and stays so.

Two limits of the mutexes about which the code promises nothing: `os_mutex_release` calls `os_sched` only when
somebody waits for that mutex, so that a ready task that is more urgent than the priority the caller goes back to runs
at the next `os_sched` (`os_mutex.c:217`, `os_mutex.c:250`); and inheritance is neither passed on to the owner of a
mutex for which the owner itself waits, nor undone when the waiter's timeout ends its wait. `InversionBounded` is
therefore about applications that hold one mutex at a time and wait for ever (`OneForever`). Two more conditions of
`OneForever` come from the attempt to state it for every application: nothing is deleted, since `os_mbox_delete`,
`os_mqueue_delete`, `os_event_delete`, `os_mpool_delete` and `os_mutex_delete` resume tasks with no `os_sched` after
it, so that a more urgent one runs at the next `os_sched` only; and the lists are `OS_IPC_PRIO`, since in one that is
`OS_IPC_FIFO` the next owner may be less urgent than those that still wait, and is not raised for them.

The remaining ones are calls from two places at once on one task or timer, for which the API promises nothing:

* `race` in `task_state`, against `ReadyExact`: two callers resume one task, and the second inserts it in the ready list
  once more.
* `stopRace` in `timer`, against `LinkedCanBeStopped`: an interrupt starts a timer between the removal and the store of
  an `os_timer_stop` on it, and the timer runs without its flag.
* `setActive` in `timer`, against `ImplementsTimerService`: the interval of a timer that runs decides when it is due, but
  its place in the list is that of the old one.
* `resumeTimed` in `task_state`, against `ReadyExact`: a sleeping task is resumed and its timeout comes after the test
  of its state; the resumer then takes it out of the ready list.
* `callbackStops` in `task_live`, against `TimeoutOnlyWhenSuspended`: a callback resumes the task whose timeout
  `os_timer_check` visits next.

## 6. What is proved

All proofs are checked by tlapm; nothing is assumed but the `ASSUME`s of the modules.

**`OsListProofs`** proves for any number of nodes that the pointer structure of `os_list.c` stays well linked
(`ListSafety`, and from it `ListLinked`): each node's `next` and `prev` are inverse to each other, whatever the
order of insertions and removals. The invariant is inductive because each of `os_list_insert_after`,
`os_list_insert_before` and `os_list_remove` replaces links in pairs; what has to be known of the
arguments is that a node to be inserted is linked to itself.

`RingsImplementLists` proves for finitely many nodes the refinement that the run `lists` checks, `ImplementsLists`.
`Items(h)` is defined by a walk along `next`, of which it has to be shown that it comes back to `h`. The invariant,
`RingInv`, says that the rings hold sequences L: in the ring of each head the items of its list follow each other in
both directions, every item has at most one place in all the lists, and an item with no place is linked
to itself. `ItemsAre` derives from it that the walk from `h` returns after `Len(L[h])` items, and not before, hence
`Items(h) = L[h]`; finiteness is needed because `Items` bounds the walk by the number of nodes. `InsertRing` and
`RemoveRing` say what the two functions do to L; `os_list_insert_before` is `os_list_insert_after` of the predecessor,
and the removal of an item that is in no list changes nothing, which `Lists` allows as a stutter.

**`OsTaskProofs`** proves for every set of tasks, priorities, timers and delays, and for applications with
`Risky = {}`:

| Theorem | Property | |
|---|---|---|
| `Inductive` | `IndInv` | the inductive invariant below |
| `TypeCorrect` | `TypeOK` | every field keeps its type |
| `ReadyCorrect` | `ReadyExact` | the ready lists hold exactly the READY tasks, each once, at its level |
| `BitmapCorrect` | `BitmapExact` | a bit is set exactly when its list has a task |
| `ArmedCorrect` | `ArmedTasksWait` | a task whose timer is linked waits |
| `TimeoutCorrect` | `TimeoutOnlyWhenSuspended` | the assertion of `os_task_timeout` |
| `SwitchCorrect` | `SwitchToMostUrgent` | a switch goes to a READY task than which none is more urgent, and only with the scheduler unlocked |
| `ClosedStays` | `ClosedIsFinal` | only `os_task_init` brings back a task that has ended |
| `AlwaysSomeoneToRun` | - | once the scheduler runs, the head it would switch to is a READY task, never a list head |

They rest on the following.

* *Assumptions.* `KernelAssumption` (there is an idle task, intervals of timers and slices are not 0, the names of
  tasks, timers and list heads differ) and `TaskAssumption` (priorities are levels, delays are numbers); and `Risky = {}`,
  which stands as a hypothesis in each theorem. Section 5 shows that this hypothesis can not be dropped.
* *The invariant.* `ReadyExact` and its companions are not inductive: a task that is preempted in
  `os_task_resume` continues later with a task it has already taken out of its list, and nothing in
  `ReadyExact` says in which state that task is then. `IndInv` adds it: `KernelOK(k, Detached)` is the agreement
  of lists, bitmap, masks and timers but for the tasks in `Detached`, which are between two critical sections of
  a call; `CallsOK` says that such a call is the only one that works on its task, `TargetsOK` in which state
  it finds it, `EndedOK` that a task that is deleted was not inside such a call itself, `CurOK` that the current
  task can run or is about to call `os_sched`, `BootOK` what is true before `os_start`, `CursorOK` that the
  variable `n` of `os_timer_check` is in `os_timer_list` whenever it is read. `Masks`, a part of `KernelOK`, is what
  makes `os_sched_remove` right, which clears the bit of `priority_mask` when the list of
  `current_priority` is empty.
* *The steps.* `OsKernelProofs` shows of every operator that `OsTask` uses that it keeps `KernelOK`, with `D` larger or
  smaller by the task that is taken or given back, and what it leaves alone. `CallStep`, `AppStep`, `IsrStep` and
  `OutsideStep` then state once what it takes to keep `IndInv`, for a step of a call on another task, of the
  current task on its own, of an interrupt handler, and of anything that is outside of the calls. Each action has
  a lemma that shows it to be one of these; `NextOK` puts them together.
* *Action properties.* `StepsOK` says of each step from a state with `IndInv` that it changes the state of at most one
  task, which is not closed, and switches, if at all, as `os_sched` does (`MostUrgent`). That a task in the middle of
  `os_task_resume` is not READY, so that it need not be looked at in a switch, is `TargetsOK` after the step.
* *Lists.* Lists are sequences: removing, appending and inserting keep a list free of duplicates and change
  its set of members by exactly one (`UnlinkList`, `AppendList`, `InsertAtList`, `TailList`, `ConsList`), and the loops of
  `os_timer_start` and `os_list_suspend` stop at a place that exists (`FirstInExists`).

**`OsSemProofs`** proves for every set of tasks, priorities, timers and timeouts, for both flags (`OS_IPC_FLAG_PRIO`,
`OS_IPC_FLAG_FIFO`), every set of operations the application uses, and `Risky = {}`:

| Theorem | Property | |
|---|---|---|
| `SemInductive` | `SemInv` | the inductive invariant |
| `PendingAlwaysExact` | `PendingExact` | the pending list holds exactly the tasks that wait, in their order, with their timers |
| `TimeoutFindsSuspended` | `TimeoutOnlyWhenSuspended` | the assertion of `os_task_timeout`, for waiters |
| `MostUrgentAlwaysRuns` | `MostUrgentRuns` | no path that makes a task READY forgets `os_sched` |
| `SemaphoreImplemented` | `ImplementsSemaphore` | the refinement of `Semaphore` |

* *The invariant.* `PendingExact` says where a task that waits is. It is preserved only because of what it does not
  say: the kernel's lists agree (`KernelOK(k, {})`, the invariant of the task module with nobody between two critical
  sections), nobody ends and the idle task never waits (`TasksOK`), the current task is suspended only on the way to
  its `os_sched` (`CurOK`), the answer a waiter will read has not been written yet (`ErrorOK`), and while a task is
  inside `os_sem_delete` no other is, and no waiter can leave the list by a timeout (`DeleteOK`). `UrgentOK` is
  `MostUrgentRuns` for the states in which it can be claimed.
* *The steps.* A step does one of three things to a task: it leaves it as it is (`Stays`), it ends its wait (`Goes`),
  or it begins one (`Comes`); `WaitStep` says once that this keeps the correspondence of list, timers and waits.
  `LeavesStep` does it for what serves one waiter, whether a task, a handler, a callback or a timeout is the cause.
* *The loop of `os_list_resume_all`.* `ListResumeAll` is a fold. Instead of an induction over the list, the proof takes
  the least number of turns for which the claim would fail (`LeastNatural`) and shows that one turn
  (`WakeHead`, `EmptiedStep`) leads to it from a number for which it holds (`OsKernelProofs`, `TurnsExist`,
  `ListResumeAllOK`).
* *The refinement.* `value`, the pending list and the outcomes are mapped to the abstract semaphore; the outcome of a
  task in `os_sem_take` is what it will return (`OutcomeOf`). Every action is shown to be an abstract step or a stutter
  (`StepRefines`): a release is `Give`, whether it is made by a task, a handler or a callback; a timeout is `GiveUp`;
  each turn of the loop in `os_sem_delete` cancels one waiter.
* *The hypothesis.* `Risky` names three usages that the code does not survive and the API does not forbid; section 5 has a
  configuration or a description for each, so that the hypothesis can not be dropped.

**`OsTimerProofs`** proves for every width `W` of `os_tick_t`, every set of timers, periodic or not, and every set of
intervals:

| Theorem | Property | Hypotheses |
|---|---|---|
| `StopInductive` | `StopInv` | neither `restartSelf` nor `stopRace` in `Risky` |
| `LinkedTimersStop` | `LinkedCanBeStopped` | the same |
| `TimerInductive` | `TimerInv` | `Risky = {}`, no interval is 0 |
| `TimersFireOnTime` | `OnTime` | `Risky = {}`, no interval is 0 |
| `TimerImplemented` | `ImplementsTimerService` | `Risky = {}`, no interval is 0 |

* `StopInv` says that the list has no duplicates, that what is linked has `OS_TIMER_ACTIVATED`, that a timer whose
  callback runs is in the list only if it is periodic, and what a caller of `os_timer_stop` between its two steps
  may rely on: the timer is not in the list, and neither the cursor `n` nor the timer whose callback runs is it, so that
  `os_timer_check` does not put it back before the flag is cleared. It needs no arithmetic, holds for intervals of 0 too,
  and allows callbacks to stop, start and delete every timer, the one `os_timer_check` visits next included. Its two
  hypotheses can not be dropped: each of the two usages alone breaks `LinkedCanBeStopped` (`OsTimerRestart.cfg`; `stopRace`,
  section 5).
* `LinkInv` adds for `Risky = {}` that `n` is in the list whenever the loop reads it.
* `TimerInv` adds the time: the ticks left and the ticks since the start of a linked timer add up to its
  interval (`Counted`), the list is ordered by the ticks left and among equals by the order of starting
  (`Sorted`), and what is due is at or after the cursor `n` (`Passed`). All differences are modulo `W`; `Wrap` and
  `Difference` turn each into two cases without the modulus, and `Counted` bounds them by an interval, which
  is why an overflow of `os_tick` between start and timeout does no harm. With an interval of 0 `Passed` is false: a
  callback can put a timer that is due at once behind the loop of `os_timer_check`, and `os_timer_start` then
  misplaces others relative to it (`OsTimerZero.cfg`, section 5); hence the hypothesis.
* The refinement maps the ticks left (`Left`), the cursor and the order of starting to `TimerService`, in which there
  is no list, no timeout and no modulus. `os_timer_start` is `Start`, a tick counts every timer down, and each turn of
  `os_timer_check` fires the first of those that are due in the order of starting; the last one ends the tick.

**`OsHeapProofs`** proves for every size of the heap and of the headers, every set of tasks and every set of sizes that
are asked for:

| Theorem | Property | |
|---|---|---|
| `HeapIsSafe` | `HeapInv` | the inductive invariant |
| `HeapIsTiled` | `Tiled` | the blocks cover the array without gap or overlap and know their neighbours |
| `HeapBlocksOwned` | `BlocksOwned` | a block in use belongs to exactly one task and has the room it asked for |
| `LowestFound` | `LowestFree` | where nobody uses `os_realloc`, `lfree` is never behind a free block |
| `LossInductive` | `LossInv` | what holds of free neighbours and of `used_mem` in the middle of a call |
| `HeapLosesNothing` | `NothingLost` | between the calls free neighbours are united, `used_mem` is exact, and the heap is one block again when all is freed |

`Tiled` alone is not inductive: a task that has chosen a block and has not cut it yet relies on that block to be still
free and large enough. `HeapInv` adds `Exclusive`, which says that whoever is inside took `heap_sem` and is alone
there, and `Progress(t)`, what each step of a call may rely on: the block at hand is still free, or still the
caller's. The lemmas about the operators (`SplitTiles`, `AbsorbTiles`, `ForwardTiles`, `BackwardTiles`) say that
splitting a block and uniting it with a neighbour keep the array tiled and change no other block. For `Tiled` it does not
matter that the blocks are finitely many: each statement is about one block and its neighbours. The assumption is
`HeapAssumption`; the semaphore is the abstract one.

* `LowInv` adds to `LowestFree` that nobody is in the steps of `os_realloc` that cut a block in use: the rest of that block is
  free and `lfree` is not looked at there (`os_heap.c:382`, section 5). That is why the property has its hypothesis.
* `LossInv` says what `NothingLost` says at any time and not only between the calls: two free blocks are neighbours only
  where the task at `plug_holes` is, and `used_mem`, of which the code only adds and subtracts differences, is the sum of
  the sizes of the blocks in use after every step. When nothing is owned `lfree` is not the end of the heap; with no two
  free neighbours that leaves one block.
* *Sums.* `NothingLost` has the sum as the fold of the community modules, which takes the elements of a set in an
  order of its own. What the proof needs is that adding one element adds its size (`SumExists`, `SumGains`), that a sum
  depends only on the sizes (`SumSame`), and that one size can change (`SumResized`). They are proved without an induction:
  if a set of finite size failed, so would a least one (`LeastSubset`), and the one without its first element does not.

**`OsSwitchProofs`** proves for every number of tasks and every depth of nesting `SwitchIsToCurrent` (`RunsCurrent`: task
code with no switch pended has the registers of `os_current_task`) and `SwitchKeepsContexts` (`ContextsKept`: the
registers of each task are in the processor or at its own stack pointer). What makes them inductive (`SwitchInv`):
while `interrupt_switch_flag` is set, `interrupt_from_task` is the task whose context the processor has,
`interrupt_to_task` is `os_current_task`, and the exception is pended or has just begun. That is why
`os_arch_context_switch` must not write `interrupt_from_task` again while the flag is set.

**`OsObjectsProofs`** proves for every finite set of tasks, every number of mailbox slots, nodes, blocks and mutexes, every
set of timeouts, both flags, and every set of functions an application uses, of several objects at once too:

| Theorem | Property | Rests on | Hypotheses |
|---|---|---|---|
| `WaitInductive` | `WaitInv` | - | |
| `NobodyInVain` | `NobodyWaitsInVain` | `WaitInv` | |
| `EventBitsOnce` | `ConsumedOnce` | `WaitInv` | |
| `MutexesHeldExactly` | `HoldExact` | `MutexInv` | |
| `PrioritiesRestored` | `PriorityRestored` | `PrioInv` | no application uses `anyOrder` |
| `InversionBoundedHolds` | `InversionBounded` | `InversionInv` | in the property itself: `OneForever` |
| `MailboxImplemented` | `ImplementsMail` | `MailInv` | |
| `NobodySleeps` | `NobodySleepsOnMessages` | `WaitInv` | |
| `SuspendCountsExactly` | `SuspendCountExact` | `PoolInv` | waits for a block are for ever or not at all |
| `BlocksAccountedFor` | `BlocksExact` | `BlockInv` | |
| `NodesAccountedFor` | `NodesExact` | `NodeInv` | |
| `MessagesImplemented` | `ImplementsMessages` | `NodeInv` | |

Each has `IsFiniteSet(Task)` as a hypothesis too; the sets it counts over are sets of tasks. The hypotheses
in the last column can not be dropped: section 5 has what happens with `anyOrder` and without `OneForever`, and
`mpool_timeout` with a timeout.

* *The invariant of all.* `WaitInv` says what the five modules have in common and none can say of itself: the kernel's
  lists agree and everybody runs or is suspended (`Works`); the current task is suspended only on the way to its
  `os_sched` (`CurOK`); a task in a pending list is in the step that put it there and its answer has not been written
  yet (`PlacesOK`); a suspended task sleeps or is in a list (`SleepersOK`); what a call carries is what it is about
  (`AsksOK`); a mutex is taken exactly when it has an owner (`OwnersOK`). Because a task has one node for all its
  waits, a step on one object is harmless for the others only through `PlacesOK`.
* *The steps.* `Ends` and `Begins` say what a step does to those who wait: some are taken out of one list and READY, or one
  task is put in. `Shift` says once that both keep `WaitInv`. Every action is shown to be of one of the kinds
  (`MboxNext`, `MqueueNext`, `MutexNext`, `EventNext`, `MpoolNext`), and to leave alone what is not its own (`Aside`), so that the
  invariant of an object has to be looked at only for its own steps and for those that end a wait on it, as
  a timeout does.
* *Loops.* `os_event_put` serves the waiters one after the other, and what one is given depends on what those before it
  have cleared. `Serving` describes the state after some turns and `Dealt` the bits that have been given; as
  for `os_list_resume_all`, the least number of turns for which the claim fails takes the place of an induction.
* *Mutexes.* `HoldExact` is not inductive: a task that has been handed the mutex does not know it yet. `MutexInv` adds
  that the error it will read says so, exactly when it is the owner, and that nobody in the list is. `PriorityRestored`
  needs to know that the *first* mutex a task has got keeps the priority it was started with, however often it
  is raised before it takes the next one (`PrioInv`).
* *Inversion.* `InversionBounded` compares the running task with the waiters of a mutex; the invariant goes by way of its
  owner. `UrgentInv` says that no READY task is more urgent than the one that runs, unless that is about to call
  `os_sched`, and `RaisedInv` that an owner has the priority of its most urgent waiter or a more urgent one. The second is
  not inductive: `os_mutex_release` hands the mutex to the first of the list and raises it for nobody who
  still waits, so it has to be known that the list is in the order of the priorities (`Ordered`) when that
  happens, and not only when each task was queued. It is, since the only priorities that change are those of
  owners, and under `OneForever` an owner is in no list of a mutex and owns no second one (`OneEach`). The first is in
  danger where the code makes the running task less urgent and calls no `os_sched`: `os_mutex_release` with
  nobody in the list. `OwnerRaised` has that an owner for whom nobody waits has its own priority already, so that
  restoring it changes nothing. That it stays so when a waiter goes is because waiters go one way only,
  by being handed the mutex: no timer is linked for them (`MutexRaised`) and nobody resumes them. `RaisedTake`,
  `RaisedWait` and `RaisedRelease` are the three steps of `os_mutex.c` that change an owner or a priority; every
  other step leaves both alone (`RaisedAside`), and whoever it makes READY has an `os_sched` to follow.
* *Wakeups.* `NobodySleepsOnMessages` and `SuspendCountExact` compare the messages, slots or blocks that are there with the tasks
  that were resumed for one and have not run yet (`Woken`). Each step adds at most one to the first and then resumes
  somebody if there is anybody (`Serves`), or takes one and stops being such a task itself; a timeout does neither
  (`EnoughKept`).
* *Chains.* `Leads(next, p, null, s)` says that the pointer `p` leads to the cells of the sequence `s`, without a cycle;
  `Follow` and `Chain`, with which the properties are stated for TLC, compute `s`. The lemmas of `OsKernelProofs` say
  that at most one `s` fits, and what it becomes when a cell is linked at the head or at the end or is taken away. `Parted`
  says of the nodes of a queue that each is in the queue, in the free list or in the hands of one task, `Handled`
  that a node in somebody's hands has a message and, when it is to be linked at the end, no successor: `os_mqueue_put`
  writes `next` in its first critical section and links the node in its second.
* *The refinements.* The mailbox is mapped to the channel by reading `entry` messages of the ring from `out` on, modulo `Size`; the
  queue by reading the messages of the nodes from `msg_queue_head` on. A message that is in a node but not yet linked
  is one that the abstract channel's call is still in the middle of; a message enters the channel
  where the node is linked and leaves it where it is unlinked, and every other step is a stutter.

The inductive invariants are in modules that the MC modules extend, so that TLC checks them when they are named in a
`.cfg`: `SemInv` with `OsSem.cfg` and `OsSemFifo.cfg`, `StopInv`, `LinkInv` and `TimerInv` with `OsTimer.cfg`, those of `OsObjectsInv` with
`OsMessages.cfg` and `OsResources.cfg`, `LowInv` and `LossInv`, which are in `OsHeap`, with `OsHeap.cfg`. That is how they were
found; TLC refutes most wrong ones in seconds.

**Model-checked only**: liveness, since fairness and ENABLED are out of the prover's reach (`RoundRobin`, `SleepEnds`,
`DefunctCleaned`, `TimedTakeEnds`, `ClockReturns`, `TimedCallsEnd`, `MostUrgentGetsMutex`, `CallsEnd`). Every other property
of a run is stated by a theorem.

## 7. What is not modelled

* Vendor code and drivers (`src/lib/cmsis`, `src/board`): no state of the kernel.
* `os_error.c`: two accessors of `task->error`.
* Nested interrupts over the kernel state: there `os_isr_nest` is 0 or 1 and the handlers of devices are atomic.
  `OsSwitch` has the nesting, without the kernel state.
* A `slice_tick` of 0 (`KernelAssumption`): the counter wraps around and the slice is 2^32 ticks long.
* `os_idle_sethook`, `os_sched_sethook`, `os_timer_timeout_sethook`: hooks that do nothing by default.
* The cleanup function of a task is set, or not, before the task runs; it does not call the kernel.
* The bytes of a context: what PendSV saves and restores is one value. The registers of the FPU: with them `pendsv_exit`
  tests `r3`, which is not loaded when the switch was already handled (`arch/cortex_m4/context_gcc.S:154`). The
  fault handlers, and the ports for other processors.
* `os_tick_from_millisecond`, one expression; `os_calloc`, which is `os_malloc` of a product that may wrap around.
* `__ffs` and the two levels of the bitmap: `bitmap` is the set of the levels whose bit is set, and the operators
  set and clear the bits that the code sets and clears.
* The sizes of messages and blocks, which the code copies unchecked, and the widths of counters that only an
  absurd number of calls would exceed (`value`, `hold`).
* By lines, most of the repository is vendor code and drivers, with no state of the kernel: what is modelled is
  `src/lib/os/` with the part of the ports that switches.

## 8. Plan

Done: `OsList`, `OsKernel`, `OsTask`, `OsTimer`, `OsSem` with their abstract specifications; `OsMbox` and `OsMqueue` over
one `Channel`; `OsMutex`, `OsEvent`, `OsMpool`, and `OsObjects`, in which tasks hold a mutex while they wait for a
message; `OsHeap`; `OsSwitch`; the proofs of section 6.

Left: `__ffs` and the two-level bitmap against the least element of a set, and `os_tick_from_millisecond`.
