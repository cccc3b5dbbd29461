# TASTE runtime for SAMV71/SAMRH71 on RTEMS: a TLA+ development

The runtime sits between the code that the TASTE tools generate (threads,
queues, a broker) and RTEMS on a single-core ARM Cortex-M7. It is small, mostly
without locks, and called from tasks of many priorities, from the clock
interrupt, from a timer-counter interrupt and from a DMA interrupt. This
directory models the parts whose correctness depends on the order in which
those run. Source paths below are relative to `src/src/`.

## 1. Inventory

| Component | State | Operations | Interacts with |
|---|---|---|---|
| **Elapsed time**, `Hal/Hal.c` | `reloads_counter`, `reloads_modified_flag`, the 16-bit counter of the timer channel | `Hal_InitTimer`, `timer_irq_handler`, `Hal_GetElapsedTimeInNs` | called by `Monitor` (timestamps, usage), `ThreadsCommon` (execution times), user tasks; preempted by its own interrupt |
| **HAL semaphores**, `Hal/Hal.c` | `created_semaphores_count`, `hal_semaphore_ids` | create, obtain, release | the kernel's binary semaphores |
| **Broker lock**, `BrokerLock/BrokerLock.c` | one kernel semaphore | acquire, release | every call of the broker |
| **Requests**, `ThreadsCommon/ThreadsCommon.c` | `maximum_queued_items`, the overflow callback, execution-time statistics | `ThreadsCommon_SendRequest`, `ThreadsCommon_ProcessRequest` | the kernel's message queues, `Monitor`, the receiving thread |
| **Cyclic requests**, `ThreadsCommon/ThreadsCommon.c` | `cyclic_requests_count`, `cyclic_request_data` | `ThreadsCommon_CreateCyclicRequest`, `timer_callback`, `schedule_next_tick` | kernel timers, the same queues |
| **Activation log**, `Monitor/Monitor.c` | `is_frozen`, `activation_entry_counter`, `activation_log_buffer` | indicate activation/deactivation, get, freeze, unfreeze, clear | written by every thread around every request; read by an operator task |
| **Usage statistics**, `Monitor/Monitor.c` | per-thread and idle usage data, stack high-water marks | `Monitor_MonitoringTick`, `Monitor_GetUsageData`, `Monitor_GetIdleCPUUsageData`, `Monitor_GetMaximumStackUsage` | kernel thread iteration |
| **DMA driver**, `Xdmac/xdmad.c` | per-channel `state`, `fCallback`, `pArg`; `xdmad_lock`; the controller's registers | allocate, free, set callback, prepare, configure, start, stop, is-done, `XDMAD_Handler` | tasks, the DMA interrupt, the controller |
| **DMA interface table**, `Xdmac/xdma_hardware_interface.c` | none (a constant table) | lookup | the DMA driver |
| **Fault handler and death report**, `FaultHandler/` | the report in memory that survives a reset, the vector table | `FaultHandler_Init`, `Fault_Handler`, `Fault_HandlerTail`, `DeathReportWriter_GenerateDeathReport` | the data cache, the reset controller, the boot software |
| **Core clocks**, `SamV71Core/`, `SamRH71Core/` | clock registers, the computed frequencies | presets and validation by the preprocessor, `Sam*Core_Init`, `Sam*Core_Get*ClockFrequency` | everything, once at boot |
| **Watchdog, idle task, sleep**, `Hal/Hal.c` | `idleTaskIsWatchdogEnabled`, the watchdog's registers | `Init_setup_watchdog`, `Hal_ResetWatchdog`, `Hal_IdleTask`, `Hal_SleepNs` | kernel, fault handler |
| **Boot helper**, `BootHelper/` | none | `BootHelper_GetResetReason` | reset controller |
| **Application skeleton**, `app/`, `Mocks/` | none | placeholders for generated code | |

What is hard here:

- *interleaving*: tasks preempt each other anywhere, and nearly nothing is
  locked. The activation log, the maximum of the queue monitor and the flag of
  the elapsed-time service are all read and written in several steps;
- *interrupts against tasks*: the overflow of the timer counter falls between
  two reads; the end of a DMA transfer falls between a stop and its bookkeeping;
- *boundaries*: tables at their limit, 32-bit tick counts that wrap, counters
  at a multiple of a buffer's size;
- *crashes*: a fault, a second fault in its handler, or a reset at any moment,
  with the report half written and half of it still in the cache;
- *liveness*: a loop that waits for a quiet moment, a timer that has to arm
  itself again, a DMA channel that must not stay busy for ever, a lock.

`PROJECT.json` lists the hazards line by line with the properties that would
catch each of them. What makes each component correct:

- elapsed time: every answer lies, in nanoseconds, between what the clock showed
  at the call and at the return; the loop ends; the conversion never overflows;
- semaphores: exclusive, served, and creation fails without a trace;
- requests: the sender's answer and the overflow callback tell the truth; the
  recorded maximum is one that was reached, and misses nothing visible;
- cyclic requests: each comes an interval after the last, for ever, across the
  wrap-around of the tick count, and where they end it is known why;
- activation log: it holds and counts what was written; freezing and clearing
  take effect;
- DMA: one holder per channel whoever polls; as long as nobody preempts the
  handler, "done" means idle and callbacks reach the holder; an end is noticed;
- usage: an undisturbed report is true, a disturbed one not absurd; the stack's
  mark lies between what was there at the call and what is there at the return;
- death report: whole or not at all, of one fault only, and never missing after
  a handler that came to its end; a fault leads to a reset;
- core clocks: a preset runs at the frequency it names, and the frequency that
  all times are derived from is the one the processor runs at, once the clocks
  run with what their registers say.

## 2. Modules

| Module | Models | Runs |
|---|---|---|
| `MonotonicClock` | abstract: one clock, answers between call and return | implemented by `ElapsedTime` |
| `ElapsedTime` | timer counter, its interrupt, `Hal_GetElapsedTimeInNs` | `clock`, `clock_preempted` |
| `ElapsedTimeProofs` | TLAPS proofs about `ElapsedTime` | |
| `HalSemaphores` | HAL semaphores and the broker lock over kernel semaphores | `semaphores`, `semaphores_full` |
| `RequestQueue` | senders, timer, receiving thread, queue monitor | `requests` |
| `RequestQueueProofs` | TLAPS proofs about `RequestQueue` | |
| `CyclicTimers` | cyclic requests over the kernel's tick count | `cyclic` |
| `CyclicTimersProofs` | TLAPS proofs about `CyclicTimers` | |
| `ActivationLog` | the log, its writers and an operator | `log` |
| `ActivationLogProofs` | TLAPS proofs about `ActivationLog` | |
| `Xdmad`, `MCXdmad` | the DMA driver with the controller | `dma`, `dma_end` |
| `XdmadProofs` | TLAPS proofs about `Xdmad` | |
| `UsageStatistics` | execution-time, idle and stack usage and its reports | `usage` |
| `UsageStatisticsProofs` | TLAPS proofs about `UsageStatistics` | |
| `DeathReport` | fault handler, report, cache, resets, watchdog, boot | `death_report` |
| `DeathReportProofs` | TLAPS proofs about `DeathReport` | |
| `ClockTree`, `MCClockTree` | clock macros, presets and computed frequencies of both cores | `clocks` |
| `HalProofs` | TLAPS proofs about `HalSemaphores` and `ClockTree` | |

Definitions carry the name of the C function or of the shared access that they
model. An action is one access of shared memory where interleaving matters, and
a whole function where it does not: `CallGetElapsedTime`, `ResetFlag`,
`LoadReloads`, `SampleCounter`, `CheckFlag` are the lines of one loop, whereas
`schedule_next_tick` runs inside the clock interrupt and is part of
`timer_callback`. Locals of a function in progress are functions of the task.
Definitions with a suffix after an underscore that no function has, such as
`CheckFlag_NoLoop`, or introduced as a mutant are mutated forms: plausible
mistakes in the code, used to see that each property would notice one. They are part of no specification.
Variables marked *history* in a module have no counterpart in the code; they
record what a property speaks of and guard nothing.

### ElapsedTime
`counter`, `wraps` and `irqPending` are the hardware; the rest is the state of
`Hal.c`. A reader is a task named by its priority: it runs only while no reader
of a higher priority is inside the service. The interrupt runs between any two
accesses, except that an overflow that was pending when the task sampled the
counter (`imminent`) has been handled when it evaluates the loop condition:
reading a peripheral takes longer than the entry into an interrupt. Every
overflow is handled before the counter overflows again, which is
a whole period later.

Time is counted in ticks and converted to nanoseconds by `ToNs`, in the code's
own steps and with the code's width: `Uint64` cuts every product and sum to two
halves of 32 bits. `Half` and `ns_per_tick_q32` are small in the runs and
arbitrary in the proofs. `ScaleAssumption` says that the time at the roll-over
fits in 64 bits of nanoseconds, which a timer of 15.3 kHz or more satisfies (the
code's runs at megahertz). The counter's period is a constant that is either
`TICKS_PER_RELOAD` or one more, because the code multiplies by 65535 while a
16-bit counter that overflows has 65536 values; the properties measure time in
the code's own scale and so do not speak of the tick that may be lost.

### HalSemaphores
The Init task creates semaphores, then the tasks start (`Hal.h` asks for this
order). The kernel may refuse any creation. `answers` is what the calls of
`Hal_SemaphoreCreate` returned, in order, 0 for none. `holds` is what a task was *told*,
`owner` what the kernel knows: `MutualExclusion` compares the two. Tasks take
semaphores in order and the broker lock last, which is an assumption about
the users; without it tasks deadlock, and neither the code nor a property
claims otherwise.

### RequestQueue
Tasks by priority, as above; the receiving thread is one of them and gives way
when it waits or when the user's function suspends it. `Send`, `CountQueued`,
`CompareWithMaximum`, `StoreMaximum`, `TestOverflow` and `CallOverflowCallback`
are the accesses of `ThreadsCommon_SendRequest` in order. The kernel may find the
queue full, or refuse the message for another reason (`Refuse`). Setting the
callback is an action of any task at any time, and as `Monitor.h` does not forbid
null, so is taking it back. The code reads the pointer once to test it and once
to call it; if it was taken back in between the call goes through null, which
this core turns into a fault: the sender comes to "fault" and nothing runs any
more (`Faulted`). `takenBack` records that the callback was taken back between a
drop and its report.

### CyclicTimers
`now` is a 32-bit count (modulo `Modulus`). The kernel counts `remaining` down
and refuses a delay of zero. In a callback, reading the count and arming are one
step, inside the clock interrupt; in the Init task they are two, and one tick may
fall between them (`delayed`). Times that are no multiple of a tick are truncated
when the timer is created, and a first wake-up at or before the present is armed
with zero ticks, that is never, or with nearly a round of the count. Those
timers are created in the run as well, but `punctual` does not contain them. The
kernel may refuse the creation of a timer, after which the entry is used again
(`RefuseCreation`). `slipped` contains the timers that lost a tick at their
creation: all catch up in their first callback but those with an interval of a
single tick, for which the delay comes out as zero and is refused. A timer is
`Stopped` once that has happened; the properties say that this, and nothing
else, ends the requests of a punctual timer.

### ActivationLog
`handle_activation_log_cyclic_buffer` evaluates the slot for each field anew and
increments the counter with a load and a store. C leaves open whether the slot
of the timestamp is evaluated before or after the clock is read; both are one
step here, as the clock is the only thing read in between. `clashes` records
whether, since the last clear, a thread began an entry within another's or the
log was cleared within an entry. An index of -1 stands for `UINT32_MAX`.

### Xdmad
The channels of the controller (`running`, `draining`, `CIS`, `CIM`, `GIM`) as
the driver uses them, and the driver's table. Tasks interleave in any order, for
the code that drives DMA is not in this repository. `XDMAD_Handler` is run access
by access: the pending channels (`CallHandler`), the enabled ones
(`ReadGlobalStatus`), and for each pending channel the test for a free one
(`CheckFree`, which ends the loop), the status, which is cleared by being read
(`ReadStatus`), the masks (`ReadMask`, `ReadListMask`), a write of the state for
each end (`MarkDone`) and the callback (`CallBack`). In the interrupt no task runs
in between, but the controller works on; in tasks that poll, through
`XDMAD_IsTransferDone`, every other task may run between any two of them.

Several tasks that poll are therefore in the model and in the run (`tasks`, the
users that exist, is one or several). Types and ownership hold for them as well.
`DoneMeansIdle`, `FreeChannelsAreQuiet` and `CallbackIsHolders` do not: they
are claimed where the handler is not preempted by a call of the driver, that is,
in the interrupt or in a single task that polls (`HandledAlone`); what goes wrong
otherwise is in section 4. `Transfers` depends on the same condition, to keep the
run small: every kind of transfer if the handler handles alone, single blocks
otherwise.

A user follows the usage notes at the top of `xdmad.c`, but may start without
having provided a callback; `provides` says whether it has. Error flags, flushing,
suspension and the contents of descriptors are left out.

### UsageStatistics
Three quantities that share no state: the execution times of a thread, the usage
of the CPU by the idle task, and a thread's stack; a behaviour follows one of
them. An update folds its sample into minimum, maximum, mean and count, a report
copies them field by field, and either may be preempted between any two fields.
Loads and stores of 64 bits are single: on this core an interrupted one is
started again. Numbers are exact, multiples of `1/SCALE`; rounding of floats and
doubles is left out. The minimum of an execution time starts at the largest
value, which the generated `threads_info` sets; that of the idle task at zero
(`Monitor.c:49`), where it stays. The stack is searched word by word while its
thread runs; a word that the thread writes is taken to differ from the pattern.
The answers for threads that are not found, or without a stack area, are left out.

### DeathReport
`report` is what the processor sees and `memory` what would survive a reset; a
line of the cache may be written back at any moment. The fields of the report
hold the number of the fault they were written for, so that a report put
together from two faults shows. A checksum is the contents it was computed over:
collisions of a CRC of 16 bits are outside of the model. `Fault` can hit tasks,
start-up code and the handler itself, with the processor's rules for escalation
and lock-up. The watchdog may have been settled by the boot software, its mode
being writable once. The boot software is external: it takes a report whose
checksum fits and that is not marked as seen, marks it, and may or may not seal
it again.

### ClockTree
A build is a set of macros. The preprocessor's chains become sets of options and
a default per macro (`Macro`), since every chain rejects two macros of its group.
`Compile` rejects a build or settles the configuration; `Pmc_setConfig`, which is
external, works in three stages. Each writes its registers (`pmc`) and waits for
the hardware (`running`) to take them over. A stage may time out: then any of its
registers may have been written and any of those taken over, the stages that
follow are skipped, and what is still outstanding may be taken over at any later
moment or never (`TakeOverLate`). The runtime computes its frequencies from the
registers. Whether the assertion on the result ends the boot depends on the
build, so both continuations exist. The hardware does not switch to a PLL that
is off, and a processor whose PLL is switched off stops (`Alive`). The boot
software may leave the reset settings or a PLL of its own; whatever it leaves,
the processor runs with it (`BootAssumption`).
The crystals have the rates that the sources assume by default, 12 and 10 MHz.
The specification is called `ClockSpec` and its parts likewise, so that
`HalProofs` can speak of it beside that of the semaphores.

## 3. Runs

`pass` runs check properties that hold. `violation` runs check one statement of
a header or comment that the code does not keep.

| Run | Instance | Shows |
|---|---|---|
| `clock` | 1 reader, period 5 for 4 ticks per reload, 4 overflows, halves of 4 bits | the answer lies between call and return; the loop repeats at most once per overflow; `MonotonicClock` is implemented |
| `clock_preempted` | 2 readers | **violates** `NeverBehind`: the flag is shared |
| `semaphores` | table of 2, 3 creations with refusals, 3 tasks | creation is clean and answered truthfully, holding exclusive, no ring of waiting tasks, every waiter served |
| `semaphores_full` | table filled | **violates** `NeverRefused` |
| `requests` | senders below and above the thread, queue of 2, 3 sends each, 2 timer ticks, a callback set and taken back at any time | truthful answers, drops reported, the maximum is right |
| `cyclic` | 2 timers, count modulo 16, intervals of 1, 2, 2.5 and 7 ticks, offsets of 0, 1.5 and 5, a tick lost at creation | periodic across the wrap-around, armed, for ever, unless an interval of one tick lost a tick at creation |
| `log` | writers below and above the operator, 2 slots, 4 entries | contents, count, freezing |
| `dma` | 1 or 2 users, 1 or 2 channels, interrupt and polling, single blocks and lists, stops, with and without callbacks | ownership whoever polls; "done", quiet free channels and callbacks where the handler is not preempted |
| `dma_end` | 1 or 2 users, 2 channels, interrupt, one event unmasked, users wait for a stop | no started channel stays busy |
| `death_report` | 2 faults, 3 builds, resets, write-backs and watchdog periods at any moment | whole reports of one fault only, none missing, and a reset after every fault |
| `usage` | 3 samples of 3 sizes; a stack of 4 words | what a report may show, disturbed and undisturbed |
| `clocks` | every build of up to 4 macros for both cores, with values at and beyond each bound, stages that time out | presets give their frequency, computed frequencies are true once registers and hardware agree |

Why the bounds are enough. *clock*: a call can meet an overflow in each of its
accesses and the pending one from before, and the loop go round again several
times. *semaphores*: with three tasks a queue forms behind a holder while others
are held; a refused creation can come before and after a granted one; the
table's limit is met both exactly and by one call beyond. *requests*: the queue
fills, drops happen in both senders, one of which the thread can overtake and
one not, and the callback can be set and taken back between any two accesses.
*cyclic*: the intervals are the shortest, for which a lost tick matters, the
next, one that is truncated, and one of nearly half a round; the count wraps
several times, and the state space is complete: nothing bounds the number of rounds, as the state repeats; `MaxAge`
only caps the age of requests that are overdue. *log*: twice the buffer's size,
so an entry overwrites another and the counter passes a multiple of the size.
*dma*: with one channel one user is refused, with two both work at once, and
one handler call serves both; two users that poll preempt each other's handler
at every access, and one does not. *death_report*: two faults are one in the handler
of the other or one after the other, with a boot in between that has taken the
first; the proofs are for any number. *usage*: three samples are enough for a
report to show the minimum of one, the maximum of another and the mean of a
third state; with four words a thread can write below and above the word that
is looked at. *clocks*: four macros are a preset with up to three more, or a
source, a multiplier, a divider and a prescaler of one's own. In bounded runs
the end of a bound is a state where a component rests, never a deadlock, since
tasks keep reading, ticking or setting. The deadlock check is off in two runs:
in `clocks` the boot ends, and in `requests` a call through null ends everything.

### Fairness
- `HalSemaphores`: strong fairness of releasing. Critical sections end; that is
  a demand on the users, who alone can make `WaitersServed` true. Strong,
  because a task may wait for a further semaphore in between.
- `CyclicTimers`: the clock interrupt keeps coming, the kernel calls the
  callbacks of the timers that it finds expired, and the Init task finishes the
  creation it is in.
- `Xdmad`: the controller finishes blocks and stops, interrupts are served and
  run to their end, and no task stays inside a call (strong, because
  the interrupt disables it again and again). *Nothing* makes a user
  call the driver: `EndIsNoticed` must follow from the interrupt alone.
- `DeathReport`: the handler goes on, as it runs with interrupts disabled, and
  the watchdog's clock runs. Nothing makes a task or the idle task feed the
  watchdog, nor the boot software finish.
- All other modules check safety only.

## 4. What the violations show

1. `clock_preempted`. A task between `LoadReloads` and `CheckFlag` is
   interrupted by the overflow and then preempted by a task that resets the flag
   (`Hal.c:213`). Its stale reloads pass the check, and it returns a time nearly
   a counter period before its own call. One flag per caller, or comparing two
   loads of `reloads_counter`, would do.
2. `semaphores_full`. `Hal_SemaphoreObtain` and `Hal_SemaphoreRelease` test the
   *creation* limit (`Hal.c:263`, `Hal.c:274`): once the table is used to its
   last slot, no semaphore works.

Noticed while modelling, without a run of their own:

- *requests*: a sender preempted between comparing and storing the maximum
  (`ThreadsCommon.c:181-183`) stores its older, smaller count over a larger one;
  a request of the cyclic timer that finds the queue full is lost without a
  report; a receiving thread of a higher priority empties the queue before the
  sender counts, so the maximum misses it. A callback that is taken back between
  the test and the call (`ThreadsCommon.c:187-188`) is called as null; one that is
  taken back before the test leaves a drop unreported, about which the sender is
  told all the same. `DropsReported` makes an exception of that, and nothing
  more.
- *cyclic requests*: the Init task reads the tick count (`ThreadsCommon.c:65`)
  and arms the timer afterwards. If the clock ticks in between and the interval
  is a single tick, the first request is a tick late, the callback computes a
  delay of no ticks, the kernel refuses it, and the interface is never called
  again, whereas `ThreadsCommon.h:45` promises periodic requests. The properties
  of `cyclic` say so: with two ticks or more the timer catches up, with one it
  sends once and stops. Intervals are truncated to ticks.
- *activation log*: the index of the latest entry, `(counter % size) - 1`, is
  `UINT32_MAX` at every multiple of the size (`Monitor.c:313`); entries are torn
  by preemption, and a clear is undone by a counter loaded before it.
- *DMA, several tasks that poll*: one may be preempted between reading and
  clearing a channel's status and writing `DONE` (`xdmad.c:328-333`), while the
  channel's holder stops it, frees it, and the next holder starts it again: the
  new transfer is reported done while it runs, and its holder may free a running
  channel. When such a channel ends, it is free and pending, and the handler ends
  its loop there (`xdmad.c:399`), passing over the channels that follow. If the
  channel is still free when the late `DONE` comes, it is held by nobody and
  never allocated again. Preempted before the callback (`xdmad.c:405-406`), it
  calls a user that no longer holds the channel. This is why three properties
  ask for `HandledAlone`.
- *DMA, otherwise*: the handler reads the enabled channels before a channel's
  status; the last block of a list may end in between (`xdmad.c:378`). With the
  end of each block unmasked its flag is then cleared as that of a block before,
  and the channel stays busy. With only the end of the list unmasked this cannot
  happen: a pending flag then means that the channel was disabled before the
  enabled ones are read, which is the setting of `dma_end`. A freed channel keeps
  its callback, and a later holder that provides none has its events told to the
  user before it; `CallbackIsHolders` speaks of holders that have provided one.
  `XDMAD_StopTransfer` returns before the channel has stopped. If a user restarts
  the channel at once with the end of disable unmasked, the flag of the stop is
  taken for the end of the new transfer, which is reported done while it runs.
- *elapsed time*: the reload scale of 65535 for a period of 65536; the roll-over
  of `reloads_counter` after about 174 days at a master clock of 150 MHz.
- *sleep*: `Hal_SleepNs` multiplies seconds with the frequency of the master
  clock and passes the product to the kernel as clock ticks (`Hal.c:234-237`),
  which are milliseconds; beyond 2^32 the cast is undefined.
- *usage*: the minimum usage by the idle task starts at zero and stays there.
- *death report*: the end of the stack is read as the *value* of the symbol
  `bsp_section_rtemsstack_end`, not taken as its address
  (`DeathReportWriter.c:38`), so the length is whatever lies there, capped; the
  address of the watchdog in `Fault_Handler` is the same for both cores
  (`FaultHandler.c:122`). The bus and memory faults are not enabled and arrive
  as hard faults, in whose handler any further fault locks the processor up.
- *core clocks*: the test of `SAMRH71_USE_INTERNAL_RC` is the wrong way round
  (`SamRH71Core.c:219-230`): it rejects the macro with a preset, where it has an
  effect, and accepts it without one, where it has none. Two presets at once are
  not rejected. The slow clock as a source is computed as the main clock. The
  tick's reload value is the number of cycles, not one less, and it is zero for a
  core clock below a kilohertz. Without assertions, a stage that timed out may
  leave registers that the hardware has not taken over; the frequencies are then
  computed from settings that the processor does not run with
  (`SamV71Core.c:511-516`), and only their ranges are claimed, until the hardware
  has caught up.

## 5. Proofs

By TLAPS, for every value of the constants that satisfies the named assumptions
of the modules.

### `ElapsedTimeProofs`

| Theorem | Assumes | Property |
|---|---|---|
| `TypeCorrect` | | `TypeOK` |
| `ConversionIsExact` | | `ToNs(t) = Nanoseconds(t)` for every time `t` of the clock |
| `RetryBudgetCorrect` | | `RetryBudget` |
| `NeverAheadCorrect` | `NoRollover` | `NeverAhead`, for any readers |
| `NeverBehindCorrect` | `NoRollover`, `OneReader` | `NeverBehind` |
| `ImplementsMonotonicClockCorrect` | `NoRollover`, `OneReader` | `ImplementsMonotonicClock` |

`ConversionIsExact` is arithmetic: no product of `ToNs` reaches the square of
`Half` (`ScaleAssumption`), and dropping the low half of the low product drops
less than a nanosecond, exactly as the division of the whole product does. With
`NanosecondsMonotone` the bounds in ticks become bounds in nanoseconds.

`NoRollover` says that `reloads_counter` is wide enough for the overflows of the
behaviour; beyond it the clock really jumps back. `OneReader` is what
`clock_preempted` shows to be needed.

The argument. `CountsOverflows` relates `reloads_counter` to the hardware: it is
the number of overflows, or one less while the interrupt is pending.
`NeverAhead` is not inductive: what a reader holds in its locals may be
returned later, so the invariant adds that the reloads it has loaded are no
more than the overflows, and the time it would compute is no more than the
clock's, which itself never decreases (`ClockMonotone`). That `reloads` and
`ticks` of a call are each at most those of *some* moment is not enough; they
must be taken in this order, reloads first. For `NeverBehind` the invariant says
that as long as the flag is clear the reloads a reader has loaded are those of
the handler, and that its sample belongs to them unless an overflow was pending
when it was taken, which raises the flag before the check.
This is where another reader's reset of the flag breaks the proof. The
refinement follows from both: a return answers with a value between
`StartTime` and the present, a tick of the hardware is an `Advance` or, when the
period is one longer than the scale, a stutter.

### `HalProofs`

| Theorem | Of | Property |
|---|---|---|
| `TypeCorrect` | `HalSemaphores` | `TypeOK` |
| `TableHoldsCreatedCorrect` | `HalSemaphores` | `TableHoldsCreated` |
| `MutualExclusionCorrect` | `HalSemaphores` | `MutualExclusion` |
| `NoDeadlockCorrect` | `HalSemaphores` | `NoDeadlock` |
| `PresetGivesItsFrequencyCorrect` | `ClockTree` | `PresetGivesItsFrequency` |
| `FrequencyIsTrueCorrect` | `ClockTree` | `FrequencyIsTrue` |

The semaphores.

For any tasks, table size and number of creations: `MutualExclusion`, which says
that what a task was told agrees with what the kernel knows, is inductive
together with the types: only a task that has been told that it holds a
semaphore releases it, and by the property itself that task is the owner.
`TableHoldsCreated` says of the table, of the kernel and of the answers that
they name the same semaphores, each once; it is inductive, as the slot that a
creation fills and the answer it gives are both new (`AnswersSay`).
`NoDeadlock` says that if tasks wait, then a task that
does not wait can give back a semaphore for which one of them waits, and that
the calls do not refuse it because the table is full. It is what `WaitersServed`
needs besides fairness, for any number of tasks and semaphores; the run
`semaphores` checks both for three tasks. It rests on the order in
which tasks take semaphores (`InOrder`, the assumption about the users): the
owner of the last semaphore for which anybody waits cannot itself wait.
`WaitInv` says that nobody waits for a semaphore without an owner, in two places
or out of order, and that the table has room while its semaphores are in use;
when a release hands a semaphore to its first waiter, that this task waits
nowhere else (`OneQueue`) is what keeps the order.

The clocks. For builds of any number of macros with any values (the run has four
macros and the values around each bound), any settings that the boot software
may leave, any time-outs, and any tick that the reload value has room for. Three
assumptions: `CandidatesAssumption`, that the preset macros are those of the core;
`BootAssumption`, above; and `TickAssumption`, that the cycles of a tick at 756
MHz, the fastest that the macros can ask for, fit in 24 bits, that is, a tick of
up to 22 ms (the code's is one). That the reload value fits rests on it.

Neither property is inductive. `BootInv` says of each stage which groups of
settings the registers hold of the build's configuration if nothing has failed
(`TakenOver`); that registers and hardware hold, group by group, options of the
macros (`Held`), which an accepted configuration consists of
(`ConfigurationIsSound`), so that mixtures of the boot software's settings and
the build's, after a stage that timed out, are still settings for which the
arithmetic is in range; that both are the same unless a stage failed; that the
processor has a clock; and that the frequencies were computed from the registers
as they are. `PresetGivesItsFrequency` follows for
a boot without time-outs, as a preset excludes all macros of its groups and the
hardware then runs with the preset (`SamV71Core_PresetFrequency`,
`SamRH71Core_PresetFrequency`). `FrequencyIsTrue` is arithmetic on top of it: the
two divisions with a multiplication in between lose less than
`div * (mul + presc)` (`TwoRoundings`), the split product of the reload value
loses nothing that matters (`ReloadFits`), and the slowest clock, 4 MHz divided by
255 and 64, divided by 16 more, is not zero (`FrequencyRange`). The ranges are
those of the registers and need no hypothesis; that the frequency is the
processor's asks for hardware that agrees with the registers and for another
source than the slow clock: see the end of section 4.

### `RequestQueueProofs`

| Theorem | Property |
|---|---|
| `TypeCorrect` | `TypeOK` |
| `MaximumWasReachedCorrect` | `MaximumWasReached` |
| `AnswerIsTruthfulCorrect` | `AnswerIsTruthful` |
| `MaximumIsPeakCorrect` | `MaximumIsPeak` |
| `DropsReportedCorrect` | `DropsReported` |

For any senders, length of the queue and number of requests, with or without a
timer. A sender may store a count that it took long ago, so `MaximumInv` says of
every count taken that the queue has held so many, and that no sender is about
to store `UINT32_MAX`, the answer for a queue that is not mapped; the latter
makes the type of the maximum depend on the same invariant. `AnswerInv` says of
a call under way that its result agrees with what became of the request
(`ResultIsTruthful`), whatever happens to the callback meanwhile. `PeakInv`
follows a call that nothing has overtaken from the count to the store: what it
holds and the maximum so far are, together, the peak. `DropsInv` says that as long as the callback was not taken back over a
drop, the drops are no more than those reported and those of senders on their way
to the callback, of which there is one each, and that such a sender still finds
the callback.

### `CyclicTimersProofs`

| Theorem | Property |
|---|---|
| `TypeCorrect` | `TypeOK` |
| `SendsOnTimeCorrect` | `SendsOnTime` |
| `ArmedForWakeupCorrect` | `ArmedForWakeup` |

For any number of timers, any width of the tick count, any length of a tick, any
intervals, those of a single tick included, and any offsets. The inductive
invariant is `PeriodInv`: a punctual timer that has not stopped has ticks left
until it fires which, added to the present, lead to its `next_wakeup_ticks`
modulo the range of the count, later by a tick if it was delayed; and its age is
the interval without the ticks left. One that has stopped is neither due nor
armed, and stays so. Neither property implies this alone: the first speaks of
time that never wraps, the second of counts that do. A callback keeps it because
the delay it computes is, modulo the range, the interval less the delay
(`CatchesUp`), and numbers in range that are equal modulo the range are equal
(`SameMoment`); the delay is zero only for an interval of one tick that was
delayed, which is what `Stopped` says. The lemmas on remainders are proved from
division with remainder, which is all that the provers know of `%`.

### `XdmadProofs`

| Theorem | Assumes | Property |
|---|---|---|
| `TypeCorrect` | | `TypeOK` |
| `OneHolderCorrect` | | `OneHolder` |
| `DoneMeansIdleCorrect` | `UnmaskedWithCare` | `DoneMeansIdle` |
| `FreeChannelsAreQuietCorrect` | `UnmaskedWithCare` | `FreeChannelsAreQuiet` |
| `CallbackIsHoldersCorrect` | `UnmaskedWithCare` | `CallbackIsHolders` |

For any users, channels and transfers. The first two hold however many tasks poll;
the last three say in their statements that the handler handles alone
(`HandledAlone`, section 2). `UnmaskedWithCare` says that users never unmask the
end of disable; without it `DoneMeansIdle` fails (end of section 4).

Types and allocation. The types need `PendingLeft`, that a call of the handler has
a pending channel to look at until it ends. `OneHolder` is not inductive: a user
about to allocate the channel it has found could meet one that has allocated it
in between. `AllocInv` adds that only the holder of `xdmad_lock` searches, that
nobody takes the channel it has found until it claims it, and that a channel that
is held is not free. It survives the handler, which takes no lock and may be
preempted anywhere, because that never makes a channel free (`HandlerKeeps`).

Transfers and callbacks, with or without waiting for a channel that is asked to
stop. The invariant `TransferInv` follows a channel through the steps of its
holder (`HolderInv`). `AtRest`: from its allocation to the enabling write, and
again once it is over, no block of the channel can end and only the masked flag
may be pending; so what the handler finds pending belongs to a transfer that the
present holder has started (`Started`), who has then set the callback if it
provides one. `ChannelInv` says what holds of a channel whoever holds it, in
particular that one marked as done has stopped and has no flags left. `CallInv`
follows a call of the handler through its accesses: the channels still to be
looked at are started, those it takes for stopped have stopped, and the status of
one that it is about to mark is cleared. That rests on `HandledAlone`: while a
call is under way no user takes a step (`NobodyHandles`), so it is only against
the controller that what a call has read must stay true. A step disturbs one
channel and its holder at most (`Elsewhere`).

### `ActivationLogProofs`

| Theorem | Property |
|---|---|
| `TypeCorrect` | `TypeOK` |
| `BufferHoldsRecentCorrect` | `BufferHoldsRecent` |
| `SizeIsNumberOfEntriesCorrect` | `SizeIsNumberOfEntries` |
| `NoPhantomEntriesCorrect` | `NoPhantomEntries` |
| `FrozenLogComesToRestCorrect` | `FrozenLogComesToRest` |

For any threads and priorities, any size of the buffer and any number of
entries. None of the five is inductive, as each must say what a thread that has
been preempted is still going to do. `CountInv`: the counter, and what a thread
is about to store in it, lags behind the entries begun by at least the entries
still being written; the priorities are what makes it hold, because a thread
that stores has preempted all the others that write (`RunningIsTop`).
`FrozenInv`: a thread has completed an entry in a frozen log only if it is no
longer writing. `PhantomInv`: up to the size of the buffer, the counter and what
is about to be stored do not exceed the entries completed, unless a clear came in
between. `BufferInv`: without clashes one thread writes at a time, into the slot
of the counter, which holds as much of its entry as it has written, and every
other slot holds the entry that the counter says; that writing a field damages
none of them rests on `SlotsDiffer`, that two counters less than the size of the
buffer apart have different slots.

### `UsageStatisticsProofs`

| Theorem | Property |
|---|---|
| `TypeCorrect` | `TypeOK` |
| `ReportIsOrderedCorrect` | `ReportIsOrdered` |
| `UndisturbedReportIsTrueCorrect` | `UndisturbedReportIsTrue` |
| `StackReportBetweenCorrect` | `StackReportBetween` |

For any samples below the largest 64-bit value, any number of them and any size
of the stack. `ScaleAssumption`, that the unit divides every mean, is where
rounding is left out. Even the types are not inductive: that the mean stays in
its range needs `UpdateInv`, which says what the fields stand for in the middle
of an update, each field being that of the samples folded completely and, from
its own step on, of the sample under way: `MinimumIsLeast`, `MaximumIsLargest`,
`MeanIsExact` (an equation without a division, so that the division of the next
update is exact, `MeanStaysExact`) and `MeanIsBetween`. `ReportInv` follows the copy:
`CopiesAreFresh`, what was copied is still there unless an update's step fell
in between; `CopiesAreOrdered`, what holds even then: the minimum only falls and the
maximum is copied before it, so a copied maximum is never below the minimum,
copied or not (the idle task's may be copied in any order, but its minimum is zero). That a copied mean may be outside of both is why the property asks for
an undisturbed report. `ScanInv` follows the search: it holds no word deeper
than the thread has been, and has not yet passed the word it would have found
when it began, as a thread only adds to what it has used. That a set of natural numbers
has a least element, which the code's search finds, is taken from the library's
well-foundedness of `<` (`MinOfWords`).

### `DeathReportProofs`

| Theorem | Property |
|---|---|
| `TypeCorrect` | `TypeOK` |
| `NeverHalfAReport` | `ReportIsOneFault` |
| `EveryFaultReported` | `FaultIsReported` |

For any number of faults, nested or not, and any order of write-backs. The two
properties speak of what the boot software has taken; the invariant `ReportInv`
says how it comes to be there. `Saved`: at each stage of the handler the parts
written so far are the latest fault's. `ChecksumIsOneFault`: a checksum, in the
cache or in memory, was computed over one fault's report, however much of the
rest has been overwritten since; so half a report cannot fit its checksum.
`CacheIsClean`: outside of the handler, and from its cleaning of the cache on,
cache and memory agree. `MemoryIsComplete`: from then until the boot software
has run, the memory holds the sealed report of the latest fault.

Model-checked only are the liveness properties, `WaitersServed`, `KeepsSending`, `EndIsNoticed`
and `FaultEndsInReset`, which are out of the prover's reach, as `ENABLED` is. Every
other property of the passing runs is proved; those of the violating runs,
`NeverBehind` for two readers and `NeverRefused`, are false.

## 6. Not modelled

- `Hal_SleepNs`: one floating-point expression and one kernel call, without
  state; see above for its units.
- Of the cores: memory protection, the bus matrix, peripheral and programmable
  clocks, the subscription to interrupts and the names of kernel objects. They
  are single writes of registers at boot or forward their arguments.
- Of the DMA driver: error flags, flushing, suspension, the contents of
  descriptors and the constant table of peripherals. `xdmac.c` reads and writes
  one register per function; the module has the registers, not the accessors.
- Rounding in the statistics, CRC collisions, and timing: how long a fault
  handler takes against the watchdog's period is outside of the models.
- Generated code, mocks, tests, linker scripts and build files.
