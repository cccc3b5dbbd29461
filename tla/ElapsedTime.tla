---------------------------- MODULE ElapsedTime ----------------------------
(***************************************************************************)
(* The elapsed-time service of Hal.c: a free-running 16-bit timer counter, *)
(* the interrupt that counts its overflows, and the tasks that combine the *)
(* two in Hal_GetElapsedTimeInNs.  Time is measured in timer ticks, and    *)
(* converted to nanoseconds with 64-bit arithmetic in fixed point.         *)
(*                                                                         *)
(* The processor has one core.  A reader is a task, named by its priority: *)
(* it runs only while no reader of a higher priority is inside the         *)
(* service, and may be preempted between any two of its memory accesses.   *)
(* The interrupt handler preempts every task and is not preempted by them. *)
(***************************************************************************)
EXTENDS Naturals

CONSTANTS
    Readers,         \* the tasks that ask for the time, named by priority
    TicksPerReload,  \* TICKS_PER_RELOAD, what the code adds per overflow
    CounterPeriod,   \* the number of values the hardware counter goes through
    ReloadModulus,   \* 2^32: reloads_counter is a uint32_t
    Half,            \* 2^32, half of the width of a uint64_t
    ns_per_tick_q32, \* nanoseconds per tick, in parts of 1/Half
    MaxReloads       \* bound: the overflows of one behaviour

\* The counter holds values up to TICKS_PER_RELOAD (a 16-bit counter that
\* overflows) or up to TICKS_PER_RELOAD - 1 (a counter cleared on RC compare).
ASSUME ReadersAssumption == Readers \subseteq Nat
ASSUME CounterAssumption ==
    /\ TicksPerReload \in Nat \ {0}
    /\ CounterPeriod \in {TicksPerReload, TicksPerReload + 1}
ASSUME ReloadsAssumption == ReloadModulus \in Nat \ {0} /\ MaxReloads \in Nat
\* The times that reloads_counter can express fit in 64 bits of nanoseconds: a
\* timer slower than 15.3 kHz would break this.
ASSUME ScaleAssumption ==
    /\ Half \in Nat \ {0} /\ ns_per_tick_q32 \in Nat
    /\ (ReloadModulus * TicksPerReload + CounterPeriod) * ns_per_tick_q32
           < Half * Half * Half

VARIABLES
    counter,               \* the timer counter register
    wraps,                 \* history: how often the counter has overflowed
    irqPending,            \* an overflow not yet seen by timer_irq_handler
    reloads_counter,
    reloads_modified_flag,
    pc,                    \* where each reader is in Hal_GetElapsedTimeInNs
    reloads, ticks,        \* its two local variables
    imminent,              \* did it sample the counter while an overflow was
                           \* pending, whose interrupt is about to be taken?
    started,               \* history: the hardware when it made its call
    retries,               \* history: the times its loop has gone round again
    result                 \* total_ticks of its last call

hardware == <<counter, wraps, irqPending>>
shared == <<reloads_counter, reloads_modified_flag>>
history == <<started, retries>>
vars == <<hardware, shared, pc, reloads, ticks, imminent, history, result>>

\* The time an ideal reading of the hardware would give, counting what the
\* code counts for an overflow.
TimeAt(w, c) == w * TicksPerReload + c
ClockValue == TimeAt(wraps, counter)
StartTime(r) == TimeAt(started[r].wraps, started[r].counter)

\* A mutated form: an overflow is taken for one tick more than the code's scale.
TotalTicks_OneMore(r) == reloads[r] * (TicksPerReload + 1) + ticks[r]

\* total_ticks, as computed from the two locals.
TotalTicks(r) == reloads[r] * TicksPerReload + ticks[r]

\* The last lines of the function: ticks times ns_per_tick_q32, shifted right by
\* half of the width, in halves so that no product exceeds 64 bits.
Uint64(n) == n % (Half * Half)
ns_per_tick_q32_hi == ns_per_tick_q32 \div Half
ns_per_tick_q32_lo == ns_per_tick_q32 % Half

\* A mutated form: the fractions of a nanosecond of the low half are dropped.
ToNs_NoFraction(total_ticks) ==
    Uint64((total_ticks \div Half) * ns_per_tick_q32
           + (total_ticks % Half) * ns_per_tick_q32_hi)

ToNs(total_ticks) ==
    LET ticks_high == total_ticks \div Half
        ticks_low == total_ticks % Half
        ns_high == Uint64(ticks_high * ns_per_tick_q32)
        ns_low == Uint64(Uint64(ticks_low * ns_per_tick_q32_hi)
                         + Uint64(ticks_low * ns_per_tick_q32_lo) \div Half)
    IN  Uint64(ns_high + ns_low)

\* The same product without a width: what ToNs should give.
Nanoseconds(t) == (t * ns_per_tick_q32) \div Half

TypeOK ==
    /\ counter \in 0..(CounterPeriod - 1)
    /\ wraps \in 0..MaxReloads
    /\ irqPending \in BOOLEAN
    /\ reloads_counter \in 0..(ReloadModulus - 1)
    /\ reloads_modified_flag \in BOOLEAN
    /\ pc \in [Readers -> {"idle", "reset", "load", "sample", "check"}]
    /\ reloads \in [Readers -> 0..(ReloadModulus - 1)]
    /\ ticks \in [Readers -> 0..(CounterPeriod - 1)]
    /\ imminent \in [Readers -> BOOLEAN]
    /\ started \in [Readers -> [wraps : 0..MaxReloads,
                                counter : 0..(CounterPeriod - 1)]]
    /\ retries \in [Readers -> Nat]
    /\ result \in [Readers -> Nat]

-----------------------------------------------------------------------------
(* Hal_InitTimer: the counter is triggered from zero.                      *)
Init ==
    /\ counter = 0
    /\ wraps = 0
    /\ irqPending = FALSE
    /\ reloads_counter = 0
    /\ reloads_modified_flag = FALSE
    /\ pc = [r \in Readers |-> "idle"]
    /\ reloads = [r \in Readers |-> 0]
    /\ ticks = [r \in Readers |-> 0]
    /\ imminent = [r \in Readers |-> FALSE]
    /\ started = [r \in Readers |-> [wraps |-> 0, counter |-> 0]]
    /\ retries = [r \in Readers |-> 0]
    /\ result = [r \in Readers |-> 0]

(* The hardware counts.  An overflow raises the interrupt; the handler has *)
(* always run before the next overflow, a whole period later.              *)
CountUp ==
    /\ counter < CounterPeriod - 1
    /\ counter' = counter + 1
    /\ UNCHANGED <<wraps, irqPending>>

Overflow ==
    /\ counter = CounterPeriod - 1
    /\ wraps < MaxReloads
    /\ ~irqPending
    /\ counter' = 0
    /\ wraps' = wraps + 1
    /\ irqPending' = TRUE

HardwareTick ==
    /\ CountUp \/ Overflow
    /\ UNCHANGED <<shared, pc, reloads, ticks, imminent, history, result>>

-----------------------------------------------------------------------------
\* A mutated form: the handler counts the overflow and leaves the flag alone.
timer_irq_handler_FlagNotSet ==
    /\ irqPending
    /\ reloads_counter' = (reloads_counter + 1) % ReloadModulus
    /\ irqPending' = FALSE
    /\ imminent' = [r \in Readers |-> FALSE]
    /\ UNCHANGED <<counter, wraps, reloads_modified_flag, pc, reloads, ticks,
                   history, result>>

(* Reading the status register, the handler's last act, clears the request. *)
timer_irq_handler ==
    /\ irqPending
    /\ reloads_counter' = (reloads_counter + 1) % ReloadModulus
    /\ reloads_modified_flag' = TRUE
    /\ irqPending' = FALSE
    /\ imminent' = [r \in Readers |-> FALSE]
    /\ UNCHANGED <<counter, wraps, pc, reloads, ticks, history, result>>

-----------------------------------------------------------------------------
(* Hal_GetElapsedTimeInNs, one action per access to shared state.          *)

MayRun(r) == \A s \in Readers : s > r => pc[s] = "idle"

CallGetElapsedTime(r) ==
    /\ MayRun(r)
    /\ pc[r] = "idle"
    /\ pc' = [pc EXCEPT ![r] = "reset"]
    /\ started' = [started EXCEPT ![r] = [wraps |-> wraps, counter |-> counter]]
    /\ retries' = [retries EXCEPT ![r] = 0]
    /\ UNCHANGED <<hardware, shared, reloads, ticks, imminent, result>>

ResetFlag(r) ==
    /\ MayRun(r)
    /\ pc[r] = "reset"
    /\ pc' = [pc EXCEPT ![r] = "load"]
    /\ reloads_modified_flag' = FALSE
    /\ UNCHANGED <<hardware, reloads_counter, reloads, ticks, imminent, history,
                   result>>

\* A mutated form: the number of reloads is taken one too low.
LoadReloads_OneLess(r) ==
    /\ MayRun(r)
    /\ pc[r] = "load"
    /\ pc' = [pc EXCEPT ![r] = "sample"]
    /\ reloads' = [reloads EXCEPT ![r] = reloads_counter - 1]
    /\ UNCHANGED <<hardware, shared, ticks, imminent, history, result>>

LoadReloads(r) ==
    /\ MayRun(r)
    /\ pc[r] = "load"
    /\ pc' = [pc EXCEPT ![r] = "sample"]
    /\ reloads' = [reloads EXCEPT ![r] = reloads_counter]
    /\ UNCHANGED <<hardware, shared, ticks, imminent, history, result>>

SampleCounter(r) ==
    /\ MayRun(r)
    /\ pc[r] = "sample"
    /\ pc' = [pc EXCEPT ![r] = "check"]
    /\ ticks' = [ticks EXCEPT ![r] = counter]
    /\ imminent' = [imminent EXCEPT ![r] = irqPending]
    /\ UNCHANGED <<hardware, shared, reloads, history, result>>

(* The loop condition; the locals end with the call.  An overflow that was *)
(* pending when the task sampled the counter has interrupted it by now:    *)
(* reading the peripheral takes longer than the entry into an interrupt.   *)
(* One that came after the sample may still be pending.                    *)
Retry(r) ==
    /\ reloads_modified_flag
    /\ pc' = [pc EXCEPT ![r] = "reset"]
    /\ retries' = [retries EXCEPT ![r] = @ + 1]
    /\ UNCHANGED <<reloads, ticks, result>>

Leave(r) ==
    /\ pc' = [pc EXCEPT ![r] = "idle"]
    /\ result' = [result EXCEPT ![r] = TotalTicks(r)]
    /\ reloads' = [reloads EXCEPT ![r] = 0]
    /\ ticks' = [ticks EXCEPT ![r] = 0]
    /\ UNCHANGED retries

Return(r) ==
    /\ ~reloads_modified_flag
    /\ Leave(r)

\* A mutated form: the flag is reset before the loop and not inside it.
CheckFlag_ResetOutsideLoop(r) ==
    /\ MayRun(r)
    /\ pc[r] = "check"
    /\ ~imminent[r]
    /\ IF reloads_modified_flag
       THEN /\ pc' = [pc EXCEPT ![r] = "load"]
            /\ retries' = [retries EXCEPT ![r] = @ + 1]
            /\ UNCHANGED <<reloads, ticks, result>>
       ELSE Return(r)
    /\ UNCHANGED <<hardware, shared, imminent, started>>

\* A mutated form: one reading is always taken for a consistent one.
CheckFlag_NoLoop(r) ==
    /\ MayRun(r)
    /\ pc[r] = "check"
    /\ ~imminent[r]
    /\ Leave(r)
    /\ UNCHANGED <<hardware, shared, imminent, started>>

CheckFlag(r) ==
    /\ MayRun(r)
    /\ pc[r] = "check"
    /\ ~imminent[r]
    /\ Retry(r) \/ Return(r)
    /\ UNCHANGED <<hardware, shared, imminent, started>>

-----------------------------------------------------------------------------
ReaderStep(r) ==
    \/ CallGetElapsedTime(r)
    \/ ResetFlag(r)
    \/ LoadReloads(r)
    \/ SampleCounter(r)
    \/ CheckFlag(r)

Next ==
    \/ HardwareTick
    \/ timer_irq_handler
    \/ \E r \in Readers : ReaderStep(r)

Spec == Init /\ [][Next]_vars

-----------------------------------------------------------------------------
(* Properties of Hal_GetElapsedTimeInNs (Hal.c:206-229).                   *)

\* However many tasks share the service, it never reports a time that has
\* not come yet, not even by a carry lost between the halves of the product.
NeverAhead ==
    \A r \in Readers : ToNs(result[r]) <= Nanoseconds(ClockValue)

\* The do-while loop gives a consistent snapshot: what a call returns is not
\* older than the moment of the call (so time never runs backwards), to the
\* nanosecond.
NeverBehind ==
    \A r \in Readers :
        pc[r] = "idle" => Nanoseconds(StartTime(r)) <= ToNs(result[r])

\* The loop goes round again at most once per overflow interrupt since the
\* call (one of them may have been pending already): a reader is never kept
\* in the loop by a flag that nobody set again.
RetryBudget ==
    \A r \in Readers : retries[r] <= (wraps - started[r].wraps) + 1

(* The promise, as the abstract clock.                                     *)
Abstract == INSTANCE MonotonicClock WITH
    now <- ClockValue,
    reading <- {r \in Readers : pc[r] # "idle"},
    asked <- [r \in Readers |-> StartTime(r)],
    answer <- result

\* Hal_GetElapsedTimeInNs implements the monotonic clock: every call answers
\* with a value the clock showed during the call.
ImplementsMonotonicClock == Abstract!Spec
=============================================================================
