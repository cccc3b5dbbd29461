---------------------------- MODULE CyclicTimers ----------------------------
(***************************************************************************)
(* The cyclic requests of ThreadsCommon.c.  The Init task arms a kernel    *)
(* timer with ThreadsCommon_CreateCyclicRequest; the timer's callback      *)
(* sends a request and arms the timer again.  Wake-up times are            *)
(* rtems_intervals, unsigned 32-bit tick counts that wrap around.          *)
(*                                                                         *)
(* The clock interrupt advances the tick count by one and then fires the   *)
(* timers that are due; callbacks run to completion inside it.  The Init   *)
(* task is slow enough for one such interrupt to fall between its reading  *)
(* of the tick count and the arming of a timer, not for two.  Requested    *)
(* times are in microseconds.                                              *)
(***************************************************************************)
EXTENDS Integers

CONSTANTS
    Modulus,        \* 2^32, the range of rtems_interval
    MaxTimers,      \* RT_MAX_CYCLIC_INTERFACES
    MicrosPerTick,  \* CONFIGURE_MICROSECONDS_PER_TICK
    Intervals,      \* the intervals asked for
    Offsets,        \* the dispatch offsets asked for
    BootTicks       \* the tick at which the Init task has created its timers

ASSUME WidthAssumption == Modulus \in Nat \ {0, 1} /\ BootTicks \in 0..(Modulus - 1)
ASSUME TimersAssumption == MaxTimers \in Nat \ {0} /\ MicrosPerTick \in Nat \ {0}
ASSUME InputsAssumption ==
    /\ Intervals \subseteq 0..(Modulus * MicrosPerTick - 1)
    /\ Offsets \subseteq 0..(Modulus * MicrosPerTick - 1)

VARIABLES
    now,                    \* rtems_clock_get_ticks_since_boot
    booted,                 \* the Init task has finished
    cyclic_requests_count,
    arming, delta,          \* is the Init task about to arm a timer, for how
                            \* many ticks?
    next_wakeup_ticks, interval_ticks,  \* of cyclic_request_data
    remaining,              \* kernel: ticks until each timer fires
    due,                    \* kernel: expired timers not yet called back
    interval,               \* history: the interval each creation asked for
    age,                    \* history: time since each timer's last request;
                            \* before the first, since the offset
    punctual,               \* history: the timers created with times that are
                            \* whole ticks and a first request in the future
    delayed,                \* history: the timers whose first request comes a
                            \* tick late, interrupted before they were armed
    slipped                 \* history: the timers whose first request came late

creation == <<cyclic_requests_count, arming, delta>>
entries == <<next_wakeup_ticks, interval_ticks>>
vars == <<now, booted, creation, entries, remaining, due, interval, age,
          punctual, delayed, slipped>>

TimerIds == 0..(MaxTimers - 1)
rtems_interval == 0..(Modulus - 1)
Idle == 0      \* of a timer that is not armed
\* Bound: a request later than a whole round of the tick count grows no older.
MaxAge == Modulus * MicrosPerTick

TypeOK ==
    /\ now \in rtems_interval
    /\ booted \in BOOLEAN
    /\ cyclic_requests_count \in 0..MaxTimers
    /\ arming \in BOOLEAN /\ delta \in rtems_interval
    /\ next_wakeup_ticks \in [TimerIds -> rtems_interval]
    /\ interval_ticks \in [TimerIds -> rtems_interval]
    /\ remaining \in [TimerIds -> rtems_interval]
    /\ due \subseteq TimerIds
    /\ interval \in [TimerIds -> Nat]
    /\ age \in [TimerIds -> Int]
    /\ punctual \subseteq TimerIds /\ delayed \subseteq TimerIds
    /\ slipped \subseteq TimerIds

Init ==
    /\ now = 0
    /\ booted = FALSE
    /\ cyclic_requests_count = 0
    /\ arming = FALSE /\ delta = 0
    /\ next_wakeup_ticks = [i \in TimerIds |-> 0]
    /\ interval_ticks = [i \in TimerIds |-> 0]
    /\ remaining = [i \in TimerIds |-> Idle]
    /\ due = {}
    /\ interval = [i \in TimerIds |-> 0]
    /\ age = [i \in TimerIds |-> 0]
    /\ punctual = {} /\ delayed = {} /\ slipped = {}

-----------------------------------------------------------------------------
\* RTEMS_MILLISECONDS_TO_TICKS of a time in nanoseconds divided by 1000000.0:
\* a double, truncated when it is stored.
ToTicks(micros) == micros \div MicrosPerTick

\* The kernel's rtems_timer_fire_after refuses a delay of no ticks.
rtems_timer_fire_after(i, ticks) ==
    \/ ticks > 0 /\ remaining' = [remaining EXCEPT ![i] = ticks]
    \/ ticks = 0 /\ UNCHANGED remaining

\* The first half of schedule_next_tick: the next wake-up of entry i, and the
\* ticks until then.
NextWakeup(wakeup, ticks) == (wakeup + ticks) % Modulus

\* A mutated form: the difference is taken as if the tick count never wrapped,
\* a wake-up with a smaller number than the present tick being due at once.
TicksUntil_NoWrap(wakeup) == IF wakeup > now THEN wakeup - now ELSE 1

TicksUntil(wakeup) == (wakeup - now) % Modulus

\* In the clock interrupt nothing comes between the two halves.
schedule_next_tick(i) ==
    LET next == NextWakeup(next_wakeup_ticks[i], interval_ticks[i])
    IN  /\ next_wakeup_ticks' = [next_wakeup_ticks EXCEPT ![i] = next]
        /\ rtems_timer_fire_after(i, TicksUntil(next))

(* timer_callback: send a request (see RequestQueue), then arm again.      *)
RequestSent(i) ==
    /\ i \in due
    /\ due' = due \ {i}
    /\ age' = [age EXCEPT ![i] = IF i \in punctual THEN @ - interval[i] ELSE @]
    /\ delayed' = delayed \ {i}
    /\ slipped' = slipped \union ({i} \intersect delayed)

\* A mutated form: the timer is armed for the interval but its wake-up time
\* is left as it was.
timer_callback_WakeupKept(i) ==
    /\ RequestSent(i)
    /\ rtems_timer_fire_after(i, interval_ticks[i])
    /\ UNCHANGED <<now, booted, creation, entries, interval, punctual>>

\* A mutated form: the timer is not armed again.
timer_callback_OneShot(i) ==
    /\ RequestSent(i)
    /\ UNCHANGED <<now, booted, creation, entries, remaining, interval, punctual>>

timer_callback(i) ==
    /\ RequestSent(i)
    /\ schedule_next_tick(i)
    /\ UNCHANGED <<now, booted, creation, interval_ticks, interval, punctual>>

(* The clock interrupt; it finds the callbacks of the last one finished.   *)
ClockTick ==
    /\ due = {}
    /\ ~(arming /\ cyclic_requests_count \in delayed)
    /\ now' = (now + 1) % Modulus
    /\ booted' = (booted \/ (now >= BootTicks /\ ~arming))
    /\ due' = {i \in TimerIds : remaining[i] = 1}
    /\ remaining' = [i \in TimerIds |->
                        IF remaining[i] = Idle THEN Idle ELSE remaining[i] - 1]
    /\ age' = [i \in TimerIds |->
                  IF i \in punctual /\ age[i] < MaxAge THEN age[i] + MicrosPerTick
                  ELSE age[i]]
    /\ delayed' = delayed \union (IF arming THEN {cyclic_requests_count} ELSE {})
    /\ UNCHANGED <<creation, entries, interval, punctual, slipped>>

(* ThreadsCommon_CreateCyclicRequest, in the Init task: first the entry is *)
(* filled and the delay computed, then the timer is armed and counted.     *)
Punctual(period, offset) ==
    LET first == ToTicks(offset) + ToTicks(period)
    IN  /\ period % MicrosPerTick = 0 /\ offset % MicrosPerTick = 0
        /\ period > 0
        /\ first > now /\ first - now < Modulus

FillEntry(i, period, offset) ==
    LET next == NextWakeup(ToTicks(offset), ToTicks(period)) IN
    /\ due = {} /\ ~booted /\ ~arming
    /\ interval_ticks' = [interval_ticks EXCEPT ![i] = ToTicks(period)]
    /\ next_wakeup_ticks' = [next_wakeup_ticks EXCEPT ![i] = next]
    /\ delta' = TicksUntil(next)
    /\ arming' = TRUE
    /\ interval' = [interval EXCEPT ![i] = period]
    /\ IF Punctual(period, offset)
       THEN /\ punctual' = punctual \union {i}
            /\ age' = [age EXCEPT ![i] = now * MicrosPerTick - offset]
       ELSE UNCHANGED <<punctual, age>>
    /\ UNCHANGED <<now, booted, cyclic_requests_count, remaining, due, delayed,
                   slipped>>

\* A mutated form: the limit of the table is not looked at.
ThreadsCommon_CreateCyclicRequest_NoLimit ==
    /\ cyclic_requests_count <= MaxTimers
    /\ \E period \in Intervals, offset \in Offsets :
          FillEntry(cyclic_requests_count, period, offset)

ThreadsCommon_CreateCyclicRequest ==
    /\ cyclic_requests_count < MaxTimers
    /\ \E period \in Intervals, offset \in Offsets :
          FillEntry(cyclic_requests_count, period, offset)

ArmTimer ==
    /\ due = {}
    /\ arming
    /\ rtems_timer_fire_after(cyclic_requests_count, delta)
    /\ cyclic_requests_count' = cyclic_requests_count + 1
    /\ arming' = FALSE /\ delta' = 0
    /\ UNCHANGED <<now, booted, entries, due, interval, age, punctual, delayed,
                   slipped>>

\* The table is full, or the kernel has no timer left: the call returns false
\* before it touches the entry.
RefuseCreation ==
    /\ due = {} /\ ~booted /\ ~arming
    /\ UNCHANGED vars

Next ==
    \/ ClockTick
    \/ \E i \in TimerIds : timer_callback(i)
    \/ ThreadsCommon_CreateCyclicRequest
    \/ RefuseCreation
    \/ ArmTimer

(* The clock runs on, a callback is called in the interrupt that found its *)
(* timer expired, and the Init task ends a call that it has begun.         *)
Spec ==
    /\ Init /\ [][Next]_vars
    /\ WF_vars(ClockTick) /\ WF_vars(ArmTimer)
    /\ \A i \in TimerIds : WF_vars(timer_callback(i))

-----------------------------------------------------------------------------
(* Properties of ThreadsCommon_CreateCyclicRequest (ThreadsCommon.h:44-57). *)
(* They are about punctual timers.  The code truncates other times to      *)
(* ticks, drifting by the remainder; and a first request that is due no    *)
(* later than the creation comes a whole round of the tick count late or   *)
(* never.                                                                  *)
(*                                                                         *)
(* One punctual timer is not periodic either: with an interval of a single *)
(* tick, and a tick lost while it was armed, the next wake-up is already   *)
(* there when the first request is sent.  The kernel refuses to arm the    *)
(* timer for no ticks, schedule_next_tick does not look at the refusal     *)
(* (ThreadsCommon.c:66-69), and no other request is ever sent, though the  *)
(* header says that the timer sends them periodically (ThreadsCommon.h:45). *)

\* How late the next request of a timer is.
Lateness(i) == IF i \in delayed THEN 1 ELSE 0

\* A timer that could not be armed again after its first request.
Stopped(i) == i \in slipped /\ interval_ticks[i] = 1

\* A cyclic request is periodic: it is sent an interval after the last one (the
\* first, an interval after the offset), not earlier, and never overdue; the
\* tick count wrapping around makes no difference.  A tick lost while the timer
\* was armed delays the first request by that tick and no other, but ends the
\* requests of a timer with an interval of one tick.
SendsOnTime ==
    \A i \in punctual :
        LET wanted == interval[i] + Lateness(i) * MicrosPerTick
        IN  /\ i \in due => ~Stopped(i) /\ age[i] = wanted
            /\ i \notin due /\ ~Stopped(i) => age[i] < wanted

\* A timer that waits for its next request is armed, and for just the tick
\* that next_wakeup_ticks tells, however long it has been running; only one that
\* could not catch up with the lost tick is not armed, its wake-up gone by.
ArmedForWakeup ==
    \A i \in punctual \ due :
        i < cyclic_requests_count =>
            IF Stopped(i) THEN remaining[i] = Idle
            ELSE /\ remaining[i] # Idle
                 /\ (now + remaining[i]) % Modulus
                       = (next_wakeup_ticks[i] + Lateness(i)) % Modulus

\* A cyclic request never stops being sent, unless its interval is one tick and
\* a tick was lost while its timer was armed: then it is sent once.
KeepsSending ==
    \A i \in TimerIds : (i \in punctual /\ ~Stopped(i)) ~> i \in due
=============================================================================
