-------------------------- MODULE CyclicTimersProofs --------------------------
(***************************************************************************)
(* Proofs about the cyclic requests, for any number of timers, any width   *)
(* of the tick count and any length of a tick: a request stays periodic    *)
(* however often the tick count wraps around.                              *)
(***************************************************************************)
EXTENDS CyclicTimers, TLAPS

USE WidthAssumption, TimersAssumption
    DEF creation, entries

-----------------------------------------------------------------------------
\* The timers created, and the one that is about to be armed.
Created(i) == i < cyclic_requests_count \/ (arming /\ i = cyclic_requests_count)

\* The table and its count: what is due, delayed or punctual has been created.
TableInv ==
    /\ arming => cyclic_requests_count < MaxTimers
    /\ \A i \in TimerIds : i \in punctual \union delayed => Created(i)
    /\ \A i \in TimerIds : i >= cyclic_requests_count => remaining[i] = Idle
    /\ \A i \in due : i < cyclic_requests_count /\ remaining[i] = Idle
    /\ \A i \in slipped : i < cyclic_requests_count

TypeInv == TypeOK /\ TableInv

\* The ticks left until the next request of a timer.
Left(i) == IF i < cyclic_requests_count THEN remaining[i] ELSE delta

\* A punctual timer's interval is a number of ticks; while it waits, those that
\* are left lead to its wake-up time, and its age tells how many are over.
Waiting(i) ==
    /\ Left(i) > 0
    /\ (now + Left(i)) % Modulus = (next_wakeup_ticks[i] + Lateness(i)) % Modulus
    /\ age[i] = (interval_ticks[i] + Lateness(i) - Left(i)) * MicrosPerTick

Expired(i) ==
    /\ now = (next_wakeup_ticks[i] + Lateness(i)) % Modulus
    /\ age[i] = (interval_ticks[i] + Lateness(i)) * MicrosPerTick

\* A timer is periodic, or not armed because it could not catch up.
Periodic(i) ==
    /\ interval_ticks[i] >= 1
    /\ interval[i] = interval_ticks[i] * MicrosPerTick
    /\ Stopped(i) => i < cyclic_requests_count /\ i \notin due /\ remaining[i] = Idle
    /\ ~Stopped(i) => IF i \in due THEN Expired(i) ELSE Waiting(i)

PeriodInv == \A i \in punctual : Periodic(i)

-----------------------------------------------------------------------------
(* Arithmetic modulo the range of the tick count.                          *)

\* Division with remainder, also of a negative number.
LEMMA Remainder ==
    ASSUME NEW m \in Nat \ {0}, NEW a \in Int
    PROVE  a % m \in 0..(m - 1) /\ a \div m \in Int /\ a = m * (a \div m) + (a % m)
  OBVIOUS

\* Two numbers less than m apart that differ by a multiple of m are the same.
LEMMA MultipleIsZero ==
    ASSUME NEW m \in Nat \ {0}, NEW q \in Int, m * q < m, -m < m * q
    PROVE  q = 0
<1>1. q >= 1 => m * q >= m
  OBVIOUS
<1>2. q <= -1 => m * q <= -m
  OBVIOUS
<1> QED
  BY <1>1, <1>2

\* The remainder is the one number in range that differs by a multiple.
LEMMA RemainderIs ==
    ASSUME NEW m \in Nat \ {0}, NEW a \in Int, NEW r \in 0..(m - 1), NEW q \in Int,
           a = m * q + r
    PROVE  a % m = r
<1> DEFINE k == a \div m
           s == a % m
<1>1. s \in 0..(m - 1) /\ k \in Int /\ a = m * k + s
  BY Remainder
<1> HIDE DEF k, s
<1>2. m * (q - k) = m * q - m * k
  BY <1>1
<1>3. m * (q - k) = s - r
  BY <1>1, <1>2
<1>4. q - k \in Int /\ m * (q - k) < m /\ -m < m * (q - k)
  BY <1>1, <1>3
<1>5. q - k = 0
  BY <1>4, MultipleIsZero
<1>6. m * q = m * k
  BY <1>1, <1>5
<1> QED
  BY <1>1, <1>6 DEF s

\* Remainders may be taken early.
LEMMA RemainderOfSum ==
    ASSUME NEW m \in Nat \ {0}, NEW a \in Int, NEW b \in Int
    PROVE  ((a % m) + b) % m = (a + b) % m
<1> DEFINE k == a \div m
           s == a % m
           t == (a + b) % m
           l == (a + b) \div m
<1>1. s \in Int /\ k \in Int /\ a = m * k + s
  BY Remainder
<1>2. t \in 0..(m - 1) /\ l \in Int /\ a + b = m * l + t
  <2>1. a + b \in Int
    OBVIOUS
  <2> QED
    BY <2>1, Remainder
<1> HIDE DEF k, s, t, l
<1>3. m * (l - k) = m * l - m * k
  BY <1>1, <1>2
<1>4. s + b = m * (l - k) + t /\ l - k \in Int /\ s + b \in Int
  BY <1>1, <1>2, <1>3
<1>5. (s + b) % m = t
  BY <1>2, <1>4, RemainderIs
<1> QED
  BY <1>5 DEF s, t

\* A number in range is its own remainder.
LEMMA RemainderOfSmall ==
    ASSUME NEW m \in Nat \ {0}, NEW a \in 0..(m - 1)
    PROVE  a % m = a
<1>1. a = m * 0 + a
  OBVIOUS
<1> QED
  BY <1>1, RemainderIs

\* Whole ticks of a time of less than a round are in the range of the count.
LEMMA TicksInRange ==
    ASSUME NEW t \in 0..(Modulus * MicrosPerTick - 1)
    PROVE  /\ ToTicks(t) \in rtems_interval
           /\ t % MicrosPerTick = 0 => t = ToTicks(t) * MicrosPerTick
<1> DEFINE m == MicrosPerTick
           k == t \div m
           r == t % m
<1>1. m \in Nat \ {0} /\ Modulus \in Nat \ {0}
  OBVIOUS
<1>2. r \in 0..(m - 1) /\ k \in Int /\ t = m * k + r
  BY <1>1, Remainder
<1> HIDE DEF k, r
<1>3. t \in Nat /\ t < Modulus * m
  <2>1. Modulus * m \in Nat
    BY <1>1
  <2> QED
    BY <2>1
<1> HIDE DEF m
<1>4. k >= 0
  <2>1. k <= -1 => m * k <= -m
    BY <1>1, <1>2
  <2> QED
    BY <1>1, <1>2, <1>3, <2>1
<1>5. k < Modulus
  <2>1. k >= Modulus => m * k >= Modulus * m
    BY <1>1, <1>2
  <2>2. Modulus * m \in Nat /\ m * k \in Int
    BY <1>1, <1>2
  <2> QED
    BY <1>1, <1>2, <1>3, <2>1, <2>2
<1>6. r = 0 => t = k * m
  BY <1>1, <1>2
<1> QED
  BY <1>2, <1>4, <1>5, <1>6 DEF k, m, r, ToTicks, rtems_interval

-----------------------------------------------------------------------------
(* The types and the table.                                                *)

\* Arming a timer for ticks in range leaves the kernel's timers of their type.
LEMMA FireAfterType ==
    ASSUME TypeOK, NEW i \in TimerIds, NEW ticks \in rtems_interval,
           rtems_timer_fire_after(i, ticks)
    PROVE  /\ remaining' \in [TimerIds -> rtems_interval]
           /\ \A j \in TimerIds : j # i => remaining'[j] = remaining[j]
           /\ ticks > 0 => remaining'[i] = ticks
  BY DEF rtems_timer_fire_after, TypeOK

\* What is computed modulo the range of the tick count is in range.
LEMMA WakeupType ==
    ASSUME NEW a \in Int, NEW b \in Int
    PROVE  NextWakeup(a, b) \in rtems_interval /\ (a - b) % Modulus \in rtems_interval
<1>1. a + b \in Int /\ a - b \in Int
  OBVIOUS
<1> QED
  BY <1>1, Remainder DEF NextWakeup, rtems_interval

\* The numbers of the types.
LEMMA Numbers ==
    /\ 0 \in rtems_interval
    /\ \A n \in rtems_interval : /\ n \in Nat /\ n \in Int
                                 /\ n # 0 => n - 1 \in rtems_interval
    /\ \A i \in TimerIds : i \in Nat
    /\ \A i \in 0..MaxTimers : i < MaxTimers => i \in TimerIds /\ i + 1 \in 0..MaxTimers
  BY DEF rtems_interval, TimerIds

\* Every count of ticks is a natural number below the range.
LEMMA Counts ==
    ASSUME TypeOK
    PROVE  /\ now \in Nat /\ now < Modulus /\ delta \in Nat
           /\ cyclic_requests_count \in Nat
           /\ \A i \in TimerIds :
                 /\ next_wakeup_ticks[i] \in Nat /\ interval_ticks[i] \in Nat
                 /\ interval_ticks[i] < Modulus
                 /\ remaining[i] \in Nat /\ age[i] \in Int
<1>1. \A n \in rtems_interval : n \in Nat /\ n < Modulus
  BY DEF rtems_interval
<1> QED
  BY <1>1 DEF TypeOK

\* A tick of the clock keeps the types, and only timers that were armed expire.
LEMMA TickTypes ==
    ASSUME TypeInv, ClockTick
    PROVE  TypeInv'
<1>1. now' \in rtems_interval
  <2>1. now + 1 \in Int
    BY Counts DEF TypeInv
  <2> QED
    BY <2>1, Remainder DEF ClockTick, rtems_interval
<1>2. remaining' \in [TimerIds -> rtems_interval]
  BY Numbers DEF ClockTick, TypeInv, TypeOK, Idle
<1>3. age' \in [TimerIds -> Int]
  BY DEF ClockTick, TypeInv, TypeOK
<1>4. delayed' \subseteq TimerIds /\ due' \subseteq TimerIds /\ booted' \in BOOLEAN
  BY Numbers DEF ClockTick, TypeInv, TypeOK, TableInv
<1>5. TypeOK'
  BY <1>1, <1>2, <1>3, <1>4 DEF ClockTick, TypeInv, TypeOK
<1>6. TableInv'
  <2>1. ASSUME NEW i \in TimerIds, i >= cyclic_requests_count
        PROVE  remaining'[i] = Idle
    BY <2>1 DEF ClockTick, TypeInv, TableInv, Idle
  <2>2. \A i \in due' : i < cyclic_requests_count /\ remaining'[i] = Idle
    <3>1. ASSUME NEW i \in due'
          PROVE  i < cyclic_requests_count /\ remaining'[i] = Idle
      <4>1. i \in TimerIds /\ remaining[i] = 1 /\ cyclic_requests_count \in Nat
        BY <3>1 DEF ClockTick, TypeInv, TypeOK
      <4>2. ~(i >= cyclic_requests_count)
        BY <4>1 DEF TypeInv, TableInv, Idle
      <4>3. remaining'[i] = Idle
        BY <4>1 DEF ClockTick, Idle
      <4> QED
        BY <4>1, <4>2, <4>3, Numbers
    <3> QED
      BY <3>1
  <2>3. \A i \in TimerIds : i \in (punctual \union delayed)' => Created(i)'
    BY DEF ClockTick, TypeInv, TableInv, Created
  <2> QED
    BY <2>1, <2>2, <2>3 DEF ClockTick, TypeInv, TableInv
<1> QED
  BY <1>5, <1>6 DEF TypeInv

\* A callback keeps the types.
LEMMA CallbackTypes ==
    ASSUME TypeInv, NEW i \in TimerIds, timer_callback(i)
    PROVE  TypeInv'
<1> DEFINE next == NextWakeup(next_wakeup_ticks[i], interval_ticks[i])
<1>1. next \in rtems_interval /\ TicksUntil(next) \in rtems_interval
  <2>1. next_wakeup_ticks[i] \in Int /\ interval_ticks[i] \in Int /\ now \in Int
    BY Counts DEF TypeInv
  <2> QED
    <3>1. next \in rtems_interval
      BY <2>1, WakeupType
    <3> HIDE DEF next
    <3>2. next \in Int
      BY <3>1, Numbers
    <3>3. TicksUntil(next) \in rtems_interval
      BY <2>1, <3>2, WakeupType DEF TicksUntil
    <3> QED
      BY <3>1, <3>3
<1>2. /\ i \in due /\ due' = due \ {i} /\ delayed' = delayed \ {i}
      /\ slipped' = slipped \union ({i} \intersect delayed)
      /\ age' = [age EXCEPT ![i] = IF i \in punctual THEN @ - interval[i] ELSE @]
      /\ next_wakeup_ticks' = [next_wakeup_ticks EXCEPT ![i] = next]
      /\ rtems_timer_fire_after(i, TicksUntil(next))
      /\ UNCHANGED <<now, booted, creation, interval_ticks, interval, punctual>>
  BY DEF timer_callback, RequestSent, schedule_next_tick
<1> HIDE DEF next
<1>3. /\ remaining' \in [TimerIds -> rtems_interval]
      /\ \A j \in TimerIds : j # i => remaining'[j] = remaining[j]
  BY <1>1, <1>2, FireAfterType DEF TypeInv
<1>4. age' \in [TimerIds -> Int]
  <2>1. age[i] - interval[i] \in Int /\ age[i] \in Int
    BY DEF TypeInv, TypeOK
  <2> QED
    BY <1>2, <2>1 DEF TypeInv, TypeOK
<1>5. next_wakeup_ticks' \in [TimerIds -> rtems_interval]
  BY <1>1, <1>2 DEF TypeInv, TypeOK
<1>6. TypeOK'
  BY <1>2, <1>3, <1>4, <1>5 DEF TypeInv, TypeOK
<1>7. TableInv'
  <2>1. i < cyclic_requests_count /\ cyclic_requests_count \in Nat /\ i \in Nat
    BY <1>2, Counts, Numbers DEF TypeInv, TableInv
  <2>2. \A j \in TimerIds : j >= cyclic_requests_count => remaining'[j] = Idle
    BY <1>3, <2>1, Numbers DEF TypeInv, TableInv
  <2>3. \A j \in due' : remaining'[j] = Idle
    BY <1>2, <1>3 DEF TypeInv, TypeOK, TableInv
  <2>4. \A j \in slipped' : j < cyclic_requests_count
    BY <1>2, <2>1 DEF TypeInv, TableInv
  <2> QED
    BY <1>2, <2>2, <2>3, <2>4 DEF TypeInv, TableInv, Created
<1> QED
  BY <1>6, <1>7 DEF TypeInv

\* A new entry is within the table, and its times are in range.
LEMMA CreateTypes ==
    ASSUME TypeInv, ThreadsCommon_CreateCyclicRequest
    PROVE  TypeInv'
<1> DEFINE i == cyclic_requests_count
<1>1. PICK period \in Intervals, offset \in Offsets : FillEntry(i, period, offset)
  BY DEF ThreadsCommon_CreateCyclicRequest
<1>2. i \in TimerIds /\ i \in Nat /\ i < MaxTimers
  BY Numbers DEF ThreadsCommon_CreateCyclicRequest, TypeInv, TypeOK
<1> DEFINE next == NextWakeup(ToTicks(offset), ToTicks(period))
<1>3. /\ ToTicks(period) \in rtems_interval /\ ToTicks(offset) \in rtems_interval
      /\ period \in Nat /\ offset \in Int
  <2>1. /\ period \in 0..(Modulus * MicrosPerTick - 1)
        /\ offset \in 0..(Modulus * MicrosPerTick - 1)
    BY InputsAssumption
  <2> QED
    BY <2>1, TicksInRange
<1>4. next \in rtems_interval /\ TicksUntil(next) \in rtems_interval
  <2>1. ToTicks(period) \in Int /\ ToTicks(offset) \in Int
    BY <1>3, Numbers
  <2>2. next \in rtems_interval
    BY <2>1, WakeupType
  <2> HIDE DEF next
  <2>3. next \in Int /\ now \in Int
    BY <2>2, Numbers, Counts DEF TypeInv
  <2>4. TicksUntil(next) \in rtems_interval
    BY <2>3, WakeupType DEF TicksUntil
  <2> QED
    BY <2>2, <2>4
<1>5. /\ due = {} /\ ~arming
      /\ interval_ticks' = [interval_ticks EXCEPT ![i] = ToTicks(period)]
      /\ next_wakeup_ticks' = [next_wakeup_ticks EXCEPT ![i] = next]
      /\ delta' = TicksUntil(next)
      /\ arming' = TRUE
      /\ interval' = [interval EXCEPT ![i] = period]
      /\ \/ /\ punctual' = punctual \union {i}
            /\ age' = [age EXCEPT ![i] = now * MicrosPerTick - offset]
         \/ UNCHANGED <<punctual, age>>
      /\ UNCHANGED <<now, booted, cyclic_requests_count, remaining, due, delayed,
                     slipped>>
  BY <1>1 DEF FillEntry
<1>6. now * MicrosPerTick - offset \in Int
  BY <1>3, Counts DEF TypeInv
<1> HIDE DEF next
<1>7. TypeOK'
  BY <1>2, <1>3, <1>4, <1>5, <1>6 DEF TypeInv, TypeOK
<1>8. TableInv'
  BY <1>2, <1>5 DEF TypeInv, TableInv, Created
<1> QED
  BY <1>7, <1>8 DEF TypeInv

\* A timer that is armed is within the table.
LEMMA ArmTypes ==
    ASSUME TypeInv, ArmTimer
    PROVE  TypeInv'
<1> DEFINE i == cyclic_requests_count
<1>1. i \in TimerIds /\ i + 1 \in 0..MaxTimers /\ i \in Nat
  BY Numbers DEF ArmTimer, TypeInv, TypeOK, TableInv
<1>2. /\ remaining' \in [TimerIds -> rtems_interval]
      /\ \A j \in TimerIds : j # i => remaining'[j] = remaining[j]
  BY <1>1, FireAfterType DEF ArmTimer, TypeInv, TypeOK
<1>3. TypeOK'
  BY <1>1, <1>2, Numbers DEF ArmTimer, TypeInv, TypeOK
<1>4. \A j \in TimerIds : Created(j) => Created(j)'
  BY <1>1, Numbers DEF ArmTimer, Created
<1>5. \A j \in TimerIds : j >= i + 1 => j # i /\ j >= i
  BY <1>1, Numbers
<1>6. TableInv'
  <2>1. i < i + 1 /\ \A j \in slipped : j \in TimerIds /\ j < i
    BY <1>1 DEF TypeInv, TypeOK, TableInv
  <2>2. \A j \in slipped : j < i + 1
    <3> SUFFICES ASSUME NEW j \in slipped PROVE j < i + 1
      OBVIOUS
    <3>1. j \in Nat /\ j < i
      BY <2>1, Numbers
    <3> QED
      BY <1>1, <3>1
  <2> QED
    BY <1>1, <1>2, <1>4, <1>5, <2>2 DEF ArmTimer, TypeInv, TableInv
<1> QED
  BY <1>3, <1>6 DEF TypeInv

\* The types and the table are an invariant.
LEMMA TypeInvariant == Spec => []TypeInv
<1>1. Init => TypeInv
  <2> SUFFICES ASSUME Init PROVE TypeInv
    OBVIOUS
  <2>1. TypeOK
    <3>1. 0 \in rtems_interval /\ 0 \in 0..MaxTimers /\ 0 \in Nat /\ 0 \in Int
      BY Numbers
    <3>2. /\ next_wakeup_ticks \in [TimerIds -> rtems_interval]
          /\ interval_ticks \in [TimerIds -> rtems_interval]
          /\ remaining \in [TimerIds -> rtems_interval]
          /\ interval \in [TimerIds -> Nat] /\ age \in [TimerIds -> Int]
      BY <3>1 DEF Init, Idle
    <3> QED
      BY <3>1, <3>2 DEF Init, TypeOK
  <2>2. TableInv
    BY DEF Init, TableInv
  <2> QED
    BY <2>1, <2>2 DEF TypeInv
<1>2. TypeInv /\ [Next]_vars => TypeInv'
  <2> SUFFICES ASSUME TypeInv, [Next]_vars PROVE TypeInv'
    OBVIOUS
  <2>1. ASSUME UNCHANGED vars PROVE TypeInv'
    BY <2>1 DEF vars, TypeInv, TypeOK, TableInv, Created
  <2> QED
    BY <2>1, TickTypes, CallbackTypes, CreateTypes, ArmTypes DEF Next, RefuseCreation
<1> QED
  BY <1>1, <1>2, PTL DEF Spec

\* Every variable keeps its type: the table of ThreadsCommon.c is never overrun,
\* and tick counts stay 32-bit numbers.
THEOREM TypeCorrect == Spec => []TypeOK
<1>1. TypeInv => TypeOK
  BY DEF TypeInv
<1> QED
  BY <1>1, TypeInvariant, PTL

-----------------------------------------------------------------------------
(* The period.                                                             *)

\* A tick makes a time a tick longer, and the order of ticks is that of times.
LEMMA TickOfTime ==
    ASSUME NEW x \in Int, NEW y \in Int
    PROVE  /\ x * MicrosPerTick \in Int
           /\ x * MicrosPerTick + MicrosPerTick = (x + 1) * MicrosPerTick
           /\ x * MicrosPerTick - y * MicrosPerTick = (x - y) * MicrosPerTick
           /\ x < y => x * MicrosPerTick < y * MicrosPerTick
<1>1. MicrosPerTick \in Nat \ {0}
  OBVIOUS
<1>2. x < y => x * MicrosPerTick < y * MicrosPerTick
  <2>1. ASSUME x < y PROVE (y - x) * MicrosPerTick > 0
    <3>1. y - x \in Nat /\ y - x > 0
      BY <2>1
    <3> QED
      BY <1>1, <3>1
  <2>2. y * MicrosPerTick - x * MicrosPerTick = (y - x) * MicrosPerTick
    BY <1>1
  <2> QED
    BY <1>1, <2>1, <2>2
<1> QED
  BY <1>1, <1>2

\* A tick nearer, the sum of the tick count and a delay one shorter is the same.
LEMMA SameMoment ==
    ASSUME NEW n \in Nat, NEW l \in Int, NEW w \in Int,
           (n + l) % Modulus = w % Modulus
    PROVE  /\ (((n + 1) % Modulus) + (l - 1)) % Modulus = w % Modulus
           /\ (((n + 1) % Modulus) + l) % Modulus = (w + 1) % Modulus
<1> DEFINE M == Modulus
<1>1. M \in Nat \ {0} /\ n + 1 \in Int /\ n + l \in Int /\ l - 1 \in Int
  OBVIOUS
<1> HIDE DEF M
<1>2. (((n + 1) % M) + (l - 1)) % M = ((n + 1) + (l - 1)) % M
  BY <1>1, RemainderOfSum
<1>3. (((n + 1) % M) + l) % M = ((n + 1) + l) % M
  BY <1>1, RemainderOfSum
<1>4. (((n + l) % M) + 1) % M = ((n + l) + 1) % M
  <2> DEFINE a == n + l
  <2>1. a \in Int
    BY <1>1
  <2> HIDE DEF a
  <2>2. \A b \in Int : ((a % M) + b) % M = (a + b) % M
    BY <1>1, <2>1, RemainderOfSum
  <2>3. 1 \in Int
    OBVIOUS
  <2> QED
    BY <2>2, <2>3, Zenon DEF a
<1>5. (n + 1) + (l - 1) = n + l /\ (n + 1) + l = (n + l) + 1
  OBVIOUS
<1>6. ((w % M) + 1) % M = (w + 1) % M
  <2>1. \A b \in Int : ((w % M) + b) % M = (w + b) % M
    BY <1>1, RemainderOfSum
  <2>2. 1 \in Int
    OBVIOUS
  <2> QED
    BY <2>1, <2>2, Zenon
<1>7. (n + l) % M = w % M
  BY DEF M
<1> QED
  BY <1>2, <1>3, <1>4, <1>5, <1>6, <1>7 DEF M

\* How late a timer is, as a number.
LEMMA LatenessType == \A i \in TimerIds : Lateness(i) \in {0, 1}
  BY DEF Lateness

\* A tick brings a waiting timer nearer to its request, or lets it expire.
LEMMA TickPeriod ==
    ASSUME TypeInv, PeriodInv, ClockTick
    PROVE  PeriodInv'
<1> SUFFICES ASSUME NEW i \in punctual PROVE Periodic(i)'
  BY DEF ClockTick, PeriodInv
<1>a. CASE Stopped(i)
  <2>1. /\ i \in TimerIds /\ remaining[i] = Idle /\ i < cyclic_requests_count
        /\ interval_ticks[i] >= 1 /\ interval[i] = interval_ticks[i] * MicrosPerTick
    BY <1>a DEF PeriodInv, Periodic, TypeInv, TypeOK
  <2>2. remaining'[i] = Idle /\ i \notin due' /\ Stopped(i)'
    BY <1>a, <2>1 DEF ClockTick, Idle, Stopped
  <2> QED
    BY <2>1, <2>2 DEF ClockTick, Periodic
<1> SUFFICES ASSUME ~Stopped(i)
             PROVE  /\ interval_ticks[i] >= 1
                    /\ interval[i] = interval_ticks[i] * MicrosPerTick
                    /\ IF i \in due' THEN Expired(i)' ELSE Waiting(i)'
  <2>1. ~Stopped(i) => ~Stopped(i)'
    BY DEF ClockTick, Stopped
  <2> QED
    BY <1>a, <2>1 DEF ClockTick, Periodic
<1> DEFINE L == Lateness(i)
           w == next_wakeup_ticks[i]
           t == interval_ticks[i]
           l == Left(i)
           x == t + L - l
<1>1. /\ i \in TimerIds /\ i \notin due
      /\ t >= 1 /\ interval[i] = t * MicrosPerTick /\ Waiting(i)
  BY DEF ClockTick, PeriodInv, Periodic, TypeInv, TypeOK
<1>2. /\ L \in {0, 1} /\ w \in Nat /\ t \in Nat /\ t < Modulus /\ l \in Nat
      /\ now \in Nat /\ i \in Nat /\ cyclic_requests_count \in Nat
      /\ remaining[i] \in Nat /\ age[i] \in Int /\ x \in Int
  BY <1>1, LatenessType, Counts, Numbers DEF TypeInv, Left
<1>3. /\ l > 0 /\ (now + l) % Modulus = (w + L) % Modulus
      /\ age[i] = x * MicrosPerTick
  BY <1>1 DEF Waiting
<1>4. /\ now' = (now + 1) % Modulus
      /\ i \in due' <=> remaining[i] = 1
      /\ remaining'[i] = IF remaining[i] = Idle THEN Idle ELSE remaining[i] - 1
      /\ next_wakeup_ticks'[i] = w /\ interval_ticks'[i] = t
      /\ cyclic_requests_count' = cyclic_requests_count /\ delta' = delta
      /\ delayed' = delayed \union (IF arming THEN {cyclic_requests_count} ELSE {})
      /\ ~(arming /\ cyclic_requests_count \in delayed)
  BY <1>1 DEF ClockTick
<1>5. age'[i] = (x + 1) * MicrosPerTick
  <2>1. x < Modulus /\ Modulus \in Int
    BY <1>2, <1>3
  <2>2. x * MicrosPerTick < Modulus * MicrosPerTick
    BY <1>2, <2>1, TickOfTime
  <2>3. age'[i] = age[i] + MicrosPerTick
    BY <1>1, <1>3, <2>2 DEF ClockTick, MaxAge
  <2> QED
    BY <1>2, <1>3, <2>3, TickOfTime
<1>6. /\ (now' + (l - 1)) % Modulus = (w + L) % Modulus
      /\ (now' + l) % Modulus = (w + L + 1) % Modulus
  <2> DEFINE v == w + L
  <2>1. v \in Int /\ l \in Int /\ now \in Nat /\ (now + l) % Modulus = v % Modulus
    BY <1>2, <1>3
  <2> HIDE DEF L, w, t, l, v
  <2>2. /\ (((now + 1) % Modulus) + (l - 1)) % Modulus = v % Modulus
        /\ (((now + 1) % Modulus) + l) % Modulus = (v + 1) % Modulus
    <3> DEFINE same(a, b, c) == /\ (((a + 1) % Modulus) + (b - 1)) % Modulus = c % Modulus
                                /\ (((a + 1) % Modulus) + b) % Modulus = (c + 1) % Modulus
    <3>1. \A a \in Nat, b, c \in Int : (a + b) % Modulus = c % Modulus => same(a, b, c)
      BY SameMoment
    <3> HIDE DEF same
    <3>2. same(now, l, v)
      BY <2>1, <3>1, Zenon
    <3> QED
      BY <3>2, Zenon DEF same
  <2> QED
    BY <1>4, <2>2 DEF v
<1> HIDE DEF w, t, x
<1>7. CASE i < cyclic_requests_count
  <2>1. l = remaining[i] /\ Lateness(i)' = L
    BY <1>2, <1>4, <1>7 DEF Left, Lateness
  <2>2. CASE remaining[i] = 1
    <3>1. x + 1 = t + L /\ l = 1
      BY <1>2, <2>1, <2>2 DEF x
    <3>2. now' = (w + L) % Modulus
      <4>1. (now' + (l - 1)) = now' /\ now' \in 0..(Modulus - 1) /\ Modulus \in Nat \ {0}
        <5>1. now + 1 \in Int /\ Modulus \in Nat \ {0}
          BY <1>2
        <5>2. now' \in 0..(Modulus - 1)
          BY <1>4, <5>1, Remainder
        <5> HIDE DEF l
        <5>3. l = 1 /\ now' \in Int
          BY <3>1, <5>1, <5>2
        <5>4. l - 1 = 0 /\ \A n \in Int : n + 0 = n
          BY <5>3
        <5>5. now' + (l - 1) = now'
          BY <5>3, <5>4, Zenon
        <5> QED
          BY <5>1, <5>2, <5>5
      <4>2. now' % Modulus = now'
        BY <4>1, RemainderOfSmall
      <4> QED
        BY <1>6, <4>1, <4>2
    <3>3. i \in due'
      BY <1>4, <2>2
    <3>4. Expired(i)'
      BY <1>4, <1>5, <2>1, <3>1, <3>2 DEF Expired
    <3> QED
      BY <1>1, <3>3, <3>4 DEF t
  <2>3. CASE remaining[i] # 1
    <3>1. i \notin due' /\ remaining'[i] = l - 1 /\ l - 1 > 0
      BY <1>2, <1>3, <1>4, <2>1, <2>3 DEF Idle
    <3>2. Left(i)' = l - 1
      BY <1>4, <1>7, <3>1 DEF Left
    <3>3. x + 1 = t + L - (l - 1)
      BY <1>2 DEF x
    <3> HIDE DEF l, L
    <3>4. Waiting(i)'
      BY <1>4, <1>5, <1>6, <2>1, <3>1, <3>2, <3>3 DEF Waiting
    <3> QED
      BY <1>1, <3>1, <3>4 DEF t
  <2> QED
    BY <2>2, <2>3
<1>8. CASE ~(i < cyclic_requests_count)
  <2>1. arming /\ i = cyclic_requests_count
    BY <1>1, <1>8 DEF TypeInv, TableInv, Created
  <2>2. remaining[i] = Idle
    BY <1>1, <1>2, <2>1 DEF TypeInv, TableInv
  <2>3. i \notin due' /\ Left(i)' = l /\ L = 0 /\ Lateness(i)' = 1
    BY <1>4, <1>8, <2>1, <2>2 DEF Idle, Left, Lateness
  <2>4. x + 1 = t + 1 - l /\ w + L + 1 = w + 1
    BY <1>2, <2>3 DEF x
  <2> HIDE DEF l, L
  <2>5. Waiting(i)'
    BY <1>3, <1>4, <1>5, <1>6, <2>3, <2>4 DEF Waiting
  <2> QED
    BY <1>1, <2>3, <2>5 DEF t
<1> QED
  BY <1>7, <1>8

\* The ticks that schedule_next_tick computes lead to the next wake-up time, even
\* if one of the two has wrapped around and the timer is late.
LEMMA CatchesUp ==
    ASSUME NEW n \in Nat, NEW w \in Int, NEW t \in Int, NEW late \in Int,
           n = (w + late) % Modulus, t - late \in 0..(Modulus - 1)
    PROVE  /\ (((w + t) % Modulus) - n) % Modulus = t - late
           /\ (n + (t - late)) % Modulus = ((w + t) % Modulus) % Modulus
<1> DEFINE M == Modulus
           next == (w + t) % M
           a == (w + t) \div M
           b == (w + late) \div M
<1>1. M \in Nat \ {0} /\ w + t \in Int /\ w + late \in Int
  OBVIOUS
<1>2. next \in 0..(M - 1) /\ a \in Int /\ w + t = M * a + next
  BY <1>1, Remainder
<1>3. n \in 0..(M - 1) /\ b \in Int /\ w + late = M * b + n
  BY <1>1, Remainder
<1>4. t - late \in 0..(M - 1)
  BY <1>1
<1> HIDE DEF M, next, a, b
<1>5. M * (b - a) = M * b - M * a /\ M * (a - b) = M * a - M * b
      /\ b - a \in Int /\ a - b \in Int
  BY <1>1, <1>2, <1>3
<1>6. next - n = M * (b - a) + (t - late) /\ next - n \in Int
  BY <1>1, <1>2, <1>3, <1>4, <1>5
<1>7. (next - n) % M = t - late
  <2> DEFINE d == t - late
             e == next - n
             q == b - a
  <2>1. d \in 0..(M - 1) /\ e \in Int /\ q \in Int /\ e = M * q + d
    BY <1>4, <1>5, <1>6
  <2> HIDE DEF d, e, q
  <2>2. e % M = d
    BY <1>1, <2>1, RemainderIs
  <2> QED
    BY <2>2 DEF d, e
<1>8. n + (t - late) = M * (a - b) + next /\ n + (t - late) \in Int
  BY <1>1, <1>2, <1>3, <1>4, <1>5
<1>9. (n + (t - late)) % M = next
  <2> DEFINE e == n + (t - late)
             q == a - b
  <2>1. e \in Int /\ q \in Int /\ e = M * q + next
    BY <1>5, <1>8
  <2> HIDE DEF e, q
  <2>2. e % M = next
    BY <1>1, <1>2, <2>1, RemainderIs
  <2> QED
    BY <2>2 DEF e
<1>10. next % M = next
  BY <1>1, <1>2, RemainderOfSmall
<1> QED
  BY <1>7, <1>9, <1>10 DEF M, next

\* What is said of a timer that a step leaves alone stays true.
LEMMA OthersPeriod ==
    ASSUME PeriodInv, NEW i \in punctual, now' = now,
           interval_ticks'[i] = interval_ticks[i], interval'[i] = interval[i],
           next_wakeup_ticks'[i] = next_wakeup_ticks[i], age'[i] = age[i],
           i \in due' <=> i \in due, i \in delayed' <=> i \in delayed,
           i \in slipped' <=> i \in slipped,
           i < cyclic_requests_count =>
              i < cyclic_requests_count' /\ remaining'[i] = remaining[i],
           Left(i)' = Left(i)
    PROVE  Periodic(i)'
<1>1. Lateness(i)' = Lateness(i) /\ Stopped(i)' = Stopped(i)
  BY DEF Lateness, Stopped
<1> QED
  BY <1>1 DEF PeriodInv, Periodic, Expired, Waiting

\* The callback of an expired timer arms it for its next request.
LEMMA CallbackPeriod ==
    ASSUME TypeInv, PeriodInv, NEW i \in TimerIds, timer_callback(i)
    PROVE  PeriodInv'
<1> DEFINE L == Lateness(i)
           w == next_wakeup_ticks[i]
           t == interval_ticks[i]
           next == NextWakeup(w, t)
<1>1. /\ i \in due /\ due' = due \ {i} /\ delayed' = delayed \ {i}
      /\ slipped' = slipped \union ({i} \intersect delayed)
      /\ age' = [age EXCEPT ![i] = IF i \in punctual THEN @ - interval[i] ELSE @]
      /\ next_wakeup_ticks' = [next_wakeup_ticks EXCEPT ![i] = next]
      /\ rtems_timer_fire_after(i, TicksUntil(next))
      /\ UNCHANGED <<now, cyclic_requests_count, arming, delta, interval_ticks,
                     interval, punctual>>
  BY DEF timer_callback, RequestSent, schedule_next_tick
<1>2. /\ L \in {0, 1} /\ w \in Nat /\ t \in Nat /\ t < Modulus /\ now \in Nat
      /\ i \in Nat /\ cyclic_requests_count \in Nat /\ i < cyclic_requests_count
  BY <1>1, LatenessType, Counts, Numbers DEF TypeInv, TableInv
<1>3. ASSUME NEW j \in punctual, j # i PROVE Periodic(j)'
  <2>1. j \in TimerIds
    BY DEF TypeInv, TypeOK
  <2>2. remaining'[j] = remaining[j]
    BY <1>1, <1>3, <2>1 DEF rtems_timer_fire_after, TypeInv, TypeOK
  <2>3. Left(j)' = Left(j)
    BY <1>1, <2>2 DEF Left
  <2>4. next_wakeup_ticks'[j] = next_wakeup_ticks[j] /\ age'[j] = age[j]
    BY <1>1, <1>3, <2>1 DEF TypeInv, TypeOK
  <2>5. /\ j \in due' <=> j \in due
        /\ j \in delayed' <=> j \in delayed
        /\ j \in slipped' <=> j \in slipped
    BY <1>1, <1>3
  <2> QED
    BY <1>1, <2>2, <2>3, <2>4, <2>5, OthersPeriod
<1>4. ASSUME i \in punctual PROVE Periodic(i)'
  <2>1. /\ t >= 1 /\ interval[i] = t * MicrosPerTick /\ ~Stopped(i)
        /\ now = (w + L) % Modulus /\ age[i] = (t + L) * MicrosPerTick
    BY <1>1, <1>4 DEF PeriodInv, Periodic, Expired
  <2>a. Stopped(i)' <=> t = 1 /\ L = 1
    BY <1>1, <2>1 DEF Stopped, Lateness
  <2> HIDE DEF L, w, t
  <2>2. t - L \in 0..(Modulus - 1) /\ t \in Int /\ w \in Int /\ L \in Int
    BY <1>2, <2>1
  <2>3. /\ (next - now) % Modulus = t - L
        /\ (now + (t - L)) % Modulus = next % Modulus
    <3> DEFINE leads(a, b, c, d) ==
                  /\ (((b + c) % Modulus) - a) % Modulus = c - d
                  /\ (a + (c - d)) % Modulus = ((b + c) % Modulus) % Modulus
    <3>1. \A a \in Nat, b \in Int, c \in Int, d \in Int :
             a = (b + d) % Modulus =>
                (c - d \in 0..(Modulus - 1) => leads(a, b, c, d))
      BY CatchesUp, Zenon
    <3> HIDE DEF leads
    <3>2. now \in Nat /\ now = (w + L) % Modulus
      BY <1>2, <2>1
    <3>3. leads(now, w, t, L)
      BY <2>2, <3>1, <3>2, Zenon
    <3> QED
      <4>1. /\ (((w + t) % Modulus) - now) % Modulus = t - L
            /\ (now + (t - L)) % Modulus = ((w + t) % Modulus) % Modulus
        BY <3>3, Zenon DEF leads
      <4>2. next = (w + t) % Modulus
        BY Zenon DEF NextWakeup, w, t
      <4> QED
        BY <4>1, <4>2, Zenon
  <2>b. TicksUntil(next) = t - L
    BY <2>3 DEF TicksUntil
  <2>4. remaining'[i] = t - L
    <3>1. remaining[i] = Idle
      BY <1>1 DEF TypeInv, TableInv
    <3>2. t - L >= 0
      BY <2>2
    <3> HIDE DEF next
    <3> QED
      BY <1>1, <2>2, <2>b, <3>1, <3>2 DEF rtems_timer_fire_after, TypeInv, TypeOK, Idle
  <2>c. CASE t - L = 0
    <3>1. t = 1 /\ L = 1
      BY <1>2, <2>1, <2>c
    <3>2. interval_ticks'[i] = t
      BY <1>1 DEF t
    <3> QED
      BY <1>1, <1>2, <2>1, <2>4, <2>a, <2>c, <3>1, <3>2 DEF Periodic, Idle
  <2>5. Left(i)' = t - L /\ Lateness(i)' = 0
    BY <1>1, <1>2, <2>4 DEF Left, Lateness
  <2>6. next_wakeup_ticks'[i] = next /\ next + 0 = next
    <3>1. next \in Int
      BY <2>2, WakeupType, Numbers
    <3> HIDE DEF next
    <3> QED
      BY <1>1, <3>1 DEF TypeInv, TypeOK
  <2>7. age'[i] = (t + 0 - (t - L)) * MicrosPerTick
    <3>1. age'[i] = age[i] - interval[i]
      BY <1>1, <1>4 DEF TypeInv, TypeOK
    <3>2. (t + L) * MicrosPerTick - t * MicrosPerTick = ((t + L) - t) * MicrosPerTick
      <4>1. t + L \in Int
        BY <2>2
      <4> QED
        BY <2>2, <4>1, TickOfTime
    <3>3. (t + L) - t = t + 0 - (t - L)
      BY <2>2
    <3> QED
      BY <2>1, <3>1, <3>2, <3>3
  <2> HIDE DEF next
  <2>d. CASE t - L # 0
    <3>1. ~(t = 1 /\ L = 1) /\ t - L > 0
      BY <2>2, <2>d
    <3>2. interval_ticks'[i] = t
      BY <1>1 DEF t
    <3>3. Waiting(i)'
      BY <1>1, <2>3, <2>5, <2>6, <2>7, <3>1, <3>2 DEF Waiting
    <3> QED
      BY <1>1, <2>1, <2>a, <3>1, <3>2, <3>3 DEF Periodic
  <2> QED
    BY <2>c, <2>d
<1> QED
  BY <1>1, <1>3, <1>4 DEF PeriodInv

\* A timer is armed for the delay that was computed for it.
LEMMA ArmPeriod ==
    ASSUME TypeInv, PeriodInv, ArmTimer
    PROVE  PeriodInv'
<1> SUFFICES ASSUME NEW i \in punctual PROVE Periodic(i)'
  BY DEF ArmTimer, PeriodInv
<1>1. /\ due = {} /\ arming /\ i \in TimerIds /\ i \in Nat
      /\ cyclic_requests_count \in Nat
      /\ cyclic_requests_count' = cyclic_requests_count + 1
      /\ Created(i) /\ (~Stopped(i) => Waiting(i))
      /\ Stopped(i) => i < cyclic_requests_count
  BY Counts, Numbers DEF ArmTimer, TypeInv, TypeOK, TableInv, PeriodInv, Periodic
<1>3. ASSUME i < cyclic_requests_count
      PROVE  i < cyclic_requests_count' /\ remaining'[i] = remaining[i]
  <2>1. i # cyclic_requests_count /\ i < cyclic_requests_count + 1
    BY <1>1, <1>3
  <2> QED
    BY <1>1, <2>1 DEF ArmTimer, rtems_timer_fire_after, TypeInv, TypeOK
<1>2. Left(i)' = Left(i)
  <2>1. CASE i < cyclic_requests_count
    <3>1. i < cyclic_requests_count + 1
      BY <1>1, <1>3, <2>1
    <3>2. remaining'[i] = remaining[i]
      BY <1>3, <2>1
    <3> QED
      BY <1>1, <2>1, <3>1, <3>2 DEF Left
  <2>2. CASE ~(i < cyclic_requests_count)
    <3>1. i = cyclic_requests_count /\ i < cyclic_requests_count + 1
      BY <1>1, <2>2 DEF Created
    <3>2. Left(i) = delta /\ delta > 0
      BY <1>1, <2>2 DEF Left, Waiting
    <3>3. delta # 0
      BY <3>2, Counts DEF TypeInv
    <3>4. remaining'[i] = delta
      BY <1>1, <3>1, <3>3 DEF ArmTimer, rtems_timer_fire_after, TypeInv, TypeOK
    <3> QED
      BY <1>1, <3>1, <3>2, <3>4 DEF Left
  <2> QED
    BY <2>1, <2>2
<1> QED
  BY <1>2, <1>3, OthersPeriod DEF ArmTimer

\* The delay that is computed for a timer with a first request in the future.
LEMMA FirstWakeup ==
    ASSUME NEW n \in rtems_interval, NEW first \in Nat, first > n,
           first - n < Modulus
    PROVE  /\ ((first % Modulus) - n) % Modulus = first - n
           /\ (n + (first - n)) % Modulus = (first % Modulus) % Modulus
<1> DEFINE M == Modulus
           a == first \div M
           next == first % M
           d == first - n
<1>1. M \in Nat \ {0} /\ n \in 0..(M - 1) /\ d \in 0..(M - 1) /\ n + d = first
  BY DEF rtems_interval
<1>2. next \in 0..(M - 1) /\ a \in Int /\ first = M * a + next
  BY <1>1, Remainder
<1> HIDE DEF M, a, next
<1>3. (next - n) % M = d
  <2> DEFINE q == -a
             e == next - n
  <2>1. M * q = -(M * a)
    BY <1>1, <1>2
  <2>2. q \in Int /\ e \in Int /\ e = M * q + d /\ d \in 0..(M - 1)
    BY <1>1, <1>2, <2>1
  <2> HIDE DEF q, e, d
  <2>3. e % M = d
    BY <1>1, <2>2, RemainderIs
  <2> QED
    BY <2>3 DEF e
<1>4. next % M = next
  BY <1>1, <1>2, RemainderOfSmall
<1> QED
  BY <1>1, <1>3, <1>4 DEF M, next

\* A new punctual timer waits for the end of its first interval.
LEMMA CreatePeriod ==
    ASSUME TypeInv, PeriodInv, ThreadsCommon_CreateCyclicRequest
    PROVE  PeriodInv'
<1> DEFINE i == cyclic_requests_count
<1>1. PICK period \in Intervals, offset \in Offsets : FillEntry(i, period, offset)
  BY DEF ThreadsCommon_CreateCyclicRequest
<1> DEFINE t == ToTicks(period)
           o == ToTicks(offset)
           first == o + t
<1>2. /\ i \in TimerIds /\ i \in Nat /\ ~(i < i) /\ now \in Nat
      /\ now \in rtems_interval /\ ~arming /\ due = {}
      /\ i \notin punctual /\ i \notin delayed /\ i \notin slipped
  BY <1>1, Numbers, Counts
  DEF ThreadsCommon_CreateCyclicRequest, FillEntry, TypeInv, TypeOK, TableInv, Created
<1>3. /\ t \in Nat /\ o \in Nat
      /\ period % MicrosPerTick = 0 => period = t * MicrosPerTick
      /\ offset % MicrosPerTick = 0 => offset = o * MicrosPerTick
  <2>1. /\ period \in 0..(Modulus * MicrosPerTick - 1)
        /\ offset \in 0..(Modulus * MicrosPerTick - 1)
    BY InputsAssumption
  <2> QED
    BY <2>1, TicksInRange, Numbers
<1>4. /\ interval_ticks' = [interval_ticks EXCEPT ![i] = t]
      /\ next_wakeup_ticks' = [next_wakeup_ticks EXCEPT ![i] = NextWakeup(o, t)]
      /\ delta' = TicksUntil(NextWakeup(o, t))
      /\ arming' = TRUE
      /\ interval' = [interval EXCEPT ![i] = period]
      /\ UNCHANGED <<now, booted, cyclic_requests_count, remaining, due, delayed,
                     slipped>>
      /\ \/ /\ Punctual(period, offset)
            /\ punctual' = punctual \union {i}
            /\ age' = [age EXCEPT ![i] = now * MicrosPerTick - offset]
         \/ UNCHANGED <<punctual, age>>
  BY <1>1 DEF FillEntry
<1> HIDE DEF t, o
<1>5. ASSUME NEW j \in punctual PROVE Periodic(j)'
  <2>1. j \in TimerIds /\ j \in Nat /\ j # i /\ j < i
    BY <1>2, Numbers DEF TypeInv, TypeOK, TableInv, Created
  <2>2. /\ interval_ticks'[j] = interval_ticks[j] /\ interval'[j] = interval[j]
        /\ next_wakeup_ticks'[j] = next_wakeup_ticks[j] /\ age'[j] = age[j]
    BY <1>4, <2>1 DEF TypeInv, TypeOK
  <2>3. Left(j)' = Left(j)
    BY <1>4, <2>1 DEF Left
  <2> QED
    BY <1>4, <2>2, <2>3, OthersPeriod
<1>6. ASSUME Punctual(period, offset),
             age' = [age EXCEPT ![i] = now * MicrosPerTick - offset]
      PROVE  Periodic(i)'
  <2>1. /\ period > 0 /\ period = t * MicrosPerTick /\ offset = o * MicrosPerTick
        /\ first > now /\ first - now < Modulus
    BY <1>3, <1>6 DEF Punctual, t, o
  <2>2. t >= 1
    <3>1. t = 0 => t * MicrosPerTick = 0
      OBVIOUS
    <3> QED
      BY <1>3, <2>1, <3>1
  <2>3. /\ interval_ticks'[i] = t /\ interval'[i] = period
        /\ next_wakeup_ticks'[i] = NextWakeup(o, t)
        /\ age'[i] = now * MicrosPerTick - offset
    BY <1>2, <1>4, <1>6 DEF TypeInv, TypeOK
  <2>4. /\ TicksUntil(NextWakeup(o, t)) = first - now
        /\ (now + (first - now)) % Modulus = NextWakeup(o, t) % Modulus
    <3>1. first \in Nat
      BY <1>3
    <3> HIDE DEF first
    <3>2. /\ ((first % Modulus) - now) % Modulus = first - now
          /\ (now + (first - now)) % Modulus = (first % Modulus) % Modulus
      BY <1>2, <2>1, <3>1, FirstWakeup
    <3> QED
      BY <3>2 DEF TicksUntil, NextWakeup, first
  <2>5. Left(i)' = first - now /\ Lateness(i)' = 0 /\ first - now > 0
    <3>1. Left(i)' = delta' /\ Lateness(i)' = 0
      BY <1>2, <1>4 DEF Left, Lateness
    <3>2. first - now > 0
      BY <1>2, <1>3, <2>1
    <3> QED
      BY <1>4, <2>4, <3>1, <3>2
  <2>6. NextWakeup(o, t) + 0 = NextWakeup(o, t)
    <3>1. NextWakeup(o, t) \in Int
      BY <1>3, WakeupType, Numbers
    <3> QED
      BY <3>1
  <2>7. now * MicrosPerTick - offset = (t + 0 - (first - now)) * MicrosPerTick
    <3>1. now * MicrosPerTick - o * MicrosPerTick = (now - o) * MicrosPerTick
      BY <1>2, <1>3, TickOfTime
    <3>2. now - o = t + 0 - (first - now)
      BY <1>2, <1>3
    <3> QED
      BY <2>1, <3>1, <3>2
  <2> HIDE DEF first
  <2>8. Waiting(i)'
    <3>1. (now' + Left(i)') % Modulus = (next_wakeup_ticks'[i] + Lateness(i)') % Modulus
      BY <1>4, <2>3, <2>4, <2>5, <2>6
    <3>2. age'[i] = (interval_ticks'[i] + Lateness(i)' - Left(i)') * MicrosPerTick
      BY <2>3, <2>5, <2>7
    <3> QED
      BY <1>4, <2>5, <3>1, <3>2 DEF Waiting
  <2>9. ~Stopped(i)' /\ i \notin due'
    BY <1>2, <1>4 DEF Stopped
  <2>10. interval'[i] = interval_ticks'[i] * MicrosPerTick
    BY <2>1, <2>3
  <2>11. interval_ticks'[i] >= 1
    BY <2>2, <2>3
  <2> QED
    BY <1>4, <2>8, <2>9, <2>10, <2>11 DEF Periodic, Stopped, Waiting, Left, Lateness
<1>7. CASE UNCHANGED <<punctual, age>>
  BY <1>5, <1>7 DEF PeriodInv
<1>8. CASE /\ Punctual(period, offset)
           /\ punctual' = punctual \union {i}
           /\ age' = [age EXCEPT ![i] = now * MicrosPerTick - offset]
  BY <1>4, <1>5, <1>6, <1>8 DEF PeriodInv
<1> QED
  BY <1>4, <1>7, <1>8

\* The types and the period are an invariant.
LEMMA PeriodInvariant == Spec => [](TypeInv /\ PeriodInv)
<1>1. Init => PeriodInv
  BY DEF Init, PeriodInv
<1>2. TypeInv /\ PeriodInv /\ [Next]_vars => PeriodInv'
  <2> SUFFICES ASSUME TypeInv, PeriodInv, [Next]_vars PROVE PeriodInv'
    OBVIOUS
  <2>1. ASSUME UNCHANGED vars PROVE PeriodInv'
    BY <2>1 DEF vars, PeriodInv, Periodic, Stopped, Expired, Waiting, Left, Lateness
  <2> QED
    BY <2>1, TickPeriod, CallbackPeriod, CreatePeriod, ArmPeriod DEF Next, RefuseCreation
<1> QED
  BY <1>1, <1>2, TypeInvariant, PTL DEF Spec

\* A punctual timer sends its requests an interval apart, neither early nor
\* overdue, however often the tick count wraps around; a tick lost while it was
\* armed delays the first request only, or ends the requests of a timer with an
\* interval of one tick.
THEOREM SendsOnTimeCorrect == Spec => []SendsOnTime
<1>1. TypeInv /\ PeriodInv => SendsOnTime
  <2> SUFFICES ASSUME TypeInv, PeriodInv, NEW i \in punctual
               PROVE  LET wanted == interval[i] + Lateness(i) * MicrosPerTick
                      IN  /\ i \in due => ~Stopped(i) /\ age[i] = wanted
                          /\ i \notin due /\ ~Stopped(i) => age[i] < wanted
    BY DEF SendsOnTime
  <2> DEFINE t == interval_ticks[i]
             L == Lateness(i)
             l == Left(i)
  <2>1. /\ i \in TimerIds /\ t \in Int /\ L \in {0, 1} /\ L \in Int /\ l \in Int
        /\ interval[i] = t * MicrosPerTick
    BY Counts, LatenessType DEF TypeInv, TypeOK, PeriodInv, Periodic, Left
  <2>2. t * MicrosPerTick + L * MicrosPerTick = (t + L) * MicrosPerTick
    <3>1. CASE L = 0
      <4>1. t * MicrosPerTick \in Int /\ 0 * MicrosPerTick = 0 /\ t + 0 = t
        BY <2>1, TickOfTime
      <4> QED
        BY <3>1, <4>1
    <3>2. CASE L = 1
      <4>1. 1 * MicrosPerTick = MicrosPerTick
        OBVIOUS
      <4>2. t * MicrosPerTick + MicrosPerTick = (t + 1) * MicrosPerTick
        BY <2>1, TickOfTime
      <4> QED
        BY <3>2, <4>1, <4>2
    <3> HIDE DEF L
    <3> QED
      BY <2>1, <3>1, <3>2
  <2>3. CASE i \in due
    BY <2>1, <2>2, <2>3 DEF PeriodInv, Periodic, Expired
  <2>4. CASE i \notin due /\ ~Stopped(i)
    <3>1. l > 0 /\ age[i] = (t + L - l) * MicrosPerTick
      BY <2>4 DEF PeriodInv, Periodic, Waiting
    <3> HIDE DEF t, L, l
    <3>2. t + L - l \in Int /\ t + L \in Int /\ t + L - l < t + L
      BY <2>1, <3>1
    <3>3. (t + L - l) * MicrosPerTick < (t + L) * MicrosPerTick
      BY <3>2, TickOfTime
    <3> QED
      BY <2>1, <2>2, <2>4, <3>1, <3>3 DEF L
  <2> QED
    BY <2>3, <2>4
<1> QED
  BY <1>1, PeriodInvariant, PTL

\* A punctual timer that waits is armed for the tick that next_wakeup_ticks
\* tells; only one with an interval of one tick, which lost a tick while it was
\* armed, is not armed after its first request.
THEOREM ArmedForWakeupCorrect == Spec => []ArmedForWakeup
<1>1. TypeInv /\ PeriodInv => ArmedForWakeup
  <2> SUFFICES ASSUME TypeInv, PeriodInv, NEW i \in punctual \ due,
                      i < cyclic_requests_count
               PROVE  IF Stopped(i) THEN remaining[i] = Idle
                      ELSE /\ remaining[i] # Idle
                           /\ (now + remaining[i]) % Modulus
                                 = (next_wakeup_ticks[i] + Lateness(i)) % Modulus
    BY DEF ArmedForWakeup
  <2>1. CASE Stopped(i)
    BY <2>1 DEF PeriodInv, Periodic
  <2>2. CASE ~Stopped(i)
    <3>1. Waiting(i) /\ Left(i) = remaining[i]
      BY <2>2 DEF PeriodInv, Periodic, Left
    <3> QED
      BY <2>2, <3>1 DEF Waiting, Idle
  <2> QED
    BY <2>1, <2>2
<1> QED
  BY <1>1, PeriodInvariant, PTL

=============================================================================
