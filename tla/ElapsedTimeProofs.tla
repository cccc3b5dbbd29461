------------------------- MODULE ElapsedTimeProofs -------------------------
(***************************************************************************)
(* Proofs about the elapsed-time service, for any readers, any counter     *)
(* period and any number of overflows short of the width of                *)
(* reloads_counter (about 174 days of operation at 150 MHz).               *)
(***************************************************************************)
EXTENDS ElapsedTime, TLAPS

USE DEF hardware, shared, history

\* The condition the theorems are about: reloads_counter does not roll over.
NoRollover == MaxReloads < ReloadModulus

\* Only one task uses the service.
OneReader == \A r, s \in Readers : r = s

-----------------------------------------------------------------------------
(* The constants, and the arithmetic of the clock.                         *)

\* The counter goes through at least one value and reloads_counter through
\* at least one.
LEMMA ConstantsType ==
    /\ CounterPeriod \in Nat \ {0}
    /\ TicksPerReload \in Nat \ {0}
    /\ ReloadModulus \in Nat \ {0}
    /\ MaxReloads \in Nat
    /\ CounterPeriod - 1 <= TicksPerReload
  BY CounterAssumption, ReloadsAssumption

\* A number reduced modulo m is below m, and unchanged if it was.
LEMMA ModuloRange ==
    ASSUME NEW a \in Nat, NEW m \in Nat \ {0}
    PROVE  /\ a % m \in 0..(m - 1)
           /\ a < m => a % m = a
  OBVIOUS

\* The product of naturals is a natural and grows with each factor.
LEMMA TimesMonotone ==
    ASSUME NEW a \in Nat, NEW b \in Nat, NEW t \in Nat, a <= b
    PROVE  /\ a * t \in Nat
           /\ a * t <= b * t
  OBVIOUS

\* One more overflow adds TICKS_PER_RELOAD to the time.
LEMMA TimesSuccessor ==
    ASSUME NEW a \in Nat, NEW t \in Nat
    PROVE  (a + 1) * t = a * t + t
  OBVIOUS
-----------------------------------------------------------------------------
(* The conversion to nanoseconds.                                          *)

\* A quotient is known by the multiples around the dividend.
LEMMA QuotientUnique ==
    ASSUME NEW n \in Nat, NEW d \in Nat \ {0}, NEW k \in Nat,
           d * k <= n, n < d * (k + 1)
    PROVE  n \div d = k
  OBVIOUS

\* A dividend lies between the multiples around it.
LEMMA QuotientBounds ==
    ASSUME NEW n \in Nat, NEW d \in Nat \ {0}
    PROVE  /\ n \div d \in Nat /\ n % d \in Nat /\ n % d < d
           /\ n = d * (n \div d) + (n % d)
<1>1. n = d * (n \div d) + (n % d)
  OBVIOUS
<1>2. n % d \in 0..(d - 1)
  OBVIOUS
<1>3. n \div d \in Nat
  OBVIOUS
<1> QED
  BY <1>1, <1>2, <1>3

\* Fixed-point multiplication by halves: of the four partial products, three are
\* exact multiples of 1 and only the fourth is cut.
LEMMA ProductByHalves ==
    ASSUME NEW h \in Nat \ {0}, NEW t \in Nat, NEW q \in Nat
    PROVE  (t * q) \div h = (t \div h) * q
                            + ((t % h) * (q \div h) + ((t % h) * (q % h)) \div h)
<1> DEFINE th == t \div h
           tl == t % h
           qh == q \div h
           ql == q % h
           c == (tl * ql) \div h
<1>1. /\ th \in Nat /\ tl \in Nat /\ qh \in Nat /\ ql \in Nat
      /\ t = h * th + tl /\ q = h * qh + ql
  BY QuotientBounds
<1>2. tl * ql \in Nat
  BY <1>1
<1>3. c \in Nat /\ h * c <= tl * ql /\ tl * ql < h * (c + 1)
  <2> DEFINE p == tl * ql
  <2> p \in Nat
    BY <1>2
  <2> HIDE DEF p
  <2>1. p \div h \in Nat /\ h * (p \div h) <= p /\ p < h * ((p \div h) + 1)
    BY QuotientBounds
  <2> QED
    BY <2>1 DEF p
<1>4. (t * q) \in Nat /\ th * q \in Nat /\ tl * qh \in Nat
  BY <1>1
<1> HIDE DEF th, tl, qh, ql, c
<1>5. t * q = h * (th * q + tl * qh) + tl * ql
  <2>1. t * q = (h * th) * q + tl * q
    BY <1>1
  <2>2. tl * q = tl * (h * qh) + tl * ql
    BY <1>1
  <2>3. (h * th) * q = h * (th * q) /\ tl * (h * qh) = h * (tl * qh)
    BY <1>1
  <2>4. h * (th * q) + h * (tl * qh) = h * (th * q + tl * qh)
    BY <1>4
  <2> QED
    BY <2>1, <2>2, <2>3, <2>4, <1>2, <1>4
<1>6. (t * q) \div h = th * q + tl * qh + c
  <2> DEFINE a == th * q + tl * qh
             n == t * q
             p == tl * ql
  <2>1. a \in Nat /\ n \in Nat /\ p \in Nat /\ n = h * a + p
    BY <1>2, <1>4, <1>5
  <2> HIDE DEF a, n, p
  <2>2. h * (a + c) = h * a + h * c /\ h * (a + c + 1) = h * a + h * (c + 1)
    BY <1>3, <2>1
  <2>3. h * c <= p /\ p < h * (c + 1)
    BY <1>3 DEF p
  <2>4. h * (a + c) <= n /\ n < h * (a + c + 1)
    BY <1>3, <2>1, <2>2, <2>3
  <2>5. n \div h = a + c
    BY <1>3, <2>1, <2>4, QuotientUnique
  <2> QED
    BY <2>5 DEF a, n
<1> QED
  BY <1>3, <1>4, <1>6 DEF th, tl, qh, ql, c

\* The longer time has no fewer nanoseconds.
LEMMA NanosecondsMonotone ==
    ASSUME NEW t \in Nat, NEW u \in Nat, t <= u
    PROVE  Nanoseconds(t) \in Nat /\ Nanoseconds(t) <= Nanoseconds(u)
<1>1. ns_per_tick_q32 \in Nat /\ Half \in Nat \ {0}
  BY ScaleAssumption
<1> DEFINE m == t * ns_per_tick_q32
           n == u * ns_per_tick_q32
<1>2. m \in Nat /\ n \in Nat /\ m <= n
  BY <1>1, TimesMonotone
<1> HIDE DEF m, n
<1>3. /\ m \div Half \in Nat /\ Half * (m \div Half) <= m
      /\ n \div Half \in Nat /\ n < Half * ((n \div Half) + 1)
  BY <1>1, <1>2, QuotientBounds
<1>4. m \div Half <= n \div Half
  BY <1>1, <1>2, <1>3
<1> QED
  BY <1>3, <1>4 DEF Nanoseconds, m, n

\* No product or sum of ToNs exceeds 64 bits and no carry is lost: for every
\* time the counters can express, the nanoseconds are exact.
THEOREM ConversionIsExact ==
    ASSUME NEW t \in Nat, t < ReloadModulus * TicksPerReload + CounterPeriod
    PROVE  ToNs(t) = Nanoseconds(t)
<1> DEFINE h == Half
           q == ns_per_tick_q32
           tq == t * q
           a == (t \div h) * q
           b == (t % h) * (q \div h)
           p == (t % h) * (q % h)
           c == p \div h
<1>1. h \in Nat \ {0} /\ q \in Nat
  BY ScaleAssumption
<1>2. /\ a \in Nat /\ b \in Nat /\ p \in Nat /\ tq \in Nat
      /\ p < h * h
  <2>1. /\ t \div h \in Nat /\ t % h \in Nat /\ t % h < h
        /\ q \div h \in Nat /\ q % h \in Nat /\ q % h < h
    BY <1>1, QuotientBounds
  <2> DEFINE tl == t % h
             ql == q % h
  <2>2. tl \in Nat /\ ql \in Nat /\ tl <= h - 1 /\ ql <= h - 1
    BY <1>1, <2>1
  <2> HIDE DEF tl, ql
  <2>3. tl * ql <= (h - 1) * ql /\ (h - 1) * ql < h * h
    BY <1>1, <2>2
  <2>4. p < h * h
    BY <1>1, <2>2, <2>3 DEF tl, ql
  <2> QED
    BY <1>1, <2>1, <2>4
<1>3. c \in Nat
  BY <1>1, <1>2, QuotientBounds
<1>4. tq \div h = a + (b + c)
  BY <1>1, ProductByHalves
<1>5. tq < h * h * h
  <2>1. ReloadModulus * TicksPerReload + CounterPeriod \in Nat
    BY ConstantsType
  <2>2. tq <= (ReloadModulus * TicksPerReload + CounterPeriod) * q
    BY <1>1, <2>1, TimesMonotone
  <2> QED
    BY <1>1, <1>2, <2>1, <2>2, ScaleAssumption
<1>6. a + (b + c) < h * h
  <2> HIDE DEF a, b, c, tq
  <2>1. h * (a + (b + c)) <= tq
    BY <1>1, <1>2, <1>3, <1>4, QuotientBounds
  <2>2. h * (a + (b + c)) < h * (h * h)
    BY <1>1, <1>2, <1>3, <1>5, <2>1
  <2> QED
    BY <1>1, <1>2, <1>3, <2>2
<1>7. ASSUME NEW n \in Nat, n < h * h PROVE Uint64(n) = n
  BY <1>1, <1>7, ModuloRange DEF Uint64
<1>8. ToNs(t) = Uint64(Uint64(a) + Uint64(Uint64(b) + Uint64(p) \div h))
  BY DEF ToNs, ns_per_tick_q32_hi, ns_per_tick_q32_lo
<1> HIDE DEF a, b, p
<1>9. Uint64(p) \div h = c /\ Uint64(b) = b /\ Uint64(a) = a
  BY <1>1, <1>2, <1>3, <1>6, <1>7
<1>10. Uint64(b + c) = b + c /\ Uint64(a + (b + c)) = a + (b + c)
  BY <1>1, <1>2, <1>3, <1>6, <1>7
<1> QED
  BY <1>4, <1>8, <1>9, <1>10 DEF Nanoseconds

-----------------------------------------------------------------------------
(* Type correctness.                                                       *)

\* Every variable keeps its type, in particular the 32-bit reloads_counter.
THEOREM TypeCorrect == Spec => []TypeOK
<1> USE ConstantsType DEF TypeOK
<1>1. Init => TypeOK
  <2> SUFFICES ASSUME Init PROVE TypeOK
    OBVIOUS
  <2> USE DEF Init
  <2>1. counter \in 0..(CounterPeriod - 1) /\ wraps \in 0..MaxReloads
    OBVIOUS
  <2>2. irqPending \in BOOLEAN /\ reloads_modified_flag \in BOOLEAN
    OBVIOUS
  <2>3. reloads_counter \in 0..(ReloadModulus - 1)
    OBVIOUS
  <2>4. pc \in [Readers -> {"idle", "reset", "load", "sample", "check"}]
    OBVIOUS
  <2>5. reloads \in [Readers -> 0..(ReloadModulus - 1)]
    OBVIOUS
  <2>6. ticks \in [Readers -> 0..(CounterPeriod - 1)]
    OBVIOUS
  <2>7. started \in [Readers -> [wraps : 0..MaxReloads,
                                counter : 0..(CounterPeriod - 1)]]
    OBVIOUS
  <2>8. retries \in [Readers -> Nat] /\ result \in [Readers -> Nat]
    OBVIOUS
  <2>9. imminent \in [Readers -> BOOLEAN]
    OBVIOUS
  <2>10. QED
    BY <2>1, <2>2, <2>3, <2>4, <2>5, <2>6, <2>7, <2>8, <2>9
<1>2. TypeOK /\ [Next]_vars => TypeOK'
  <2> SUFFICES ASSUME TypeOK, [Next]_vars PROVE TypeOK'
    OBVIOUS
  <2>1. CASE HardwareTick
    <3>1. counter' \in 0..(CounterPeriod - 1)
      BY <2>1 DEF HardwareTick, CountUp, Overflow
    <3>2. wraps' \in 0..MaxReloads
      BY <2>1 DEF HardwareTick, CountUp, Overflow
    <3>3. irqPending' \in BOOLEAN
      BY <2>1 DEF HardwareTick, CountUp, Overflow
    <3>4. QED
      BY <2>1, <3>1, <3>2, <3>3 DEF HardwareTick
  <2>2. CASE timer_irq_handler
    <3>1. reloads_counter' \in 0..(ReloadModulus - 1)
      <4>1. reloads_counter + 1 \in Nat
        OBVIOUS
      <4>2. QED
        BY <2>2, <4>1, ModuloRange DEF timer_irq_handler
    <3>2. QED
      BY <2>2, <3>1 DEF timer_irq_handler
  <2>3. ASSUME NEW r \in Readers, CallGetElapsedTime(r) PROVE TypeOK'
    BY <2>3 DEF CallGetElapsedTime
  <2>4. ASSUME NEW r \in Readers, ResetFlag(r) PROVE TypeOK'
    BY <2>4 DEF ResetFlag
  <2>5. ASSUME NEW r \in Readers, LoadReloads(r) PROVE TypeOK'
    BY <2>5 DEF LoadReloads
  <2>6. ASSUME NEW r \in Readers, SampleCounter(r) PROVE TypeOK'
    BY <2>6 DEF SampleCounter
  <2>7. ASSUME NEW r \in Readers, CheckFlag(r) PROVE TypeOK'
    <3>1. TotalTicks(r) \in Nat
      <4>1. reloads[r] \in Nat /\ ticks[r] \in Nat
        OBVIOUS
      <4>2. reloads[r] * TicksPerReload \in Nat
        BY <4>1, TimesMonotone
      <4>3. QED
        BY <4>1, <4>2 DEF TotalTicks
    <3>2. CASE Retry(r)
      BY <2>7, <3>2 DEF CheckFlag, Retry
    <3>3. CASE Return(r)
      BY <2>7, <3>1, <3>3 DEF CheckFlag, Return, Leave
    <3>4. QED
      BY <2>7, <3>2, <3>3 DEF CheckFlag
  <2>8. CASE UNCHANGED vars
    BY <2>8 DEF vars
  <2>9. QED
    BY <2>1, <2>2, <2>3, <2>4, <2>5, <2>6, <2>7, <2>8 DEF Next, ReaderStep
<1>3. QED
  BY <1>1, <1>2, PTL DEF Spec

-----------------------------------------------------------------------------
(* The clock of the hardware, and the count kept of its overflows.         *)

\* Interrupts handled so far: all the overflows but the pending one.
CountsOverflows ==
    /\ irqPending => reloads_counter + 1 = wraps
    /\ ~irqPending => reloads_counter = wraps

\* Under NoRollover, reloads_counter follows the overflows of the hardware.
LEMMA CountsOverflowsInvariant ==
    ASSUME NoRollover
    PROVE  Spec => []CountsOverflows
<1> USE ConstantsType DEF TypeOK, CountsOverflows
<1>1. Init => CountsOverflows
  BY DEF Init
<1>2. TypeOK /\ CountsOverflows /\ [Next]_vars => CountsOverflows'
  <2> SUFFICES ASSUME TypeOK, CountsOverflows, [Next]_vars
               PROVE  CountsOverflows'
    OBVIOUS
  <2>1. CASE HardwareTick
    BY <2>1 DEF HardwareTick, CountUp, Overflow
  <2>2. CASE timer_irq_handler
    <3>1. reloads_counter + 1 \in Nat /\ reloads_counter + 1 < ReloadModulus
      BY <2>2, NoRollover DEF timer_irq_handler, NoRollover
    <3>2. reloads_counter' = reloads_counter + 1
      BY <2>2, <3>1, ModuloRange DEF timer_irq_handler
    <3>3. QED
      BY <2>2, <3>2 DEF timer_irq_handler
  <2>3. ASSUME NEW r \in Readers, ReaderStep(r) PROVE CountsOverflows'
    BY <2>3 DEF ReaderStep, CallGetElapsedTime, ResetFlag, LoadReloads,
                SampleCounter, CheckFlag
  <2>4. CASE UNCHANGED vars
    BY <2>4 DEF vars
  <2>5. QED
    BY <2>1, <2>2, <2>3, <2>4 DEF Next
<1>3. QED
  BY <1>1, <1>2, TypeCorrect, PTL DEF Spec

\* The time is a natural number.
LEMMA ClockType ==
    ASSUME TypeOK
    PROVE  /\ ClockValue \in Nat
           /\ \A r \in Readers : StartTime(r) \in Nat
           /\ \A r \in Readers : TotalTicks(r) \in Nat
           /\ \A r \in Readers : result[r] \in Nat
<1> USE ConstantsType DEF TypeOK
<1>1. ClockValue \in Nat
  <2>1. wraps \in Nat /\ counter \in Nat
    OBVIOUS
  <2>2. wraps * TicksPerReload \in Nat
    BY <2>1, TimesMonotone
  <2> HIDE DEF TypeOK
  <2>3. QED
    BY <2>1, <2>2 DEF ClockValue, TimeAt
<1>2. ASSUME NEW r \in Readers PROVE StartTime(r) \in Nat
  <2>1. started[r].wraps \in Nat /\ started[r].counter \in Nat
    OBVIOUS
  <2>2. started[r].wraps * TicksPerReload \in Nat
    BY <2>1, TimesMonotone
  <2>3. QED
    BY <2>1, <2>2 DEF StartTime, TimeAt
<1>3. ASSUME NEW r \in Readers PROVE TotalTicks(r) \in Nat
  <2>1. reloads[r] \in Nat /\ ticks[r] \in Nat
    OBVIOUS
  <2>2. reloads[r] * TicksPerReload \in Nat
    BY <2>1, TimesMonotone
  <2>3. QED
    BY <2>1, <2>2 DEF TotalTicks
<1>4. QED
  BY <1>1, <1>2, <1>3

\* At initialisation the time is zero.
LEMMA InitialClock ==
    ASSUME Init
    PROVE  ClockValue = 0 /\ \A r \in Readers : StartTime(r) = 0
  BY ConstantsType DEF Init, ClockValue, StartTime, TimeAt

\* The clock never runs backwards: an overflow loses at most the last tick.
LEMMA ClockMonotone ==
    ASSUME TypeOK, HardwareTick
    PROVE  ClockValue <= ClockValue' /\ ClockValue' \in Nat
<1> USE ConstantsType DEF TypeOK
<1>1. wraps \in Nat /\ counter \in Nat /\ ClockValue \in Nat
  BY ClockType
<1>2. wraps * TicksPerReload \in Nat
  BY <1>1, TimesMonotone
<1>3. CASE CountUp
  <2>1. wraps' = wraps /\ counter' = counter + 1
    BY <1>3 DEF CountUp
  <2>2. QED
    BY <1>1, <1>2, <2>1 DEF ClockValue, TimeAt
<1>4. CASE Overflow
  <2>1. wraps' = wraps + 1 /\ counter' = 0 /\ counter <= TicksPerReload
    BY <1>4 DEF Overflow
  <2>2. (wraps + 1) * TicksPerReload = wraps * TicksPerReload + TicksPerReload
    BY <1>1, TimesSuccessor
  <2>3. QED
    BY <1>1, <1>2, <2>1, <2>2 DEF ClockValue, TimeAt
<1>5. QED
  BY <1>3, <1>4 DEF HardwareTick

-----------------------------------------------------------------------------
(* Never ahead of time, whoever shares the service.                        *)

\* NeverAhead in ticks.
TicksNeverAhead == \A r \in Readers : result[r] <= ClockValue

\* A reader that has loaded the reload count holds one that has been reached,
\* and one that has sampled the counter too holds a time that has come.
AheadInv ==
    /\ \A r \in Readers : pc[r] = "sample" => reloads[r] <= reloads_counter
    /\ \A r \in Readers : pc[r] = "check" => TotalTicks(r) <= ClockValue
    /\ TicksNeverAhead

\* Sampling after loading, a reader may miss an overflow but never count one
\* that has not happened.
LEMMA AheadInvariant ==
    ASSUME NoRollover
    PROVE  Spec => []AheadInv
<1>1. Init => AheadInv
  <2> SUFFICES ASSUME Init PROVE AheadInv
    OBVIOUS
  <2>1. ClockValue = 0
    BY InitialClock
  <2>2. QED
    BY <2>1 DEF Init, AheadInv, TicksNeverAhead
<1>2. TypeOK /\ CountsOverflows /\ AheadInv /\ [Next]_vars => AheadInv'
  <2> SUFFICES ASSUME TypeOK, CountsOverflows, AheadInv, [Next]_vars
               PROVE  AheadInv'
    OBVIOUS
  <2> USE DEF AheadInv, TicksNeverAhead
  <2>0. /\ ClockValue \in Nat
        /\ \A r \in Readers : TotalTicks(r) \in Nat
        /\ \A r \in Readers : result[r] \in Nat
    BY ClockType
  <2>1. CASE HardwareTick
    <3>1. ClockValue <= ClockValue' /\ ClockValue' \in Nat
      BY <2>1, ClockMonotone
    <3>2. /\ UNCHANGED <<pc, reloads, reloads_counter, result>>
          /\ \A r \in Readers : UNCHANGED TotalTicks(r)
      BY <2>1 DEF HardwareTick, TotalTicks
    <3>3. QED
      BY <2>0, <3>1, <3>2
  <2>2. CASE timer_irq_handler
    <3>1. UNCHANGED <<pc, reloads, ticks, result, counter, wraps>>
      BY <2>2 DEF timer_irq_handler
    <3>2. reloads_counter <= reloads_counter'
      <4>1. reloads_counter + 1 \in Nat /\ reloads_counter + 1 < ReloadModulus
        BY <2>2, NoRollover, ConstantsType
        DEF timer_irq_handler, NoRollover, TypeOK, CountsOverflows
      <4>2. reloads_counter' = reloads_counter + 1
        BY <2>2, <4>1, ConstantsType, ModuloRange DEF timer_irq_handler
      <4>3. QED
        BY <4>2, ConstantsType DEF TypeOK
    <3>3. /\ ClockValue' = ClockValue
          /\ \A r \in Readers : UNCHANGED TotalTicks(r)
      BY <3>1 DEF ClockValue, TimeAt, TotalTicks
    <3>4. \A r \in Readers :
             reloads[r] <= reloads_counter => reloads[r] <= reloads_counter'
      <4>1. reloads_counter' \in Nat
        BY <2>2, <3>2, ConstantsType, ModuloRange
        DEF timer_irq_handler, TypeOK
      <4>2. QED
        BY <3>2, <4>1, ConstantsType DEF TypeOK
    <3>5. QED
      BY <3>1, <3>3, <3>4
  <2>3. ASSUME NEW r \in Readers, ReaderStep(r) PROVE AheadInv'
    <3> USE <2>0
    <3>1. ClockValue' = ClockValue
      BY <2>3 DEF ReaderStep, CallGetElapsedTime, ResetFlag, LoadReloads,
                  SampleCounter, CheckFlag, ClockValue, TimeAt
    <3>2. CASE CallGetElapsedTime(r)
      BY <3>1, <3>2 DEF CallGetElapsedTime, TypeOK, TotalTicks
    <3>3. CASE ResetFlag(r)
      BY <3>1, <3>3 DEF ResetFlag, TypeOK, TotalTicks
    <3>4. CASE LoadReloads(r)
      BY <3>1, <3>4, ConstantsType DEF LoadReloads, TypeOK, TotalTicks
    <3>5. CASE SampleCounter(r)
      <4>1. reloads[r] \in Nat /\ wraps \in Nat /\ reloads[r] <= wraps
        BY <3>5, ConstantsType DEF SampleCounter, TypeOK, CountsOverflows
      <4>2. reloads[r] * TicksPerReload <= wraps * TicksPerReload
        BY <4>1, ConstantsType, TimesMonotone
      <4>3. TotalTicks(r)' = reloads[r] * TicksPerReload + counter
        BY <3>5 DEF SampleCounter, TypeOK, TotalTicks
      <4>4. TotalTicks(r)' <= ClockValue
        BY <4>1, <4>2, <4>3, ConstantsType, TimesMonotone
        DEF TypeOK, ClockValue, TimeAt
      <4>5. QED
        BY <3>1, <3>5, <4>4 DEF SampleCounter, TypeOK, TotalTicks
    <3>6. CASE CheckFlag(r)
      BY <3>1, <3>6 DEF CheckFlag, Retry, Return, Leave, TypeOK, TotalTicks
    <3>7. QED
      BY <2>3, <3>2, <3>3, <3>4, <3>5, <3>6 DEF ReaderStep
  <2>4. CASE UNCHANGED vars
    BY <2>4 DEF vars, TotalTicks, ClockValue, TimeAt
  <2>5. QED
    BY <2>1, <2>2, <2>3, <2>4 DEF Next
<1>3. QED
  BY <1>1, <1>2, TypeCorrect, CountsOverflowsInvariant, PTL DEF Spec

\* The nanoseconds a call returns are exact for the ticks it has read.
LEMMA ResultConverts ==
    ASSUME NoRollover, TypeOK, AheadInv, NEW r \in Readers
    PROVE  ToNs(result[r]) = Nanoseconds(result[r])
<1>1. result[r] \in Nat /\ ClockValue \in Nat /\ result[r] <= ClockValue
  BY ClockType DEF AheadInv, TicksNeverAhead
<1>2. /\ wraps \in Nat /\ counter \in Nat /\ counter < CounterPeriod
      /\ wraps <= ReloadModulus
  BY ConstantsType DEF TypeOK, NoRollover
<1>3. wraps * TicksPerReload <= ReloadModulus * TicksPerReload
  BY <1>2, ConstantsType, TimesMonotone
<1>4. wraps * TicksPerReload \in Nat /\ ReloadModulus * TicksPerReload \in Nat
  BY <1>2, ConstantsType, TimesMonotone
<1>5. ClockValue < ReloadModulus * TicksPerReload + CounterPeriod
  BY <1>2, <1>3, <1>4, ConstantsType DEF ClockValue, TimeAt
<1> QED
  BY <1>1, <1>4, <1>5, ConstantsType, ConversionIsExact

\* No call ever returns a time that has not come yet, however the readers
\* preempt each other and whenever the counter overflows.
THEOREM NeverAheadCorrect ==
    ASSUME NoRollover
    PROVE  Spec => []NeverAhead
<1>1. TypeOK /\ AheadInv => NeverAhead
  <2> SUFFICES ASSUME TypeOK, AheadInv, NEW r \in Readers
               PROVE  ToNs(result[r]) <= Nanoseconds(ClockValue)
    BY DEF NeverAhead
  <2>1. result[r] \in Nat /\ ClockValue \in Nat /\ result[r] <= ClockValue
    BY ClockType DEF AheadInv, TicksNeverAhead
  <2>2. ToNs(result[r]) = Nanoseconds(result[r])
    BY ResultConverts
  <2> QED
    BY <2>1, <2>2, NanosecondsMonotone
<1>2. QED
  BY <1>1, AheadInvariant, TypeCorrect, PTL

-----------------------------------------------------------------------------
(* Never behind the call, for a single task.                               *)

\* NeverBehind in ticks.
TicksNeverBehind ==
    \A r \in Readers : pc[r] = "idle" => StartTime(r) <= result[r]

\* As long as the flag is down since the reader reset it, its reload count is
\* the current one; and unless an overflow that was pending at the sample is
\* yet to raise the flag, the time it has read is not older than its call.
BehindInv ==
    /\ \A r \in Readers : StartTime(r) <= ClockValue
    /\ \A r \in Readers :
          pc[r] = "sample" /\ ~reloads_modified_flag
              => reloads[r] = reloads_counter
    /\ \A r \in Readers :
          pc[r] = "check" /\ ~reloads_modified_flag /\ ~imminent[r]
              => StartTime(r) <= TotalTicks(r)
    /\ TicksNeverBehind

\* With one reader the loop does find a consistent snapshot.
LEMMA BehindInvariant ==
    ASSUME NoRollover, OneReader
    PROVE  Spec => []BehindInv
<1>1. Init => BehindInv
  <2> SUFFICES ASSUME Init PROVE BehindInv
    OBVIOUS
  <2>1. ClockValue = 0 /\ \A r \in Readers : StartTime(r) = 0
    BY InitialClock
  <2>2. QED
    BY <2>1 DEF Init, BehindInv, TicksNeverBehind
<1>2. TypeOK /\ CountsOverflows /\ BehindInv /\ [Next]_vars => BehindInv'
  <2> SUFFICES ASSUME TypeOK, CountsOverflows, BehindInv, [Next]_vars
               PROVE  BehindInv'
    OBVIOUS
  <2> USE DEF BehindInv, TicksNeverBehind
  <2>0. /\ ClockValue \in Nat
        /\ \A r \in Readers : StartTime(r) \in Nat
        /\ \A r \in Readers : TotalTicks(r) \in Nat
        /\ \A r \in Readers : result[r] \in Nat
    BY ClockType
  <2>1. CASE HardwareTick
    <3>1. ClockValue <= ClockValue' /\ ClockValue' \in Nat
      BY <2>1, ClockMonotone
    <3>2. /\ UNCHANGED <<pc, reloads, ticks, imminent, started, result>>
          /\ UNCHANGED <<reloads_counter, reloads_modified_flag>>
      BY <2>1 DEF HardwareTick
    <3>3. \A r \in Readers : UNCHANGED TotalTicks(r) /\ UNCHANGED StartTime(r)
      BY <3>2 DEF TotalTicks, StartTime
    <3>4. QED
      BY <2>0, <3>1, <3>2, <3>3
  <2>2. CASE timer_irq_handler
    <3>1. /\ UNCHANGED <<pc, reloads, ticks, started, result, counter, wraps>>
          /\ reloads_modified_flag'
      BY <2>2 DEF timer_irq_handler
    <3>2. /\ ClockValue' = ClockValue
          /\ \A r \in Readers : UNCHANGED TotalTicks(r) /\ UNCHANGED StartTime(r)
      BY <3>1 DEF ClockValue, TimeAt, TotalTicks, StartTime
    <3>3. QED
      BY <3>1, <3>2
  <2>3. ASSUME NEW r \in Readers, ReaderStep(r) PROVE BehindInv'
    <3>0. \A s \in Readers : s = r
      BY OneReader DEF OneReader
    <3>1. ClockValue' = ClockValue
      BY <2>3 DEF ReaderStep, CallGetElapsedTime, ResetFlag, LoadReloads,
                  SampleCounter, CheckFlag, ClockValue, TimeAt
    <3>2. CASE CallGetElapsedTime(r)
      <4>1. pc'[r] = "reset" /\ StartTime(r)' = ClockValue
        BY <3>2 DEF CallGetElapsedTime, TypeOK, StartTime, ClockValue
      <4>2. QED
        BY <2>0, <3>0, <3>1, <4>1
    <3>3. CASE ResetFlag(r)
      <4>1. pc'[r] = "load" /\ StartTime(r)' = StartTime(r)
        BY <3>3 DEF ResetFlag, TypeOK, StartTime
      <4>2. QED
        BY <3>0, <3>1, <4>1
    <3>4. CASE LoadReloads(r)
      <4>1. /\ pc'[r] = "sample" /\ StartTime(r)' = StartTime(r)
            /\ reloads'[r] = reloads_counter /\ reloads_counter' = reloads_counter
        BY <3>4 DEF LoadReloads, TypeOK, StartTime
      <4>2. QED
        BY <3>0, <3>1, <4>1
    <3>5. CASE SampleCounter(r)
      <4>1. /\ pc'[r] = "check" /\ StartTime(r)' = StartTime(r)
            /\ reloads_modified_flag' = reloads_modified_flag
            /\ imminent'[r] = irqPending
            /\ TotalTicks(r)' = reloads[r] * TicksPerReload + counter
        BY <3>5 DEF SampleCounter, TypeOK, StartTime, TotalTicks
      <4>2. ~reloads_modified_flag /\ ~irqPending => TotalTicks(r)' = ClockValue
        BY <3>5, <4>1 DEF SampleCounter, CountsOverflows, ClockValue, TimeAt
      <4>3. QED
        BY <3>0, <3>1, <4>1, <4>2
    <3>6. CASE CheckFlag(r)
      <4>1. CASE Retry(r)
        <5>1. pc'[r] = "reset" /\ StartTime(r)' = StartTime(r)
          BY <3>6, <4>1 DEF CheckFlag, Retry, TypeOK, StartTime
        <5>2. QED
          BY <3>0, <3>1, <5>1
      <4>2. CASE Return(r)
        <5>1. /\ pc'[r] = "idle" /\ StartTime(r)' = StartTime(r)
              /\ result'[r] = TotalTicks(r)
          BY <3>6, <4>2 DEF CheckFlag, Return, Leave, TypeOK, StartTime
        <5>2. StartTime(r) <= TotalTicks(r)
          BY <3>6, <4>2 DEF CheckFlag, Return
        <5>3. QED
          BY <3>0, <3>1, <5>1, <5>2
      <4>3. QED
        BY <3>6, <4>1, <4>2 DEF CheckFlag
    <3>7. QED
      BY <2>3, <3>2, <3>3, <3>4, <3>5, <3>6 DEF ReaderStep
  <2>4. CASE UNCHANGED vars
    BY <2>4 DEF vars, TotalTicks, StartTime, ClockValue, TimeAt
  <2>5. QED
    BY <2>1, <2>2, <2>3, <2>4 DEF Next
<1>3. QED
  BY <1>1, <1>2, TypeCorrect, CountsOverflowsInvariant, PTL DEF Spec

\* A single task never gets a time older than its call, and so never sees the
\* time run backwards from one call to the next.
THEOREM NeverBehindCorrect ==
    ASSUME NoRollover, OneReader
    PROVE  Spec => []NeverBehind
<1>1. TypeOK /\ AheadInv /\ BehindInv => NeverBehind
  <2> SUFFICES ASSUME TypeOK, AheadInv, BehindInv, NEW r \in Readers,
                      pc[r] = "idle"
               PROVE  Nanoseconds(StartTime(r)) <= ToNs(result[r])
    BY DEF NeverBehind
  <2>1. /\ result[r] \in Nat /\ StartTime(r) \in Nat
        /\ StartTime(r) <= result[r]
    BY ClockType DEF BehindInv, TicksNeverBehind
  <2>2. ToNs(result[r]) = Nanoseconds(result[r])
    BY ResultConverts
  <2> QED
    BY <2>1, <2>2, NanosecondsMonotone
<1>2. QED
  BY <1>1, AheadInvariant, BehindInvariant, TypeCorrect, PTL

-----------------------------------------------------------------------------
(* The abstract clock.                                                     *)

\* Hal_GetElapsedTimeInNs, called by one task, implements the monotonic clock.
THEOREM ImplementsMonotonicClockCorrect ==
    ASSUME NoRollover, OneReader
    PROVE  Spec => ImplementsMonotonicClock
<1> DEFINE Reading == {r \in Readers : pc[r] # "idle"}
           Asked == [r \in Readers |-> StartTime(r)]
<1>1. Init => Abstract!Init
  BY InitialClock DEF Init, Abstract!Init
<1>2. /\ TypeOK /\ BehindInv /\ AheadInv
      /\ [Next]_vars
      => [Abstract!Next]_(Abstract!vars)
  <2> SUFFICES ASSUME TypeOK, BehindInv, AheadInv, [Next]_vars
               PROVE  [Abstract!Next]_(Abstract!vars)
    OBVIOUS
  <2>0. ClockValue \in Nat
    BY ClockType
  <2>1. CASE HardwareTick
    <3>1. ClockValue <= ClockValue' /\ ClockValue' \in Nat
      BY <2>1, ClockMonotone
    <3>2. UNCHANGED <<pc, result, started>>
      BY <2>1 DEF HardwareTick
    <3>3. Reading' = Reading /\ Asked' = Asked
      BY <3>2 DEF StartTime
    <3>4. CASE ClockValue' = ClockValue
      BY <3>2, <3>3, <3>4 DEF Abstract!vars
    <3>5. CASE ClockValue' > ClockValue
      <4>1. Abstract!Advance
        BY <3>1, <3>2, <3>3, <3>5 DEF Abstract!Advance
      <4>2. QED
        BY <4>1 DEF Abstract!Next
    <3>6. QED
      BY <2>0, <3>1, <3>4, <3>5
  <2>2. CASE timer_irq_handler
    <3>1. UNCHANGED <<pc, result, started, counter, wraps>>
      BY <2>2 DEF timer_irq_handler
    <3>2. QED
      BY <3>1 DEF Abstract!vars, StartTime, ClockValue
  <2>3. ASSUME NEW r \in Readers, CallGetElapsedTime(r)
        PROVE  [Abstract!Next]_(Abstract!vars)
    <3>1. /\ UNCHANGED <<result, counter, wraps>>
          /\ pc[r] = "idle"
          /\ pc' = [pc EXCEPT ![r] = "reset"]
          /\ started' = [started EXCEPT ![r] = [wraps |-> wraps,
                                                counter |-> counter]]
      BY <2>3 DEF CallGetElapsedTime
    <3>2. ClockValue' = ClockValue
      BY <3>1 DEF ClockValue
    <3>3. Reading' = Reading \union {r} /\ r \notin Reading
      BY <3>1 DEF TypeOK
    <3>4. Asked' = [Asked EXCEPT ![r] = ClockValue]
      <4>1. \A s \in Readers :
               StartTime(s)' = IF s = r THEN ClockValue ELSE StartTime(s)
        BY <3>1 DEF TypeOK, StartTime, ClockValue
      <4>2. QED
        BY <4>1
    <3>5. Abstract!Call(r)
      BY <3>1, <3>2, <3>3, <3>4 DEF Abstract!Call
    <3>6. QED
      BY <3>5 DEF Abstract!Next
  <2>4. ASSUME NEW r \in Readers,
               ResetFlag(r) \/ LoadReloads(r) \/ SampleCounter(r)
        PROVE  [Abstract!Next]_(Abstract!vars)
    <3>1. /\ UNCHANGED <<result, started, counter, wraps>>
          /\ pc[r] # "idle"
          /\ pc' \in {[pc EXCEPT ![r] = p] : p \in {"load", "sample", "check"}}
      BY <2>4 DEF ResetFlag, LoadReloads, SampleCounter
    <3>2. Reading' = Reading
      BY <3>1 DEF TypeOK
    <3>3. QED
      BY <3>1, <3>2 DEF Abstract!vars, StartTime, ClockValue
  <2>5. ASSUME NEW r \in Readers, CheckFlag(r)
        PROVE  [Abstract!Next]_(Abstract!vars)
    <3>1. UNCHANGED <<started, counter, wraps>> /\ pc[r] = "check"
      BY <2>5 DEF CheckFlag
    <3>2. Asked' = Asked /\ ClockValue' = ClockValue
      BY <3>1 DEF StartTime, ClockValue
    <3>3. CASE Retry(r)
      <4>1. result' = result /\ pc' = [pc EXCEPT ![r] = "reset"]
        BY <3>3 DEF Retry
      <4>2. Reading' = Reading
        BY <3>1, <4>1 DEF TypeOK
      <4>3. QED
        BY <3>2, <4>1, <4>2 DEF Abstract!vars
    <3>4. CASE Return(r)
      <4>1. /\ pc' = [pc EXCEPT ![r] = "idle"]
            /\ result' = [result EXCEPT ![r] = TotalTicks(r)]
        BY <3>4 DEF Return, Leave
      <4>2. Reading' = Reading \ {r} /\ r \in Reading
        BY <3>1, <4>1 DEF TypeOK
      <4>3. TotalTicks(r) \in Asked[r]..ClockValue
        <5>1. TotalTicks(r) <= ClockValue
          BY <3>1 DEF AheadInv
        <5>2. StartTime(r) <= TotalTicks(r)
          BY <2>5, <3>1, <3>4 DEF BehindInv, CheckFlag, Return
        <5>3. QED
          BY <5>1, <5>2, ClockType
      <4>4. Abstract!Return(r)
        BY <3>2, <4>1, <4>2, <4>3 DEF Abstract!Return
      <4>5. QED
        BY <4>4 DEF Abstract!Next
    <3>5. QED
      BY <2>5, <3>3, <3>4 DEF CheckFlag
  <2>6. CASE UNCHANGED vars
    BY <2>6 DEF vars, Abstract!vars, StartTime, ClockValue
  <2>7. QED
    BY <2>1, <2>2, <2>3, <2>4, <2>5, <2>6 DEF Next, ReaderStep
<1>3. QED
  BY <1>1, <1>2, TypeCorrect, AheadInvariant, BehindInvariant, PTL
  DEF Spec, Abstract!Spec, ImplementsMonotonicClock

-----------------------------------------------------------------------------
(* The retries of the loop.                                                *)

\* Overflows whose interrupt has been handled.
Handled == IF irqPending THEN wraps - 1 ELSE wraps

\* A retry the reader already owes: the flag is up since it last reset it.
Owed(r) ==
    IF reloads_modified_flag /\ pc[r] \in {"load", "sample", "check"}
    THEN 1 ELSE 0

\* Each retry, done or owed, is paid for by an interrupt handled since the
\* call, so a call retries no more often than overflows are handled.
RetryInv ==
    \A r \in Readers :
        retries[r] + Owed(r) <= (Handled - started[r].wraps) + 1

\* Hal_GetElapsedTimeInNs leaves its loop as soon as no overflow disturbs it:
\* whatever the readers, a call goes round at most once per overflow, plus once
\* for the one that was pending when it started.
THEOREM RetryBudgetCorrect == Spec => []RetryBudget
<1> USE ConstantsType
<1>1. Init => RetryInv
  <2> SUFFICES ASSUME Init, NEW r \in Readers
               PROVE  retries[r] + Owed(r) <= (Handled - started[r].wraps) + 1
    BY DEF RetryInv
  <2>1. Handled = 0 /\ Owed(r) = 0
    BY DEF Init, Handled, Owed
  <2>2. retries[r] = 0 /\ started[r].wraps = 0
    BY DEF Init
  <2>3. QED
    BY <2>1, <2>2
<1>2. TypeOK /\ RetryInv /\ [Next]_vars => RetryInv'
  <2> SUFFICES ASSUME TypeOK, RetryInv, [Next]_vars,
                      NEW q \in Readers
               PROVE  (retries[q] + Owed(q) <= (Handled - started[q].wraps) + 1)'
    BY DEF RetryInv
  <2>0. /\ retries[q] \in Nat /\ started[q].wraps \in Nat /\ wraps \in Nat
        /\ Owed(q) \in {0, 1} /\ Handled \in {wraps - 1, wraps}
        /\ retries[q] + Owed(q) <= (Handled - started[q].wraps) + 1
    BY DEF TypeOK, RetryInv, Handled, Owed
  <2>1. CASE HardwareTick
    <3>1. UNCHANGED <<pc, reloads_modified_flag, retries, started>>
      BY <2>1 DEF HardwareTick
    <3>2. Owed(q)' = Owed(q)
      BY <3>1 DEF Owed
    <3>3. Handled' = Handled
      BY <2>0, <2>1 DEF HardwareTick, CountUp, Overflow, Handled
    <3>4. QED
      BY <2>0, <3>1, <3>2, <3>3
  <2>2. CASE timer_irq_handler
    <3>1. UNCHANGED <<pc, retries, started>> /\ Owed(q)' \in {0, 1}
      BY <2>2 DEF timer_irq_handler, Owed
    <3>2. Handled' = Handled + 1
      BY <2>0, <2>2 DEF timer_irq_handler, Handled
    <3>3. QED
      BY <2>0, <3>1, <3>2
  <2>3. ASSUME NEW r \in Readers, ReaderStep(r)
        PROVE  (retries[q] + Owed(q) <= (Handled - started[q].wraps) + 1)'
    <3>1. Handled' = Handled
      BY <2>3 DEF ReaderStep, CallGetElapsedTime, ResetFlag, LoadReloads,
                  SampleCounter, CheckFlag, Handled
    <3>2. CASE CallGetElapsedTime(r)
      <4>1. CASE q = r
        <5>1. retries'[q] = 0 /\ started'[q].wraps = wraps /\ pc'[q] = "reset"
          BY <3>2, <4>1 DEF CallGetElapsedTime, TypeOK
        <5>2. Owed(q)' = 0
          BY <5>1 DEF Owed
        <5>3. QED
          BY <2>0, <3>1, <5>1, <5>2
      <4>2. CASE q # r
        <5>1. /\ retries'[q] = retries[q] /\ started'[q] = started[q]
              /\ pc'[q] = pc[q] /\ reloads_modified_flag' = reloads_modified_flag
          BY <3>2, <4>2 DEF CallGetElapsedTime, TypeOK
        <5>2. QED
          BY <2>0, <3>1, <5>1 DEF Owed
      <4>3. QED
        BY <4>1, <4>2
    <3>3. CASE ResetFlag(r)
      <4>1. UNCHANGED <<retries, started>> /\ Owed(q)' = 0
        BY <3>3 DEF ResetFlag, Owed
      <4>2. QED
        BY <2>0, <3>1, <4>1
    <3>4. CASE LoadReloads(r) \/ SampleCounter(r)
      <4>1. /\ UNCHANGED <<retries, started, reloads_modified_flag>>
            /\ pc[r] \in {"load", "sample"}
            /\ pc' \in {[pc EXCEPT ![r] = p] : p \in {"sample", "check"}}
        BY <3>4 DEF LoadReloads, SampleCounter
      <4>2. Owed(q)' = Owed(q)
        BY <4>1 DEF Owed, TypeOK
      <4>3. QED
        BY <2>0, <3>1, <4>1, <4>2
    <3>5. CASE CheckFlag(r)
      <4>1. CASE Retry(r) /\ q = r
        <5>1. /\ pc[q] = "check" /\ reloads_modified_flag /\ pc'[q] = "reset"
              /\ retries'[q] = retries[q] + 1 /\ started' = started
          BY <3>5, <4>1 DEF CheckFlag, Retry, TypeOK
        <5>2. Owed(q) = 1 /\ Owed(q)' = 0
          BY <5>1 DEF Owed
        <5>3. QED
          BY <2>0, <3>1, <5>1, <5>2
      <4>2. CASE Return(r) \/ q # r
        <5>1. /\ retries'[q] = retries[q] /\ started' = started
              /\ reloads_modified_flag' = reloads_modified_flag
              /\ pc'[q] \in {pc[q], "idle"}
          BY <3>5, <4>2 DEF CheckFlag, Retry, Return, Leave, TypeOK
        <5>2. Owed(q)' <= Owed(q) /\ Owed(q)' \in {0, 1}
          BY <5>1 DEF Owed
        <5>3. QED
          BY <2>0, <3>1, <5>1, <5>2
      <4>3. QED
        BY <3>5, <4>1, <4>2 DEF CheckFlag
    <3>6. QED
      BY <2>3, <3>2, <3>3, <3>4, <3>5 DEF ReaderStep
  <2>4. CASE UNCHANGED vars
    <3>1. /\ UNCHANGED <<retries, started, wraps, irqPending, pc>>
          /\ reloads_modified_flag' = reloads_modified_flag
      BY <2>4 DEF vars
    <3>2. QED
      BY <2>0, <3>1 DEF Owed, Handled
  <2>5. QED
    BY <2>1, <2>2, <2>3, <2>4 DEF Next
<1>3. TypeOK /\ RetryInv => RetryBudget
  <2> SUFFICES ASSUME TypeOK, RetryInv, NEW r \in Readers
               PROVE  retries[r] <= (wraps - started[r].wraps) + 1
    BY DEF RetryBudget
  <2>1. /\ retries[r] \in Nat /\ started[r].wraps \in Nat /\ wraps \in Nat
        /\ Owed(r) \in {0, 1} /\ Handled \in {wraps - 1, wraps}
        /\ retries[r] + Owed(r) <= (Handled - started[r].wraps) + 1
    BY DEF TypeOK, RetryInv, Handled, Owed
  <2>2. QED
    BY <2>1
<1>4. QED
  BY <1>1, <1>2, <1>3, TypeCorrect, PTL DEF Spec
=============================================================================
