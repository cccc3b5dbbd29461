----------------------- MODULE UsageStatisticsProofs -----------------------
(***************************************************************************)
(* Proofs about the usage statistics, for any samples, any number of them  *)
(* and any size of the stack.                                              *)
(***************************************************************************)
EXTENDS UsageStatistics, TLAPS, WellFoundedInduction

-----------------------------------------------------------------------------
(* The invariant of an update.  The bounds are those of the samples folded *)
(* completely and, once the update has come so far, of its own sample.     *)

InMinimum == samples.set \cup (IF update.step \in {"maximum", "mean", "count"}
                               THEN {update.sample} ELSE {})
InMaximum == samples.set \cup (IF update.step \in {"mean", "count"}
                               THEN {update.sample} ELSE {})

\* The first samples are folded into the initial values.
MinimumIsLeast ==
    IF quantity = "execution" /\ InMinimum # {}
    THEN data.minimum \in InMinimum /\ \A s \in InMinimum : data.minimum <= s
    ELSE data.minimum = InitialMinimum

MaximumIsLargest ==
    IF InMaximum # {}
    THEN data.maximum \in InMaximum /\ \A s \in InMaximum : s <= data.maximum
    ELSE data.maximum = 0

\* No rounding: the mean of n samples is the exact one, from its own step on
\* with the sample of the update.
Exact(mean, n, sum) == mean * n = SCALE * sum
Between(low, mean, high) == SCALE * low <= mean /\ mean <= SCALE * high

MeanIsExact ==
    IF update.step = "count"
    THEN Exact(data.mean, data.count + 1, samples.sum + update.sample)
    ELSE Exact(data.mean, data.count, samples.sum)

MeanIsBetween ==
    IF samples.set # {} \/ update.step = "count"
    THEN Between(data.minimum, data.mean, data.maximum)
    ELSE data.mean = 0

UpdateInv ==
    /\ update.step # "none" => /\ data.count < MAX_SAMPLES
                               /\ update.sample \in SAMPLES
                               /\ quantity # "stack"
    /\ samples.set = {} <=> data.count = 0
    /\ MinimumIsLeast /\ MaximumIsLargest
    /\ MeanIsExact /\ MeanIsBetween

-----------------------------------------------------------------------------
(* The invariant of a report.                                              *)

\* What was copied of a thread's statistics is known from what is left.
CopiedInOrder ==
    /\ quantity = "execution" =>
           report.left \in {{}, {"mean"}, {"minimum", "mean"}, Fields}
    /\ quantity = "idle" /\ "minimum" \notin report.left => report.minimum = 0
    /\ quantity = "stack" => report.left = {}

\* A copied maximum stays above the minimum, which only falls, and a copied
\* minimum below the copied maximum.
CopiesAreOrdered ==
    report.folded /\ "maximum" \notin report.left =>
        /\ SCALE * data.minimum <= report.maximum
        /\ "minimum" \notin report.left => report.minimum <= report.maximum

\* Without a step of an update in between, what was copied is still there.
CopiesAreFresh ==
    report.folded /\ ~report.disturbed =>
        /\ \A f \in Fields \ report.left : report[f] = Copied(f)
        /\ report.quiet => update.step \in {"none", "minimum"}

ReportInv ==
    /\ report.folded => samples.set # {}
    /\ CopiedInOrder /\ CopiesAreOrdered /\ CopiesAreFresh

-----------------------------------------------------------------------------
(* The invariant of a search for the high-water mark.                      *)

\* No word above the deepest use is taken, and a search has not yet passed the
\* word that it would have found when it began.
ScanInv ==
    /\ \A w \in stack : calculate_used_stack(w) <= depth
    /\ scan.word # 0 =>
          /\ scan.usage = 0
          /\ \/ scan.lowest = 0
             \/ \E w \in stack : w >= scan.word /\ scan.lowest = calculate_used_stack(w)
    /\ StackReportBetween

TypeInv == TypeOK /\ UpdateInv

-----------------------------------------------------------------------------
(* Arithmetic.                                                             *)

\* The parts of a unit are divisible by every count that is reached.
LEMMA ScaleDivisible ==
    ASSUME NEW n \in 1..MAX_SAMPLES
    PROVE  \E k \in Nat : SCALE = n * k
<1>1. SCALE % n = 0 /\ SCALE \in Nat /\ n \in Nat \ {0}
  BY ScaleAssumption
<1>2. SCALE \div n \in Nat /\ SCALE = n * (SCALE \div n) + (SCALE % n)
  BY <1>1, SMT
<1>3. QED
  BY <1>1, <1>2

\* The division of a multiple is exact.
LEMMA ExactDivision ==
    ASSUME NEW n \in Nat \ {0}, NEW k \in Nat
    PROVE  (n * k) \div n = k
<1>1. (n * k) \div n \in Nat /\ n * k \in Nat
  BY SMT
<1>2. 0 <= (n * k) % n /\ (n * k) % n < n
  BY SMT
<1>3. n * k = n * ((n * k) \div n) + ((n * k) % n)
  BY <1>1, SMT
<1>4. DEFINE q == (n * k) \div n
<1>5. n * (k - q) = (n * k) % n
  BY <1>1, <1>3, SMT
<1>6. k - q \in Int
  BY <1>1
<1>7. HIDE DEF q
<1>8. ~(k - q >= 1)
  BY <1>2, <1>5, <1>6, SMT
<1>9. ~(k - q <= -1)
  BY <1>2, <1>5, <1>6, SMT
<1>10. QED
  BY <1>1, <1>6, <1>8, <1>9 DEF q

\* A positive factor can be cancelled on both sides.
LEMMA Cancel ==
    ASSUME NEW n \in Nat \ {0}, NEW a \in Int, NEW b \in Int, n * a <= n * b
    PROVE  a <= b
<1>1. n * (b - a) >= 0
  BY SMT
<1>2. b - a \in Int
  OBVIOUS
<1>3. ~(b - a <= -1)
  BY <1>1, <1>2, SMT
<1>4. QED
  BY <1>3

\* The mean of one sample more, as update_execution_time_data computes it.
MeanWith(sample, n, mean) == (sample * SCALE + n * mean) \div (n + 1)

\* If the mean was exact, it still is: nothing is lost in the division.
LEMMA MeanStaysExact ==
    ASSUME NEW n \in Nat, n < MAX_SAMPLES, NEW mean \in Nat, NEW sum \in Nat,
           NEW sample \in Nat, Exact(mean, n, sum)
    PROVE  /\ MeanWith(sample, n, mean) \in Nat
           /\ Exact(MeanWith(sample, n, mean), n + 1, sum + sample)
<1>1. n + 1 \in 1..MAX_SAMPLES /\ SCALE \in Nat
  BY ScaleAssumption
<1>2. PICK k \in Nat : SCALE = (n + 1) * k
  BY <1>1, ScaleDivisible
<1>3. sample * SCALE + n * mean = SCALE * (sum + sample)
  BY <1>1, SMT DEF Exact
<1>4. SCALE * (sum + sample) = (n + 1) * (k * (sum + sample))
  BY <1>2, SMT
<1>5. k * (sum + sample) \in Nat /\ n + 1 \in Nat \ {0}
  BY SMT
<1>6. MeanWith(sample, n, mean) = k * (sum + sample)
  BY <1>3, <1>4, <1>5, ExactDivision DEF MeanWith
<1>7. (k * (sum + sample)) * (n + 1) = (n + 1) * (k * (sum + sample))
  BY <1>5, SMT
<1>8. QED
  BY <1>4, <1>5, <1>6, <1>7 DEF Exact

\* The mean stays between bounds of the samples, the new one among them.
LEMMA MeanStaysBetween ==
    ASSUME NEW n \in Nat, n < MAX_SAMPLES, NEW mean \in Nat, NEW sum \in Nat,
           NEW sample \in Nat, Exact(mean, n, sum),
           NEW low \in Nat, NEW high \in Nat, low <= sample, sample <= high,
           n > 0 => Between(low, mean, high)
    PROVE  Between(low, MeanWith(sample, n, mean), high)
<1>0. PICK m \in Nat : m = MeanWith(sample, n, mean) /\ Exact(m, n + 1, sum + sample)
  BY MeanStaysExact
<1>1. (n + 1) * m = sample * SCALE + n * mean
  <2>1. (n + 1) * m = m * (n + 1)
    BY SMT
  <2>2. sample * SCALE + n * mean = SCALE * (sum + sample)
    BY ScaleAssumption, SMT DEF Exact
  <2>3. QED
    BY <1>0, <2>1, <2>2 DEF Exact
<1>2. SCALE \in Nat
  BY ScaleAssumption
<1>3. SCALE * low <= sample * SCALE /\ sample * SCALE <= SCALE * high
  BY <1>2, SMT
<1>4. n * (SCALE * low) <= n * mean /\ n * mean <= n * (SCALE * high)
  <2>1. CASE n = 0
    BY <2>1, <1>2, SMT
  <2>2. CASE n > 0
    BY <2>2, <1>2, SMT DEF Between
  <2>3. QED
    BY <2>1, <2>2
<1>5. /\ (n + 1) * (SCALE * low) = SCALE * low + n * (SCALE * low)
      /\ (n + 1) * (SCALE * high) = SCALE * high + n * (SCALE * high)
  BY <1>2, SMT
<1>6. /\ SCALE * low \in Int /\ SCALE * high \in Int /\ n * mean \in Int
      /\ n * (SCALE * low) \in Int /\ n * (SCALE * high) \in Int
      /\ sample * SCALE \in Int /\ n + 1 \in Nat \ {0}
  BY <1>2, SMT
<1>7. (n + 1) * (SCALE * low) <= (n + 1) * m /\ (n + 1) * m <= (n + 1) * (SCALE * high)
  BY <1>1, <1>3, <1>4, <1>5, <1>6, SMT
<1>8. SCALE * low <= m /\ m <= SCALE * high
  BY <1>6, <1>7, Cancel
<1>9. QED
  BY <1>0, <1>8 DEF Between

-----------------------------------------------------------------------------
(* Updates.                                                                *)

\* What is measured and how far its update has come are left alone.
KeepsStatistics == UNCHANGED <<quantity, data, update, samples>>

\* Whatever leaves the statistics alone keeps their invariant.
LEMMA UpdateInvKept ==
    ASSUME UpdateInv, KeepsStatistics PROVE UpdateInv'
<1>1. InMinimum' = InMinimum /\ InMaximum' = InMaximum /\ InitialMinimum' = InitialMinimum
  BY DEF KeepsStatistics, InMinimum, InMaximum, InitialMinimum
<1>2. QED
  BY <1>1 DEF UpdateInv, KeepsStatistics, MinimumIsLeast, MaximumIsLargest,
               MeanIsExact, MeanIsBetween

\* The types of the fields.
LEMMA StatisticsType ==
    ASSUME TypeOK
    PROVE  /\ quantity \in Quantities
           /\ data = [minimum |-> data.minimum, maximum |-> data.maximum,
                      mean |-> data.mean, count |-> data.count]
           /\ data.minimum \in Nat /\ data.maximum \in Nat
           /\ data.minimum <= UINT64_MAX /\ data.maximum < UINT64_MAX
           /\ data.mean \in Nat /\ data.count \in Nat
           /\ data.count <= MAX_SAMPLES
           /\ update = [step |-> update.step, sample |-> update.sample]
           /\ update.step \in {"none", "minimum", "maximum", "mean", "count"}
           /\ update.sample \in Nat
           /\ samples.sum \in Nat /\ samples.set \subseteq Nat
<1>1. /\ SAMPLES \subseteq Nat /\ UINT64_MAX \in Nat \ {0}
      /\ \A s \in SAMPLES : s < UINT64_MAX
  BY SamplesAssumption
<1>2. SCALE * (UINT64_MAX - 1) \in Nat /\ MAX_SAMPLES \in Nat
  BY <1>1, ScaleAssumption, SMT
<1>3. /\ data = [minimum |-> data.minimum, maximum |-> data.maximum,
                 mean |-> data.mean, count |-> data.count]
      /\ data.minimum \in 0..UINT64_MAX /\ data.maximum \in SAMPLES \cup {0}
      /\ data.mean \in 0..(SCALE * (UINT64_MAX - 1))
      /\ data.count \in 0..MAX_SAMPLES
  BY DEF TypeOK
<1>4. /\ update = [step |-> update.step, sample |-> update.sample]
      /\ update.step \in {"none", "minimum", "maximum", "mean", "count"}
      /\ update.sample \in SAMPLES \cup {0}
  BY DEF TypeOK, Fields
<1>5. quantity \in Quantities /\ samples.sum \in Nat /\ samples.set \subseteq SAMPLES
  BY DEF TypeOK
<1>6. data.maximum \in Nat /\ data.maximum < UINT64_MAX
  BY <1>1, <1>3
<1>7. data.mean \in Nat /\ data.count \in Nat /\ data.count <= MAX_SAMPLES
  BY <1>2, <1>3
<1>8. QED
  BY <1>1, <1>3, <1>4, <1>5, <1>6, <1>7

\* An update begins: no sample has been folded yet.
LEMMA StartUpdateKeeps ==
    ASSUME TypeOK, UpdateInv, NEW s \in SAMPLES, StartUpdate(s)
    PROVE  UpdateInv'
<1>1. /\ update.step = "none" /\ update' = [step |-> "minimum", sample |-> s]
      /\ quantity # "stack" /\ data.count < MAX_SAMPLES
      /\ UNCHANGED <<quantity, data, samples>>
  BY DEF StartUpdate
<1>2. update'.step = "minimum" /\ update'.sample = s
  BY <1>1
<1>3. InMinimum' = InMinimum /\ InMaximum' = InMaximum /\ InitialMinimum' = InitialMinimum
  BY <1>1, <1>2 DEF InMinimum, InMaximum, InitialMinimum
<1>4. QED
  BY <1>1, <1>2, <1>3 DEF UpdateInv, MinimumIsLeast, MaximumIsLargest,
                          MeanIsExact, MeanIsBetween

\* The minimum is taken: it can only fall, and only to the new sample.
LEMMA UpdateMinimumKeeps ==
    ASSUME TypeOK, UpdateInv, UpdateMinimum
    PROVE  UpdateInv'
<1> DEFINE x == update.sample
           low == IF x < data.minimum THEN x ELSE data.minimum
<1>1. /\ update.step = "minimum" /\ update'.step = "maximum" /\ update'.sample = x
      /\ data' = [data EXCEPT !.minimum = low]
      /\ UNCHANGED <<quantity, samples>>
  BY StatisticsType DEF UpdateMinimum, UpdateStep
<1>2. /\ data'.minimum = low /\ data'.maximum = data.maximum
      /\ data'.mean = data.mean /\ data'.count = data.count
  BY <1>1, StatisticsType
<1>3. x \in SAMPLES /\ x \in Nat /\ x < UINT64_MAX
  BY <1>1, SamplesAssumption DEF UpdateInv
<1>4. /\ InMinimum = samples.set /\ InMinimum' = samples.set \cup {x}
      /\ InMaximum' = InMaximum /\ InitialMinimum' = InitialMinimum
  BY <1>1 DEF InMinimum, InMaximum, InitialMinimum
<1>5. MinimumIsLeast'
  <2>1. CASE quantity = "execution"
    <3>1. data.minimum \in Nat /\ samples.set \subseteq Nat
      BY StatisticsType
    <3>2. CASE samples.set = {}
      <4>1. data.minimum = UINT64_MAX
        BY <1>4, <2>1, <3>2 DEF UpdateInv, MinimumIsLeast, InitialMinimum
      <4>2. data'.minimum = x /\ InMinimum' = {x}
        BY <1>2, <1>3, <1>4, <3>2, <4>1
      <4>3. QED
        BY <1>1, <1>3, <2>1, <4>2 DEF MinimumIsLeast
    <3>3. CASE samples.set # {}
      <4>1. data.minimum \in samples.set /\ \A s \in samples.set : data.minimum <= s
        BY <1>4, <2>1, <3>3 DEF UpdateInv, MinimumIsLeast
      <4>2. low \in samples.set \cup {x} /\ \A s \in samples.set \cup {x} : low <= s
        BY <1>3, <3>1, <4>1
      <4>3. QED
        BY <1>1, <1>2, <1>4, <2>1, <4>2 DEF MinimumIsLeast
    <3>4. QED
      BY <3>2, <3>3
  <2>2. CASE quantity # "execution"
    <3>1. data.minimum = 0 /\ InitialMinimum = 0
      BY <2>2 DEF UpdateInv, MinimumIsLeast, InitialMinimum
    <3>2. low = 0
      BY <1>3, <3>1
    <3>3. QED
      BY <1>1, <1>2, <1>4, <2>2, <3>1, <3>2 DEF MinimumIsLeast
  <2>3. QED
    BY <2>1, <2>2
<1>6. MaximumIsLargest'
  BY <1>2, <1>4 DEF UpdateInv, MaximumIsLargest
<1>7. MeanIsExact'
  BY <1>1, <1>2 DEF UpdateInv, MeanIsExact
<1>8. MeanIsBetween'
  <2>1. low <= data.minimum /\ low \in Nat /\ data.minimum \in Nat /\ data.mean \in Nat
    BY <1>3, StatisticsType
  <2>2. SCALE * low <= SCALE * data.minimum /\ SCALE * low \in Nat /\ SCALE * data.minimum \in Nat
    <3>1. SCALE \in Nat
      BY ScaleAssumption
    <3> HIDE DEF low
    <3>2. QED
      BY <2>1, <3>1, SMT
  <2> HIDE DEF low
  <2>3. QED
    BY <1>1, <1>2, <2>1, <2>2 DEF UpdateInv, MeanIsBetween, Between
<1>9. QED
  BY <1>1, <1>2, <1>5, <1>6, <1>7, <1>8 DEF UpdateInv

\* The maximum is taken: it can only rise, and only to the new sample.
LEMMA UpdateMaximumKeeps ==
    ASSUME TypeOK, UpdateInv, UpdateMaximum
    PROVE  UpdateInv'
<1> DEFINE x == update.sample
           high == IF x > data.maximum THEN x ELSE data.maximum
<1>1. /\ update.step = "maximum" /\ update'.step = "mean" /\ update'.sample = x
      /\ data' = [data EXCEPT !.maximum = high]
      /\ UNCHANGED <<quantity, samples>>
  BY StatisticsType DEF UpdateMaximum, UpdateStep
<1>2. /\ data'.minimum = data.minimum /\ data'.maximum = high
      /\ data'.mean = data.mean /\ data'.count = data.count
  BY <1>1, StatisticsType
<1>3. x \in SAMPLES /\ x \in Nat
  BY <1>1, SamplesAssumption DEF UpdateInv
<1>4. /\ InMaximum = samples.set /\ InMaximum' = samples.set \cup {x}
      /\ InMinimum' = InMinimum /\ InitialMinimum' = InitialMinimum
  BY <1>1 DEF InMinimum, InMaximum, InitialMinimum
<1>5. data.maximum \in Nat /\ samples.set \subseteq Nat
  BY StatisticsType
<1>6. MaximumIsLargest'
  <2>1. CASE samples.set = {}
    <3>1. data.maximum = 0
      BY <1>4, <2>1 DEF UpdateInv, MaximumIsLargest
    <3>2. data'.maximum = x /\ InMaximum' = {x}
      BY <1>2, <1>3, <1>4, <2>1, <3>1
    <3>3. QED
      BY <1>3, <3>2 DEF MaximumIsLargest
  <2>2. CASE samples.set # {}
    <3>1. data.maximum \in samples.set /\ \A s \in samples.set : s <= data.maximum
      BY <1>4, <2>2 DEF UpdateInv, MaximumIsLargest
    <3>2. high \in samples.set \cup {x} /\ \A s \in samples.set \cup {x} : s <= high
      BY <1>3, <1>5, <3>1
    <3>3. QED
      BY <1>2, <1>4, <3>2 DEF MaximumIsLargest
  <2>3. QED
    BY <2>1, <2>2
<1>7. MinimumIsLeast'
  BY <1>1, <1>2, <1>4 DEF UpdateInv, MinimumIsLeast
<1>8. MeanIsExact'
  BY <1>1, <1>2 DEF UpdateInv, MeanIsExact
<1>9. MeanIsBetween'
  <2>1. data.maximum <= high /\ high \in Nat /\ data.mean \in Nat
    BY <1>3, <1>5, StatisticsType
  <2> HIDE DEF high
  <2>2. SCALE * data.maximum <= SCALE * high /\ SCALE * high \in Nat /\ SCALE * data.maximum \in Nat
    <3>1. SCALE \in Nat
      BY ScaleAssumption
    <3>2. QED
      BY <1>5, <2>1, <3>1, SMT
  <2>3. QED
    BY <1>1, <1>2, <2>1, <2>2 DEF UpdateInv, MeanIsBetween, Between
<1>10. QED
  BY <1>1, <1>2, <1>6, <1>7, <1>8, <1>9 DEF UpdateInv

\* The mean is taken, between bounds that already know the sample.
LEMMA UpdateMeanKeeps ==
    ASSUME TypeOK, UpdateInv, UpdateMean
    PROVE  UpdateInv'
<1> DEFINE x == update.sample
           n == data.count
           m == MeanWith(x, n, data.mean)
<1>1. /\ update.step = "mean" /\ update'.step = "count" /\ update'.sample = x
      /\ data' = [data EXCEPT !.mean = m]
      /\ UNCHANGED <<quantity, samples>>
  BY StatisticsType DEF UpdateMean, UpdateStep, MeanWith
<1>2. /\ data'.minimum = data.minimum /\ data'.maximum = data.maximum
      /\ data'.mean = m /\ data'.count = n
  BY <1>1, StatisticsType
<1>3. /\ x \in SAMPLES /\ x \in Nat /\ n \in Nat /\ n < MAX_SAMPLES
      /\ data.mean \in Nat /\ samples.sum \in Nat
      /\ Exact(data.mean, n, samples.sum)
      /\ data.minimum \in Nat /\ data.maximum \in Nat
      /\ samples.set = {} <=> n = 0
  BY <1>1, StatisticsType DEF UpdateInv, MeanIsExact
<1>4. m \in Nat /\ Exact(m, n + 1, samples.sum + x)
  <2> HIDE DEF x, n
  <2>1. QED
    BY <1>3, MeanStaysExact
<1>5. /\ InMinimum' = InMinimum /\ InMaximum' = InMaximum
      /\ InitialMinimum' = InitialMinimum
      /\ x \in InMinimum /\ x \in InMaximum
  BY <1>1 DEF InMinimum, InMaximum, InitialMinimum
<1>6. data.minimum <= x /\ x <= data.maximum
  <2>1. x <= data.maximum
    BY <1>5 DEF UpdateInv, MaximumIsLargest
  <2>2. CASE quantity = "execution"
    BY <1>5, <2>1, <2>2 DEF UpdateInv, MinimumIsLeast
  <2>3. CASE quantity # "execution"
    BY <1>3, <2>1, <2>3 DEF UpdateInv, MinimumIsLeast, InitialMinimum
  <2>4. QED
    BY <2>2, <2>3
<1>7. n > 0 => Between(data.minimum, data.mean, data.maximum)
  BY <1>1, <1>3 DEF UpdateInv, MeanIsBetween
<1>8. Between(data.minimum, m, data.maximum)
  <2> HIDE DEF x, n, m
  <2>1. QED
    BY <1>3, <1>6, <1>7, MeanStaysBetween DEF m
<1> HIDE DEF m
<1>9. MinimumIsLeast' /\ MaximumIsLargest'
  BY <1>1, <1>2, <1>5 DEF UpdateInv, MinimumIsLeast, MaximumIsLargest
<1>10. MeanIsExact' /\ MeanIsBetween'
  BY <1>1, <1>2, <1>4, <1>8 DEF MeanIsExact, MeanIsBetween
<1>11. QED
  BY <1>1, <1>2, <1>9, <1>10 DEF UpdateInv

\* The sample is counted: it is folded completely.
LEMMA UpdateCountKeeps ==
    ASSUME TypeOK, UpdateInv, UpdateCount
    PROVE  UpdateInv'
<1> DEFINE x == update.sample
<1>1. /\ update.step = "count" /\ update'.step = "none" /\ update'.sample = x
      /\ data' = [data EXCEPT !.count = data.count + 1]
      /\ samples' = [sum |-> samples.sum + x, set |-> samples.set \cup {x}]
      /\ quantity' = quantity
  BY StatisticsType DEF UpdateCount, UpdateStep
<1>2. /\ data'.minimum = data.minimum /\ data'.maximum = data.maximum
      /\ data'.mean = data.mean /\ data'.count = data.count + 1
      /\ samples'.sum = samples.sum + x /\ samples'.set = samples.set \cup {x}
  BY <1>1, StatisticsType
<1>3. data.count \in Nat
  BY StatisticsType
<1>4. /\ InMinimum' = InMinimum /\ InMaximum' = InMaximum
      /\ InitialMinimum' = InitialMinimum
  BY <1>1, <1>2 DEF InMinimum, InMaximum, InitialMinimum
<1>5. MinimumIsLeast' /\ MaximumIsLargest'
  BY <1>1, <1>2, <1>4 DEF UpdateInv, MinimumIsLeast, MaximumIsLargest
<1>6. MeanIsExact' /\ MeanIsBetween'
  BY <1>1, <1>2 DEF UpdateInv, MeanIsExact, MeanIsBetween
<1>7. samples'.set # {} /\ data'.count # 0
  BY <1>2, <1>3
<1>8. QED
  BY <1>1, <1>5, <1>6, <1>7 DEF UpdateInv

-----------------------------------------------------------------------------
(* Type correctness.                                                       *)

\* Of two numbers, one is the maximum.
LEMMA MaxOfTwo ==
    ASSUME NEW a \in Nat, NEW b \in Nat
    PROVE  Max({a, b}) \in {a, b} /\ a <= Max({a, b}) /\ b <= Max({a, b})
<1>1. \E x \in {a, b} : \A y \in {a, b} : x >= y
  <2>1. CASE a >= b
    BY <2>1
  <2>2. CASE ~(a >= b)
    BY <2>2
  <2>3. QED
    BY <2>1, <2>2
<1>2. Max({a, b}) \in {a, b} /\ \A y \in {a, b} : Max({a, b}) >= y
  BY <1>1 DEF Max
<1>3. QED
  BY <1>2

\* What a report shows of the mean of an execution time: nothing that is a
\* multiple of a unit is lost.
LEMMA CutToUnits ==
    ASSUME NEW m \in Nat
    PROVE  /\ (m \div SCALE) * SCALE \in Nat /\ (m \div SCALE) * SCALE <= m
           /\ \A k \in Nat : SCALE * k <= m => SCALE * k <= (m \div SCALE) * SCALE
<1> DEFINE q == m \div SCALE
<1>1. /\ SCALE \in Nat \ {0} /\ q \in Nat
      /\ m = SCALE * q + (m % SCALE) /\ m % SCALE \in 0..(SCALE - 1)
  BY ScaleAssumption, SMT
<1> HIDE DEF q
<1>2. /\ SCALE * q = q * SCALE /\ q * SCALE \in Nat
  BY <1>1, SMT
<1>3. ASSUME NEW k \in Nat, SCALE * k <= m
      PROVE  SCALE * k <= q * SCALE
  <2>1. SCALE * (k - q) < SCALE
    BY <1>1, <1>3, SMT
  <2>2. ~(k - q >= 1)
    BY <1>1, <2>1, SMT
  <2>3. k <= q
    BY <1>1, <2>2
  <2>4. QED
    BY <1>1, <1>2, <2>3, SMT
<1>4. QED
  BY <1>1, <1>2, <1>3 DEF q

\* A maximum below UINT64_MAX bounds every mean.
LEMMA BoundOfMean ==
    ASSUME NEW high \in Nat, high < UINT64_MAX, NEW m \in Nat, m <= SCALE * high
    PROVE  m \in 0..(SCALE * (UINT64_MAX - 1))
<1>1. /\ SCALE \in Nat /\ UINT64_MAX - 1 \in Nat /\ high <= UINT64_MAX - 1
  BY ScaleAssumption, SamplesAssumption
<1>2. SCALE * high <= SCALE * (UINT64_MAX - 1) /\ SCALE * (UINT64_MAX - 1) \in Nat
      /\ SCALE * high \in Nat
  BY <1>1, SMT
<1>3. QED
  BY <1>2

\* What is copied is a value of a report.
LEMMA CopiedType ==
    ASSUME TypeOK, NEW f \in Fields
    PROVE  Copied(f) \in Value
<1>1. /\ SCALE \in Nat /\ UINT64_MAX \in Nat \ {0}
      /\ SCALE * (UINT64_MAX - 1) \in Nat /\ SCALE * UINT64_MAX \in Nat
      /\ SCALE * (UINT64_MAX - 1) <= SCALE * UINT64_MAX
  BY ScaleAssumption, SamplesAssumption, SMT
<1>2. ASSUME NEW k \in Nat, k <= UINT64_MAX PROVE k * SCALE \in Value
  <2>1. k * SCALE \in Nat /\ k * SCALE <= SCALE * UINT64_MAX
    BY <1>1, <1>2, SMT
  <2>2. QED
    BY <1>1, <2>1 DEF Value
<1>3. data.minimum * SCALE \in Value /\ data.maximum * SCALE \in Value
  <2>1. /\ data.minimum \in Nat /\ data.minimum <= UINT64_MAX
        /\ data.maximum \in Nat /\ data.maximum < UINT64_MAX
    BY StatisticsType
  <2>2. data.maximum <= UINT64_MAX
    BY <1>1, <2>1
  <2>3. QED
    BY <1>2, <2>1, <2>2
<1>4. data.mean \in Value
  BY <1>1 DEF TypeOK, Value
<1>5. (data.mean \div SCALE) * SCALE \in Value
  <2>1. /\ (data.mean \div SCALE) * SCALE \in Nat
        /\ (data.mean \div SCALE) * SCALE <= data.mean /\ data.mean \in Nat
    BY CutToUnits, StatisticsType
  <2>2. QED
    BY <1>1, <1>4, <2>1 DEF Value
<1>6. CASE f = "mean"
  BY <1>4, <1>5, <1>6 DEF Copied
<1>7. CASE f \in {"minimum", "maximum"}
  BY <1>3, <1>7 DEF Copied
<1>8. QED
  BY <1>6, <1>7 DEF Fields

\* The types of a report, a stack and its search, apart from the statistics'.
ReportType ==
    report \in [left: SUBSET Fields, minimum: Value, maximum: Value,
                mean: Value, folded: BOOLEAN, quiet: BOOLEAN, disturbed: BOOLEAN]
ScanType ==
    /\ stack \subseteq Words /\ depth \in 0..STACK_SIZE
    /\ scan \in [word: 0..STACK_SIZE, lowest: 0..STACK_SIZE, usage: 0..STACK_SIZE]

DataType ==
    /\ quantity \in Quantities
    /\ data \in [minimum: 0..UINT64_MAX, maximum: SAMPLES \cup {0},
                 mean: 0..(SCALE * (UINT64_MAX - 1)), count: 0..MAX_SAMPLES]
    /\ update \in [step: {"none", "count"} \cup Fields, sample: SAMPLES \cup {0}]
    /\ samples.sum \in Nat /\ samples.set \subseteq SAMPLES

\* The type invariant in parts.
LEMMA TypeParts == TypeOK <=> DataType /\ ReportType /\ ScanType
BY DEF TypeOK, DataType, ReportType, ScanType

\* The same after a step.
LEMMA TypePartsAfter ==
    ASSUME DataType', ReportType', ScanType', UpdateInv'
    PROVE  TypeInv'
BY DEF TypeInv, TypeOK, DataType, ReportType, ScanType

\* A word of the stack stands for a use of at most the whole stack.
LEMMA UsedStackType ==
    ASSUME NEW w \in Words
    PROVE  calculate_used_stack(w) \in 1..STACK_SIZE
BY StackAssumption DEF Words, calculate_used_stack

\* Of the words that no longer hold the pattern, one is the lowest.
LEMMA MinOfWords ==
    ASSUME NEW S \in SUBSET Words, S # {}
    PROVE  Min(S) \in S /\ \A w \in S : Min(S) <= w
<1> DEFINE R == OpToRel(<, Nat)
<1>1. IsWellFoundedOn(R, Nat)
  BY NatLessThanWellFounded
<1>2. \A v, w \in Nat : v < w => <<v, w>> \in R
  BY DEF OpToRel
<1>3. S \subseteq Nat
  BY StackAssumption DEF Words
<1> HIDE DEF R
<1>4. PICK w \in S : \A v \in S : ~(<<v, w>> \in R)
  BY <1>1, <1>3, WFMin
<1>5. ASSUME NEW v \in S PROVE w <= v
  <2>1. ~(v < w)
    BY <1>2, <1>3, <1>4
  <2>2. QED
    BY <1>3, <2>1
<1>6. QED
  BY <1>5 DEF Min

\* An update keeps the types of the statistics: the mean is bounded by the
\* maximum, which the new invariant says.
LEMMA UpdateKeepsTypes ==
    ASSUME TypeOK, UpdateInv, UpdateInv',
           UpdateMinimum \/ UpdateMaximum \/ UpdateMean \/ UpdateCount
    PROVE  DataType' /\ ReportType'
<1>1. DataType /\ ReportType
  BY TypeParts
<1>2. update.sample \in SAMPLES /\ update.sample \in 0..UINT64_MAX
  BY SamplesAssumption DEF UpdateInv, UpdateMinimum, UpdateMaximum, UpdateMean,
                           UpdateCount, UpdateStep
<1>3. quantity' = quantity /\ quantity \in Quantities
  BY <1>1 DEF DataType, UpdateMinimum, UpdateMaximum, UpdateMean, UpdateCount, UpdateStep
<1>4. ReportType'
  <2>1. report' = [report EXCEPT !.disturbed = TRUE]
    BY DEF UpdateMinimum, UpdateMaximum, UpdateMean, UpdateCount, UpdateStep
  <2>2. QED
    BY <1>1, <2>1 DEF ReportType
<1>5. update' \in [step: {"none", "count"} \cup Fields, sample: SAMPLES \cup {0}]
  BY <1>1 DEF DataType, Fields, UpdateMinimum, UpdateMaximum, UpdateMean,
              UpdateCount, UpdateStep
<1>6. CASE UpdateMinimum
  <2>1. data' = [data EXCEPT !.minimum = IF update.sample < @ THEN update.sample ELSE @]
        /\ samples' = samples
    BY <1>6 DEF UpdateMinimum, UpdateStep
  <2>2. QED
    BY <1>1, <1>2, <1>3, <1>4, <1>5, <2>1 DEF DataType
<1>7. CASE UpdateMaximum
  <2>1. data' = [data EXCEPT !.maximum = IF update.sample > @ THEN update.sample ELSE @]
        /\ samples' = samples
    BY <1>7 DEF UpdateMaximum, UpdateStep
  <2>2. QED
    BY <1>1, <1>2, <1>3, <1>4, <1>5, <2>1 DEF DataType
<1>8. CASE UpdateMean
  <2> DEFINE m == MeanWith(update.sample, data.count, data.mean)
  <2>1. /\ data' = [data EXCEPT !.mean = m] /\ samples' = samples
        /\ update'.step = "count" /\ update.step = "mean"
    BY <1>8, StatisticsType DEF UpdateMean, UpdateStep, MeanWith
  <2>2. m \in Nat
    BY <2>1, <1>2, MeanStaysExact, StatisticsType, SamplesAssumption DEF UpdateInv, MeanIsExact
  <2> HIDE DEF m
  <2>3. data'.mean = m /\ data'.maximum = data.maximum
    BY <2>1, StatisticsType
  <2>4. m <= SCALE * data.maximum
    BY <2>1, <2>3 DEF UpdateInv, MeanIsBetween, Between
  <2>5. m \in 0..(SCALE * (UINT64_MAX - 1))
    BY <2>2, <2>4, StatisticsType, BoundOfMean
  <2>6. QED
    BY <1>1, <1>3, <1>4, <1>5, <2>1, <2>5 DEF DataType
<1>9. CASE UpdateCount
  <2>1. /\ data' = [data EXCEPT !.count = @ + 1]
        /\ samples' = [sum |-> samples.sum + update.sample,
                       set |-> samples.set \cup {update.sample}]
        /\ data.count \in Nat /\ data.count < MAX_SAMPLES
    BY <1>9, StatisticsType DEF UpdateInv, UpdateCount, UpdateStep
  <2>2. data.count + 1 \in 0..MAX_SAMPLES
    BY <2>1, ScaleAssumption
  <2>3. data' \in [minimum: 0..UINT64_MAX, maximum: SAMPLES \cup {0},
                   mean: 0..(SCALE * (UINT64_MAX - 1)), count: 0..MAX_SAMPLES]
    BY <1>1, <2>1, <2>2 DEF DataType
  <2>4. samples'.sum \in Nat /\ samples'.set \subseteq SAMPLES
    BY <1>1, <1>2, <2>1 DEF DataType
  <2>5. QED
    BY <1>3, <1>4, <1>5, <2>3, <2>4 DEF DataType
<1>10. QED
  BY <1>6, <1>7, <1>8, <1>9

\* The steps of the thread and of a search keep the types.
LEMMA ScanKeepsTypes ==
    ASSUME TypeOK,
           (\E n \in 0..STACK_SIZE : ThreadRuns(n)) \/ StartScan \/ find_high_water_mark
    PROVE  ScanType'
<1>1. ScanType
  BY TypeParts
<1>2. ASSUME NEW n \in 0..STACK_SIZE, ThreadRuns(n) PROVE ScanType'
  <2>1. depth' \in 0..STACK_SIZE
    <3>1. depth \in Nat /\ n \in Nat /\ depth' = Max({depth, n})
      BY <1>1, <1>2, StackAssumption DEF ScanType, ThreadRuns
    <3>2. depth' \in {depth, n}
      BY <3>1, MaxOfTwo
    <3>3. QED
      BY <1>1, <3>2 DEF ScanType
  <2>2. PICK written \in SUBSET ((STACK_SIZE - n + 1)..STACK_SIZE) :
            stack' = stack \cup written
    BY <1>2 DEF ThreadRuns
  <2>3. written \subseteq Words
    BY StackAssumption DEF Words
  <2>4. scan' = scan
    BY <1>2 DEF ThreadRuns
  <2>5. QED
    BY <1>1, <2>1, <2>2, <2>3, <2>4 DEF ScanType
<1>3. CASE StartScan
  <2> DEFINE low == IF stack = {} THEN 0 ELSE calculate_used_stack(Min(stack))
  <2>1. low \in 0..STACK_SIZE
    <3>1. CASE stack = {}
      BY <3>1, StackAssumption
    <3>2. CASE stack # {}
      <4>1. Min(stack) \in Words
        BY <1>1, <3>2, MinOfWords DEF ScanType
      <4>2. QED
        BY <3>2, <4>1, UsedStackType, StackAssumption
    <3>3. QED
      BY <3>1, <3>2
  <2>2. /\ scan' = [word |-> 1, usage |-> 0, lowest |-> low]
        /\ stack' = stack /\ depth' = depth
    BY <1>3 DEF StartScan
  <2> HIDE DEF low
  <2>3. QED
    BY <1>1, <2>1, <2>2, StackAssumption DEF ScanType
<1>4. CASE find_high_water_mark
  <2> DEFINE w == scan.word
             used == calculate_used_stack(w)
             next == IF w \in stack \/ w = STACK_SIZE THEN 0 ELSE w + 1
  <2>1. /\ w # 0 /\ stack' = stack /\ depth' = depth
        /\ scan' = [scan EXCEPT !.usage = IF w \in stack THEN used ELSE scan.usage,
                                !.word = next]
    BY <1>1, <1>4 DEF find_high_water_mark, ScanType
  <2>2. w \in Words /\ next \in 0..STACK_SIZE
    BY <1>1, <2>1, StackAssumption DEF ScanType, Words
  <2>3. used \in 0..STACK_SIZE
    BY <2>2, UsedStackType, StackAssumption
  <2> HIDE DEF used, next
  <2>4. QED
    BY <1>1, <2>1, <2>2, <2>3 DEF ScanType
<1>5. QED
  BY <1>2, <1>3, <1>4

\* Every variable keeps its type, and an update keeps the bounds of what it
\* folds and the exact mean.
LEMMA TypeInvariant == Spec => []TypeInv
<1>1. Init => TypeInv
  <2> SUFFICES ASSUME Init PROVE TypeInv
    OBVIOUS
  <2>1. /\ SCALE * (UINT64_MAX - 1) \in Nat /\ SCALE * UINT64_MAX \in Nat
        /\ UINT64_MAX \in Nat /\ MAX_SAMPLES \in Nat /\ SCALE \in Nat
        /\ STACK_SIZE \in Nat
    BY ScaleAssumption, SamplesAssumption, StackAssumption, SMT
  <2>2. /\ data = [minimum |-> InitialMinimum, maximum |-> 0, mean |-> 0, count |-> 0]
        /\ InitialMinimum \in 0..UINT64_MAX
    BY <2>1 DEF Init, InitialMinimum
  <2>3. DataType
    BY <2>1, <2>2 DEF Init, DataType, Fields
  <2>4. ReportType
    BY <2>1 DEF Init, ReportType, Value
  <2>5. ScanType
    BY <2>1 DEF Init, ScanType
  <2>6. /\ update.step = "none" /\ samples.set = {} /\ samples.sum = 0
        /\ data.minimum = InitialMinimum /\ data.maximum = 0 /\ data.mean = 0
        /\ data.count = 0
    BY <2>2 DEF Init
  <2>7. 0 * 0 = SCALE * 0
    BY <2>1, SMT
  <2>8. UpdateInv
    BY <2>6, <2>7 DEF UpdateInv, InMinimum, InMaximum, MinimumIsLeast,
                      MaximumIsLargest, MeanIsExact, MeanIsBetween, Exact
  <2>9. QED
    BY <2>3, <2>4, <2>5, <2>8, TypeParts DEF TypeInv
<1>2. TypeInv /\ [Next]_vars => TypeInv'
  <2> SUFFICES ASSUME TypeInv, [Next]_vars PROVE TypeInv'
    OBVIOUS
  <2>1. TypeOK /\ UpdateInv /\ DataType /\ ReportType /\ ScanType
    BY TypeParts DEF TypeInv
  <2>2. ASSUME NEW s \in SAMPLES, StartUpdate(s) PROVE TypeInv'
    <3>1. DataType'
      BY <2>1, <2>2 DEF StartUpdate, DataType, Fields
    <3>2. ReportType' /\ ScanType'
      BY <2>1, <2>2 DEF StartUpdate, stackVars, ReportType, ScanType
    <3>3. UpdateInv'
      BY <2>1, <2>2, StartUpdateKeeps
    <3>4. QED
      BY <3>1, <3>2, <3>3, TypePartsAfter
  <2>3. CASE UpdateMinimum \/ UpdateMaximum \/ UpdateMean \/ UpdateCount
    <3>1. UpdateInv'
      BY <2>1, <2>3, UpdateMinimumKeeps, UpdateMaximumKeeps, UpdateMeanKeeps,
         UpdateCountKeeps
    <3>2. DataType' /\ ReportType'
      BY <2>1, <2>3, <3>1, UpdateKeepsTypes
    <3>3. ScanType'
      BY <2>1, <2>3 DEF UpdateMinimum, UpdateMaximum, UpdateMean, UpdateCount,
                        UpdateStep, stackVars, ScanType
    <3>4. QED
      BY <3>1, <3>2, <3>3, TypePartsAfter
  <2>4. CASE StartReport \/ CopyField
    <3>1. DataType' /\ ScanType' /\ KeepsStatistics
      BY <2>1, <2>4 DEF StartReport, CopyField, stackVars, DataType, ScanType,
                        KeepsStatistics
    <3>2. ReportType'
      <4>1. CASE StartReport
        BY <2>1, <4>1 DEF StartReport, ReportType
      <4>2. CASE CopyField
        <5>1. PICK f \in NextFields :
                  report' = [report EXCEPT !.left = @ \ {f}, ![f] = Copied(f)]
          BY <4>2 DEF CopyField
        <5>2. f \in Fields
          BY <2>1, <5>1 DEF NextFields, ReportType, Fields
        <5>3. Copied(f) \in Value
          BY <2>1, <5>2, CopiedType
        <5>4. CASE f = "minimum"
          BY <2>1, <5>1, <5>3, <5>4 DEF ReportType
        <5>5. CASE f = "maximum"
          BY <2>1, <5>1, <5>3, <5>5 DEF ReportType
        <5>6. CASE f = "mean"
          BY <2>1, <5>1, <5>3, <5>6 DEF ReportType
        <5>7. QED
          BY <5>2, <5>4, <5>5, <5>6 DEF Fields
      <4>3. QED
        BY <2>4, <4>1, <4>2
    <3>3. QED
      BY <2>1, <3>1, <3>2, UpdateInvKept, TypePartsAfter
  <2>5. CASE (\E n \in 0..STACK_SIZE : ThreadRuns(n)) \/ StartScan \/ find_high_water_mark
    <3>1. UNCHANGED statisticsVars
      BY <2>5 DEF ThreadRuns, StartScan, find_high_water_mark
    <3>2. DataType' /\ ReportType' /\ KeepsStatistics
      BY <2>1, <3>1 DEF statisticsVars, DataType, ReportType, KeepsStatistics
    <3>3. ScanType'
      BY <2>1, <2>5, ScanKeepsTypes
    <3>4. QED
      BY <2>1, <3>2, <3>3, UpdateInvKept, TypePartsAfter
  <2>6. CASE UNCHANGED vars
    <3>1. DataType' /\ ReportType' /\ ScanType' /\ KeepsStatistics
      BY <2>1, <2>6 DEF vars, statisticsVars, stackVars, DataType, ReportType,
                        ScanType, KeepsStatistics
    <3>2. QED
      BY <2>1, <3>1, UpdateInvKept, TypePartsAfter
  <2>7. QED
    BY <2>2, <2>3, <2>4, <2>5, <2>6 DEF Next
<1>3. QED
  BY <1>1, <1>2, PTL DEF Spec

\* Type correctness: a minimum is the initial one or a sample, a maximum is
\* below UINT64_MAX, a mean in between, whatever is folded and reported.
THEOREM TypeCorrect == Spec => []TypeOK
<1>1. TypeInv => TypeOK
  BY DEF TypeInv
<1>2. QED
  BY <1>1, TypeInvariant, PTL

-----------------------------------------------------------------------------
(* Reports.                                                                *)

\* A step of an update disturbs a report: what was copied may be old, but it
\* is still ordered, because the minimum only falls.
LEMMA UpdateKeepsReport ==
    ASSUME TypeInv, ReportInv,
           UpdateMinimum \/ UpdateMaximum \/ UpdateMean \/ UpdateCount
    PROVE  ReportInv'
<1>1. /\ report' = [report EXCEPT !.disturbed = TRUE] /\ quantity' = quantity
      /\ TypeOK /\ ReportType
  BY TypeParts DEF TypeInv, UpdateMinimum, UpdateMaximum, UpdateMean, UpdateCount, UpdateStep
<1>2. /\ report'.left = report.left /\ report'.folded = report.folded
      /\ report'.minimum = report.minimum /\ report'.maximum = report.maximum
      /\ report'.disturbed
  BY <1>1 DEF ReportType
<1>3. samples'.set # {} \/ samples'.set = samples.set
  BY DEF UpdateMinimum, UpdateMaximum, UpdateMean, UpdateCount, UpdateStep
<1>4. data'.minimum \in Nat /\ data'.minimum <= data.minimum
  <2>1. /\ data.minimum \in Nat /\ update.sample \in Nat
        /\ data = [minimum |-> data.minimum, maximum |-> data.maximum,
                   mean |-> data.mean, count |-> data.count]
    BY <1>1, StatisticsType
  <2>2. CASE UpdateMinimum
    BY <2>1, <2>2 DEF UpdateMinimum, UpdateStep
  <2>3. CASE UpdateMaximum
    BY <2>1, <2>3 DEF UpdateMaximum, UpdateStep
  <2>4. CASE UpdateMean
    <3>1. data'.minimum = data.minimum
      BY <2>1, <2>4 DEF UpdateMean, UpdateStep
    <3>2. QED
      BY <2>1, <3>1
  <2>5. CASE UpdateCount
    BY <2>1, <2>5 DEF UpdateCount, UpdateStep
  <2>6. QED
    BY <2>2, <2>3, <2>4, <2>5
<1>5. SCALE * data'.minimum <= SCALE * data.minimum
      /\ SCALE * data'.minimum \in Nat /\ SCALE * data.minimum \in Nat
  <2>1. data.minimum \in Nat /\ SCALE \in Nat
    BY <1>1, StatisticsType, ScaleAssumption
  <2>2. QED
    BY <1>4, <2>1, SMT
<1>6. report.maximum \in Nat
  BY <1>1, ScaleAssumption, SamplesAssumption DEF ReportType, Value
<1>7. (report.folded => samples.set # {})'
  BY <1>2, <1>3 DEF ReportInv
<1>8. CopiedInOrder' /\ CopiesAreFresh'
  BY <1>1, <1>2 DEF ReportInv, CopiedInOrder, CopiesAreFresh
<1>9. CopiesAreOrdered'
  BY <1>2, <1>5, <1>6 DEF ReportInv, CopiesAreOrdered
<1>10. QED
  BY <1>7, <1>8, <1>9 DEF ReportInv

\* A field is copied while the others wait.
LEMMA CopyFieldKeepsReport ==
    ASSUME TypeInv, ReportInv, CopyField
    PROVE  ReportInv'
<1>1. /\ TypeOK /\ UpdateInv /\ ReportType
      /\ UNCHANGED <<quantity, data, update, samples>>
  BY TypeParts DEF TypeInv, CopyField
<1>2. PICK f \in NextFields :
          report' = [report EXCEPT !.left = @ \ {f}, ![f] = Copied(f)]
  BY DEF CopyField
<1>3. f \in report.left /\ f \in Fields /\ quantity \in {"execution", "idle"}
  BY <1>1, <1>2, StatisticsType
  DEF NextFields, ReportInv, CopiedInOrder, Quantities, ReportType
<1>4. /\ report'.left = report.left \ {f} /\ report'[f] = Copied(f)
      /\ \A g \in Fields \ {f} : report'[g] = report[g]
      /\ report'.folded = report.folded /\ report'.quiet = report.quiet
      /\ report'.disturbed = report.disturbed
  <2>1. CASE f = "minimum"
    BY <1>1, <1>2, <2>1 DEF ReportType, Fields
  <2>2. CASE f = "maximum"
    BY <1>1, <1>2, <2>2 DEF ReportType, Fields
  <2>3. CASE f = "mean"
    BY <1>1, <1>2, <2>3 DEF ReportType, Fields
  <2>4. QED
    BY <1>3, <2>1, <2>2, <2>3 DEF Fields
<1>5. \A g \in Fields : Copied(g)' = Copied(g)
  BY <1>1 DEF Copied
<1>6. CopiesAreFresh'
  <2>1. CopiesAreFresh
    BY DEF ReportInv
  <2>2. ASSUME report.folded, ~report.disturbed, NEW g \in Fields \ report'.left
        PROVE  report'[g] = Copied(g)
    BY <1>4, <2>1, <2>2 DEF CopiesAreFresh
  <2>3. QED
    BY <1>1, <1>4, <1>5, <2>1, <2>2 DEF CopiesAreFresh
<1>7. data.minimum \in Nat /\ data.maximum \in Nat /\ SCALE \in Nat
  BY <1>1, StatisticsType, ScaleAssumption
<1>8. /\ Copied("minimum") = SCALE * data.minimum
      /\ Copied("maximum") = SCALE * data.maximum
      /\ SCALE * data.minimum \in Nat /\ SCALE * data.maximum \in Nat
  <2>1. /\ Copied("minimum") = data.minimum * SCALE
        /\ Copied("maximum") = data.maximum * SCALE
    BY DEF Copied
  <2>2. QED
    BY <1>7, <2>1, SMT
<1>9. quantity = "idle" => SCALE * data.minimum = 0
  <2>1. quantity = "idle" => data.minimum = 0
    BY <1>1 DEF UpdateInv, MinimumIsLeast, InitialMinimum
  <2>2. QED
    BY <1>7, <2>1, SMT
<1>10. CopiedInOrder'
  <2>1. CASE quantity = "execution"
    <3>1. report.left \in {{"mean"}, {"minimum", "mean"}, Fields}
      BY <1>3, <2>1 DEF ReportInv, CopiedInOrder
    <3>2. report'.left \in {{}, {"mean"}, {"minimum", "mean"}}
      BY <1>2, <1>4, <2>1, <3>1 DEF NextFields, Fields
    <3>3. QED
      BY <1>1, <2>1, <3>2 DEF CopiedInOrder
  <2>2. CASE quantity = "idle"
    <3>1. "minimum" \notin report'.left => report'.minimum = 0
      <4>1. CASE f = "minimum"
        BY <1>4, <1>8, <1>9, <2>2, <4>1
      <4>2. CASE f # "minimum"
        BY <1>4, <2>2, <4>2 DEF ReportInv, CopiedInOrder, Fields
      <4>3. QED
        BY <4>1, <4>2
    <3>2. QED
      BY <1>1, <2>2, <3>1 DEF CopiedInOrder
  <2>3. QED
    BY <1>3, <2>1, <2>2
<1>11. CopiesAreOrdered'
  <2>1. SUFFICES ASSUME report.folded, "maximum" \notin report'.left
                 PROVE  /\ SCALE * data.minimum <= report'.maximum
                        /\ "minimum" \notin report'.left =>
                               report'.minimum <= report'.maximum
    BY <1>1, <1>4 DEF CopiesAreOrdered
  <2>2. SCALE * data.minimum <= SCALE * data.maximum
    <3>1. samples.set # {} /\ data.mean \in Nat
      BY <1>1, <2>1, StatisticsType DEF ReportInv
    <3>2. QED
      BY <1>1, <1>8, <3>1 DEF UpdateInv, MeanIsBetween, Between
  <2>3. CASE f = "maximum"
    <3>1. report'.maximum = SCALE * data.maximum /\ report'.minimum = report.minimum
      BY <1>4, <1>8, <2>3 DEF Fields
    <3>2. ASSUME "minimum" \notin report'.left PROVE report'.minimum = 0
      <4>1. "minimum" \notin report.left
        BY <1>4, <2>3, <3>2
      <4>2. quantity # "execution"
        BY <1>3, <2>3, <4>1 DEF ReportInv, CopiedInOrder, Fields
      <4>3. QED
        BY <1>3, <3>1, <4>1, <4>2 DEF ReportInv, CopiedInOrder
    <3>3. QED
      BY <1>8, <2>2, <3>1, <3>2
  <2>4. CASE f # "maximum"
    <3>1. "maximum" \notin report.left /\ report'.maximum = report.maximum
      BY <1>4, <2>1, <2>4 DEF Fields
    <3>2. SCALE * data.minimum <= report.maximum
      BY <2>1, <3>1 DEF ReportInv, CopiesAreOrdered
    <3>3. CASE f = "minimum"
      BY <1>4, <1>8, <3>1, <3>2, <3>3
    <3>4. CASE f # "minimum"
      BY <1>4, <2>1, <3>1, <3>2, <3>4 DEF ReportInv, CopiesAreOrdered, Fields
    <3>5. QED
      BY <3>3, <3>4
  <2>5. QED
    BY <2>3, <2>4
<1>12. QED
  BY <1>1, <1>4, <1>6, <1>10, <1>11 DEF ReportInv

\* Reports show ordered bounds, or fresh fields.
LEMMA ReportInvariant == Spec => []ReportInv
<1>1. Init => ReportInv
  BY DEF Init, ReportInv, CopiedInOrder, CopiesAreOrdered, CopiesAreFresh, Quantities
<1>2. TypeInv /\ ReportInv /\ [Next]_vars => ReportInv'
  <2> SUFFICES ASSUME TypeInv, ReportInv, [Next]_vars PROVE ReportInv'
    OBVIOUS
  <2>1. ASSUME NEW s \in SAMPLES, StartUpdate(s) PROVE ReportInv'
    <3>1. /\ UNCHANGED <<quantity, data, samples, report>>
          /\ update.step = "none" /\ update'.step = "minimum"
      BY <2>1 DEF StartUpdate
    <3>2. \A f \in Fields : Copied(f)' = Copied(f)
      BY <3>1 DEF Copied
    <3>3. QED
      BY <3>1, <3>2 DEF ReportInv, CopiedInOrder, CopiesAreOrdered, CopiesAreFresh
  <2>2. CASE UpdateMinimum \/ UpdateMaximum \/ UpdateMean \/ UpdateCount
    BY <2>2, UpdateKeepsReport
  <2>3. CASE StartReport
    <3>1. /\ quantity # "stack" /\ UNCHANGED <<quantity, data, update, samples>>
          /\ report'.left = Fields /\ report'.folded = (samples.set # {})
          /\ report'.quiet = (update.step = "none")
      <4>1. ReportType
        BY TypeParts DEF TypeInv
      <4>2. QED
        BY <2>3, <4>1 DEF StartReport, ReportType
    <3>2. CopiedInOrder' /\ CopiesAreOrdered'
      BY <3>1 DEF CopiedInOrder, CopiesAreOrdered, Fields
    <3>3. CopiesAreFresh'
      BY <3>1 DEF CopiesAreFresh
    <3>4. QED
      BY <3>1, <3>2, <3>3 DEF ReportInv
  <2>4. CASE CopyField
    BY <2>4, CopyFieldKeepsReport
  <2>5. CASE UNCHANGED statisticsVars
    <3>1. \A f \in Fields : Copied(f)' = Copied(f)
      BY <2>5 DEF Copied, statisticsVars
    <3>2. QED
      BY <2>5, <3>1 DEF statisticsVars, ReportInv, CopiedInOrder, CopiesAreOrdered,
                        CopiesAreFresh
  <2>6. QED
    BY <2>1, <2>2, <2>3, <2>4, <2>5
    DEF Next, vars, ThreadRuns, StartScan, find_high_water_mark
<1>3. QED
  BY <1>1, <1>2, TypeInvariant, PTL DEF Spec

\* A report begun after the first sample shows no minimum above its maximum,
\* and a mean between them if no update came in between.
THEOREM ReportIsOrderedCorrect == Spec => []ReportIsOrdered
<1>1. TypeInv /\ ReportInv => ReportIsOrdered
  <2> SUFFICES ASSUME TypeInv, ReportInv, report.left = {}, report.folded
               PROVE  /\ report.minimum <= report.maximum
                      /\ ~report.disturbed => /\ report.minimum <= report.mean
                                              /\ report.mean <= report.maximum
    BY DEF ReportIsOrdered
  <2>1. report.minimum <= report.maximum
    BY DEF ReportInv, CopiesAreOrdered
  <2>2. ASSUME ~report.disturbed
        PROVE  report.minimum <= report.mean /\ report.mean <= report.maximum
    <3>1. /\ data.minimum \in Nat /\ data.maximum \in Nat /\ data.mean \in Nat
          /\ SCALE \in Nat
      BY StatisticsType, ScaleAssumption DEF TypeInv
    <3>2. Between(data.minimum, data.mean, data.maximum)
      BY DEF ReportInv, TypeInv, UpdateInv, MeanIsBetween
    <3>3. /\ report.minimum = data.minimum * SCALE
          /\ report.maximum = data.maximum * SCALE
          /\ report.mean \in {data.mean, (data.mean \div SCALE) * SCALE}
      BY <2>2 DEF ReportInv, CopiesAreFresh, Fields, Copied
    <3>4. /\ data.minimum * SCALE = SCALE * data.minimum
          /\ data.maximum * SCALE = SCALE * data.maximum
          /\ SCALE * data.minimum \in Nat /\ SCALE * data.maximum \in Nat
      BY <3>1, SMT
    <3>5. SCALE * data.minimum <= data.mean /\ data.mean <= SCALE * data.maximum
      BY <3>2 DEF Between
    <3>6. /\ (data.mean \div SCALE) * SCALE \in Nat
          /\ (data.mean \div SCALE) * SCALE <= data.mean
          /\ SCALE * data.minimum <= (data.mean \div SCALE) * SCALE
      BY <3>1, <3>5, CutToUnits
    <3>7. QED
      BY <3>1, <3>3, <3>4, <3>5, <3>6
  <2>3. QED
    BY <2>1, <2>2
<1>2. QED
  BY <1>1, TypeInvariant, ReportInvariant, PTL

\* Quotient and remainder are unique.
LEMMA QuotientIs ==
    ASSUME NEW d \in Nat \ {0}, NEW q \in Nat, NEW r \in Nat, r < d
    PROVE  (d * q + r) \div d = q
<1> DEFINE a == d * q + r
           p == a \div d
<1>1. a \in Nat /\ p \in Nat /\ a = d * p + (a % d) /\ a % d \in 0..(d - 1)
  BY SMT
<1>2. d * (p - q) = r - (a % d)
  BY <1>1, SMT
<1> HIDE DEF p
<1>3. p - q \in Int /\ r - (a % d) < d /\ r - (a % d) > -d
  <2> HIDE DEF a
  <2>1. QED
    BY <1>1, SMT
<1>4. ~(p - q >= 1) /\ ~(p - q <= -1)
  <2> HIDE DEF a
  <2>1. QED
    BY <1>1, <1>2, <1>3, SMT
<1>5. QED
  BY <1>1, <1>3, <1>4 DEF p

\* A common factor of dividend and divisor cancels.
LEMMA DivisionCancels ==
    ASSUME NEW n \in Nat \ {0}, NEW k \in Nat \ {0}, NEW s \in Nat
    PROVE  (k * s) \div (n * k) = s \div n
<1> DEFINE q == s \div n
           r == s % n
<1>1. q \in Nat /\ r \in Nat /\ s = n * q + r /\ r < n
  BY SMT
<1> HIDE DEF q, r
<1>2. k * s = (n * k) * q + k * r
  BY <1>1, SMT
<1>3. n * k \in Nat \ {0} /\ k * r \in Nat /\ k * r < n * k
  BY <1>1, SMT
<1>4. ((n * k) * q + k * r) \div (n * k) = q
  BY <1>1, <1>3, QuotientIs
<1>5. QED
  BY <1>2, <1>4 DEF q

\* An undisturbed report is true: it shows the largest sample, the mean and,
\* for a thread, the smallest, of the samples folded so far.
THEOREM UndisturbedReportIsTrueCorrect == Spec => []UndisturbedReportIsTrue
<1>1. TypeInv /\ ReportInv => UndisturbedReportIsTrue
  <2> SUFFICES ASSUME TypeInv, ReportInv, report.left = {}, report.folded,
                      report.quiet, ~report.disturbed, update.step = "none"
               PROVE  /\ report.maximum = SCALE * Max(samples.set)
                      /\ quantity = "execution" =>
                            /\ report.minimum = SCALE * Min(samples.set)
                            /\ report.mean = SCALE * (samples.sum \div data.count)
                      /\ quantity = "idle" =>
                            report.mean * data.count = SCALE * samples.sum
    BY DEF UndisturbedReportIsTrue
  <2>1. /\ data.minimum \in Nat /\ data.maximum \in Nat /\ data.mean \in Nat
        /\ data.count \in Nat /\ data.count <= MAX_SAMPLES
        /\ samples.sum \in Nat /\ samples.set \subseteq Nat
        /\ SCALE \in Nat \ {0}
    BY StatisticsType, ScaleAssumption DEF TypeInv
  <2>2. /\ samples.set # {} /\ data.count # 0
        /\ InMinimum = samples.set /\ InMaximum = samples.set
    BY DEF ReportInv, TypeInv, UpdateInv, InMinimum, InMaximum
  <2>3. \A f \in Fields : report[f] = Copied(f)
    BY DEF ReportInv, CopiesAreFresh
  <2>4. Exact(data.mean, data.count, samples.sum)
    BY DEF TypeInv, UpdateInv, MeanIsExact
  <2>5. report.maximum = SCALE * Max(samples.set)
    <3>1. /\ data.maximum \in samples.set
          /\ \A s \in samples.set : data.maximum >= s
      BY <2>1, <2>2 DEF TypeInv, UpdateInv, MaximumIsLargest
    <3>2. Max(samples.set) = data.maximum
      BY <2>1, <3>1 DEF Max
    <3>3. report.maximum = data.maximum * SCALE
      BY <2>3 DEF Fields, Copied
    <3>4. QED
      BY <2>1, <3>2, <3>3, SMT
  <2>6. ASSUME quantity = "execution"
        PROVE  /\ report.minimum = SCALE * Min(samples.set)
               /\ report.mean = SCALE * (samples.sum \div data.count)
    <3>1. /\ data.minimum \in samples.set
          /\ \A s \in samples.set : data.minimum <= s
      BY <2>2, <2>6 DEF TypeInv, UpdateInv, MinimumIsLeast
    <3>2. Min(samples.set) = data.minimum
      BY <2>1, <3>1 DEF Min
    <3>3. /\ report.minimum = data.minimum * SCALE
          /\ report.mean = (data.mean \div SCALE) * SCALE
      BY <2>3, <2>6 DEF Fields, Copied
    <3>4. report.minimum = SCALE * Min(samples.set)
      BY <2>1, <3>2, <3>3, SMT
    <3>5. data.mean \div SCALE = samples.sum \div data.count
      <4> DEFINE n == data.count
                 sum == samples.sum
      <4>1. n \in 1..MAX_SAMPLES /\ n \in Nat \ {0} /\ sum \in Nat
        BY <2>1, <2>2, ScaleAssumption
      <4> HIDE DEF n, sum
      <4>2. PICK k \in Nat : SCALE = n * k
        BY <4>1, ScaleDivisible
      <4>3. k # 0
        BY <2>1, <4>1, <4>2, SMT
      <4>4. data.mean * n = SCALE * sum
        BY <2>4 DEF Exact, n, sum
      <4>5. data.mean * n = (k * sum) * n
        BY <4>1, <4>2, <4>4, SMT
      <4>6. n * data.mean <= n * (k * sum) /\ n * (k * sum) <= n * data.mean
            /\ k * sum \in Nat
        BY <2>1, <4>1, <4>5, SMT
      <4>7. data.mean = k * sum
        BY <2>1, <4>1, <4>6, Cancel
      <4>8. (k * sum) \div (n * k) = sum \div n
        BY <4>1, <4>3, DivisionCancels
      <4>9. QED
        BY <4>2, <4>7, <4>8 DEF n, sum
    <3>6. samples.sum \div data.count \in Nat
      BY <2>1, <2>2, SMT
    <3>7. QED
      BY <2>1, <3>3, <3>4, <3>5, <3>6, SMT
  <2>7. ASSUME quantity = "idle"
        PROVE  report.mean * data.count = SCALE * samples.sum
    <3>1. report.mean = data.mean
      BY <2>3, <2>7 DEF Fields, Copied
    <3>2. QED
      BY <2>4, <3>1 DEF Exact
  <2>8. QED
    BY <2>5, <2>6, <2>7
<1>2. QED
  BY <1>1, TypeInvariant, ReportInvariant, PTL

-----------------------------------------------------------------------------
(* The search for the high-water mark.                                     *)

\* While the thread runs, words are only taken, none above its deepest use.
LEMMA ThreadRunsKeepsScan ==
    ASSUME ScanType, ScanInv, NEW n \in 0..STACK_SIZE, ThreadRuns(n)
    PROVE  ScanInv'
<1>1. PICK written \in SUBSET ((STACK_SIZE - n + 1)..STACK_SIZE) :
          stack' = stack \cup written
  BY DEF ThreadRuns
<1>2. scan' = scan /\ depth' = Max({depth, n})
  BY DEF ThreadRuns
<1>3. depth \in Nat /\ n \in Nat /\ stack \subseteq Words
  BY StackAssumption DEF ScanType
<1>4. depth' \in Nat /\ depth <= depth' /\ n <= depth'
  BY <1>2, <1>3, MaxOfTwo
<1>5. \A w \in stack' : calculate_used_stack(w) <= depth'
  <2> SUFFICES ASSUME NEW w \in stack' PROVE calculate_used_stack(w) <= depth'
    OBVIOUS
  <2>1. CASE w \in stack
    <3>1. calculate_used_stack(w) <= depth /\ calculate_used_stack(w) \in Nat
      BY <1>3, <2>1, UsedStackType, StackAssumption DEF ScanInv
    <3>2. QED
      BY <1>3, <1>4, <3>1
  <2>2. CASE w \in written
    <3>1. w \in Int /\ STACK_SIZE - n + 1 <= w
      BY <1>3, <2>2, StackAssumption
    <3>2. QED
      BY <1>3, <1>4, <3>1, StackAssumption DEF calculate_used_stack
  <2>3. QED
    BY <1>1, <2>1, <2>2
<1>6. (scan.word # 0 =>
          /\ scan.usage = 0
          /\ \/ scan.lowest = 0
             \/ \E w \in stack : w >= scan.word /\ scan.lowest = calculate_used_stack(w))'
  BY <1>1, <1>2 DEF ScanInv, calculate_used_stack
<1>7. StackReportBetween'
  BY <1>2, <1>3, <1>4, StackAssumption DEF ScanInv, ScanType, StackReportBetween
<1>8. QED
  BY <1>5, <1>6, <1>7 DEF ScanInv

\* A search begins at the far end of the stack, below all words taken.
LEMMA StartScanKeepsScan ==
    ASSUME ScanType, ScanInv, StartScan
    PROVE  ScanInv'
<1> DEFINE low == IF stack = {} THEN 0 ELSE calculate_used_stack(Min(stack))
<1>1. scan' = [word |-> 1, usage |-> 0, lowest |-> low] /\ UNCHANGED <<stack, depth>>
  BY DEF StartScan
<1>2. \/ low = 0
      \/ \E w \in stack : w >= 1 /\ low = calculate_used_stack(w)
  <2>1. CASE stack = {}
    BY <2>1
  <2>2. CASE stack # {}
    <3>1. Min(stack) \in stack /\ Min(stack) \in Words
      BY <2>2, MinOfWords DEF ScanType
    <3>2. low = calculate_used_stack(Min(stack))
      BY <2>2
    <3> HIDE DEF low
    <3>3. Min(stack) >= 1
      BY <3>1 DEF Words
    <3>4. QED
      BY <3>1, <3>2, <3>3
  <2>3. QED
    BY <2>1, <2>2
<1> HIDE DEF low
<1>3. scan'.word = 1 /\ scan'.lowest = low /\ scan'.usage = 0
  BY <1>1
<1>4. QED
  BY <1>1, <1>2, <1>3 DEF ScanInv, StackReportBetween, calculate_used_stack

\* The search looks at one word.  The first that is taken lies no higher than
\* the one that it would have found when it began.
LEMMA LookKeepsScan ==
    ASSUME ScanType, ScanInv, find_high_water_mark
    PROVE  ScanInv'
<1> DEFINE w == scan.word
<1>1. /\ w # 0 /\ UNCHANGED <<stack, depth>>
      /\ w \in Words /\ stack \subseteq Words
      /\ scan'.lowest = scan.lowest
      /\ scan'.usage = (IF w \in stack THEN calculate_used_stack(w) ELSE scan.usage)
      /\ scan'.word = (IF w \in stack \/ w = STACK_SIZE THEN 0 ELSE w + 1)
  BY StackAssumption DEF find_high_water_mark, ScanType, Words
<1>2. \A v \in stack : calculate_used_stack(v) <= depth
  BY DEF ScanInv
<1>3. /\ scan.usage = 0
      /\ \/ scan.lowest = 0
         \/ \E v \in stack : v >= w /\ scan.lowest = calculate_used_stack(v)
  BY <1>1 DEF ScanInv
<1>4. scan.lowest \in Nat /\ scan.usage \in Nat /\ depth \in Nat
  BY StackAssumption DEF ScanType
<1>5. CASE w \in stack
  <2>1. scan'.usage = calculate_used_stack(w) /\ scan'.word = 0
    BY <1>1, <1>5
  <2>2. calculate_used_stack(w) <= depth
    BY <1>2, <1>5
  <2>3. scan.lowest <= calculate_used_stack(w)
    BY <1>1, <1>3, StackAssumption DEF Words, calculate_used_stack
  <2>4. QED
    BY <1>1, <1>2, <2>1, <2>2, <2>3 DEF ScanInv, StackReportBetween, calculate_used_stack
<1>6. CASE w \notin stack /\ w = STACK_SIZE
  <2>1. scan.lowest = 0
    BY <1>1, <1>3, <1>6, StackAssumption DEF Words
  <2>2. scan'.usage = scan.usage /\ scan'.word = 0
    BY <1>1, <1>6
  <2>3. QED
    BY <1>1, <1>2, <1>3, <1>4, <2>1, <2>2 DEF ScanInv, StackReportBetween, calculate_used_stack
<1>7. CASE w \notin stack /\ w # STACK_SIZE
  <2>1. \/ scan.lowest = 0
        \/ \E v \in stack : v >= w + 1 /\ scan.lowest = calculate_used_stack(v)
    BY <1>1, <1>3, <1>7 DEF Words
  <2>2. scan'.word = w + 1 /\ w + 1 # 0 /\ scan'.usage = 0
    BY <1>1, <1>3, <1>7 DEF Words
  <2>3. QED
    BY <1>1, <1>2, <2>1, <2>2 DEF ScanInv, StackReportBetween, calculate_used_stack
<1>8. QED
  BY <1>5, <1>6, <1>7

\* The invariant of the search.
LEMMA ScanInvariant == Spec => []ScanInv
<1>1. Init => ScanInv
  BY DEF Init, ScanInv, StackReportBetween
<1>2. TypeInv /\ ScanInv /\ [Next]_vars => ScanInv'
  <2> SUFFICES ASSUME TypeInv, ScanInv, [Next]_vars PROVE ScanInv'
    OBVIOUS
  <2>1. ScanType
    BY TypeParts DEF TypeInv
  <2>2. CASE UNCHANGED stackVars
    BY <2>2 DEF stackVars, ScanInv, StackReportBetween, calculate_used_stack
  <2>3. ASSUME NEW n \in 0..STACK_SIZE, ThreadRuns(n) PROVE ScanInv'
    BY <2>1, <2>3, ThreadRunsKeepsScan
  <2>4. CASE StartScan
    BY <2>1, <2>4, StartScanKeepsScan
  <2>5. CASE find_high_water_mark
    BY <2>1, <2>5, LookKeepsScan
  <2>6. QED
    BY <2>2, <2>3, <2>4, <2>5
    DEF Next, vars, StartUpdate, UpdateMinimum, UpdateMaximum, UpdateMean,
        UpdateCount, UpdateStep, StartReport, CopyField
<1>3. QED
  BY <1>1, <1>2, TypeInvariant, PTL DEF Spec

\* The reported use of a stack lies between what the stack showed at the call
\* and the deepest use until the return, for any stack.
THEOREM StackReportBetweenCorrect == Spec => []StackReportBetween
<1>1. ScanInv => StackReportBetween
  BY DEF ScanInv
<1>2. QED
  BY <1>1, ScanInvariant, PTL
=============================================================================
