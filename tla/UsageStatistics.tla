--------------------------- MODULE UsageStatistics ---------------------------
(***************************************************************************)
(* Usage statistics: update_execution_time_data (ThreadsCommon.c), the     *)
(* idle task's use of the CPU and the use of a thread's stack (Monitor.c). *)
(*                                                                         *)
(* A sample is folded into a minimum, a maximum, a mean and a count, one   *)
(* after the other, and a report copies them one after the other, while    *)
(* tasks of any priority preempt each other: nothing is locked.  A stack   *)
(* is searched for its high-water mark while its thread goes on using it.  *)
(* Reports write nothing that others read: one at a time is enough.        *)
(*                                                                         *)
(* Real numbers are multiples of 1/SCALE, where SCALE is divisible by      *)
(* every count that is reached; rounding is outside of the model.          *)
(***************************************************************************)
EXTENDS Naturals, FiniteSetsExt

CONSTANTS
    SAMPLES,        \* execution times, or percentages
    UINT64_MAX,     \* above every sample
    MAX_SAMPLES,    \* bound: samples in a behaviour
    SCALE,          \* parts of a unit
    STACK_SIZE      \* words of the thread's stack

ASSUME SamplesAssumption ==
    SAMPLES \subseteq Nat /\ UINT64_MAX \in Nat \ {0}
    /\ \A s \in SAMPLES : s < UINT64_MAX
ASSUME ScaleAssumption ==
    MAX_SAMPLES \in Nat /\ SCALE \in Nat \ {0}
    /\ \A n \in 1..MAX_SAMPLES : SCALE % n = 0
ASSUME StackAssumption == STACK_SIZE \in Nat \ {0}

VARIABLES
    quantity,   \* what is measured; the three share no state, and a
                \* behaviour looks at one of them
    data,       \* its minimum, maximum, mean and count
    update,     \* the update in progress: its next step and its sample
    samples,    \* history: sum and set of the samples folded completely
    report,     \* the report in progress or completed last
    stack,      \* words of the stack that no longer hold the pattern
    depth,      \* history: the most words the thread has ever used
    scan        \* the search for the high-water mark

statisticsVars == <<quantity, data, update, samples, report>>
stackVars == <<stack, depth, scan>>
vars == <<statisticsVars, stackVars>>

-----------------------------------------------------------------------------
\* "execution" time of a thread, "idle" usage of the CPU, or a "stack".
Quantities == {"execution", "idle", "stack"}
Fields == {"minimum", "maximum", "mean"}
Value == 0..(SCALE * UINT64_MAX)
Words == 1..STACK_SIZE          \* word 1 is the one a full stack reaches last

\* threads_info starts with the largest minimum, idle_cpu_usage_data with zeros.
InitialMinimum == IF quantity = "execution" THEN UINT64_MAX ELSE 0

Init ==
    /\ quantity \in Quantities
    /\ data = [minimum |-> InitialMinimum, maximum |-> 0, mean |-> 0,
               count |-> 0]
    /\ update = [step |-> "none", sample |-> 0]
    /\ samples = [sum |-> 0, set |-> {}]
    /\ report = [left |-> {}, minimum |-> 0, maximum |-> 0, mean |-> 0,
                 folded |-> FALSE, quiet |-> FALSE, disturbed |-> FALSE]
    /\ stack = {} /\ depth = 0
    /\ scan = [word |-> 0, lowest |-> 0, usage |-> 0]

\* A request has been executed, or Monitor_MonitoringTick has measured.
StartUpdate(s) ==
    /\ quantity # "stack" /\ update.step = "none"
    /\ data.count < MAX_SAMPLES
    /\ update' = [step |-> "minimum", sample |-> s]
    /\ UNCHANGED <<quantity, data, samples, report, stackVars>>

\* One step of an update: the statistics become d.
UpdateStep(here, d, next) ==
    /\ update.step = here
    /\ data' = d
    /\ update' = [update EXCEPT !.step = next]
    /\ report' = [report EXCEPT !.disturbed = TRUE]
    /\ UNCHANGED <<quantity, stackVars>>

UpdateMinimum ==
    /\ UpdateStep("minimum",
           [data EXCEPT !.minimum = IF update.sample < @ THEN update.sample
                                    ELSE @], "maximum")
    /\ UNCHANGED samples

\* Mutant: an "else" makes a sample that is a new minimum no maximum.
ElseMaximum ==
    /\ UpdateStep("maximum",
           [data EXCEPT !.maximum = IF /\ update.sample > @
                                       /\ update.sample # data.minimum
                                    THEN update.sample ELSE @], "mean")
    /\ UNCHANGED samples

UpdateMaximum ==
    /\ UpdateStep("maximum",
           [data EXCEPT !.maximum = IF update.sample > @ THEN update.sample
                                    ELSE @], "mean")
    /\ UNCHANGED samples

\* Mutant: the count is taken as it is before the update.
MeanOfTooFew ==
    /\ UpdateStep("mean",
           [data EXCEPT !.mean = (update.sample * SCALE + data.count * @)
                                 \div (IF data.count = 0 THEN 1 ELSE data.count)],
           "count")
    /\ UNCHANGED samples

\* mean + (sample - mean) / (count + 1), over a common denominator.
UpdateMean ==
    /\ UpdateStep("mean",
           [data EXCEPT !.mean = (update.sample * SCALE + data.count * @)
                                 \div (data.count + 1)], "count")
    /\ UNCHANGED samples

UpdateCount ==
    /\ UpdateStep("count", [data EXCEPT !.count = @ + 1], "none")
    /\ samples' = [sum |-> samples.sum + update.sample,
                   set |-> samples.set \cup {update.sample}]

-----------------------------------------------------------------------------
\* Monitor_GetUsageData, Monitor_GetIdleCPUUsageData: a call begins.
StartReport ==
    /\ quantity # "stack" /\ report.left = {}
    /\ report' = [report EXCEPT !.left = Fields,
                                !.folded = samples.set # {},
                                !.quiet = update.step = "none",
                                !.disturbed = FALSE]
    /\ UNCHANGED <<quantity, data, update, samples, stackVars>>

\* The fields that may be copied next: Monitor_GetUsageData copies them in its
\* order, the structure of Monitor_GetIdleCPUUsageData is copied in any.
NextFields ==
    IF quantity = "idle" THEN report.left
    ELSE IF "maximum" \in report.left THEN {"maximum"}
    ELSE report.left \cap {IF "minimum" \in report.left THEN "minimum"
                           ELSE "mean"}

\* The mean is a double that is cut to an integer for an execution time.
Copied(f) == IF f = "mean" /\ quantity = "execution"
             THEN (data.mean \div SCALE) * SCALE
             ELSE IF f = "mean" THEN data.mean ELSE data[f] * SCALE

CopyField ==
    /\ \E f \in NextFields :
           report' = [report EXCEPT !.left = @ \ {f}, ![f] = Copied(f)]
    /\ UNCHANGED <<quantity, data, update, samples, stackVars>>

-----------------------------------------------------------------------------
\* The thread goes down to n words of its stack and writes some of them; a
\* word it writes is not taken for the pattern.
ThreadRuns(n) ==
    /\ quantity = "stack"
    /\ depth' = Max({depth, n})
    /\ \E written \in SUBSET ((STACK_SIZE - n + 1)..STACK_SIZE) :
           stack' = stack \cup written
    /\ UNCHANGED <<statisticsVars, scan>>

\* STACK_SIZE minus the words above w: calculate_used_stack.
calculate_used_stack(w) == STACK_SIZE - w + 1

\* Monitor_GetMaximumStackUsage; "lowest" remembers what a search would find
\* now, 0 if nothing.
StartScan ==
    /\ quantity = "stack" /\ scan.word = 0
    /\ scan' = [word |-> 1, usage |-> 0,
                lowest |-> IF stack = {} THEN 0
                           ELSE calculate_used_stack(Min(stack))]
    /\ UNCHANGED <<statisticsVars, stack, depth>>

\* Mutant: the search begins at the other end of the stack.
ScanFromTop ==
    /\ scan.word # 0
    /\ LET found == STACK_SIZE - scan.word + 1 \in stack
       IN  scan' = [scan EXCEPT
               !.usage = IF found THEN scan.word ELSE @,
               !.word = IF found \/ @ = STACK_SIZE THEN 0 ELSE @ + 1]
    /\ UNCHANGED <<statisticsVars, stack, depth>>

\* find_high_water_mark looks at one word; nothing found leaves a usage of 0.
find_high_water_mark ==
    /\ scan.word # 0
    /\ LET found == scan.word \in stack
       IN  scan' = [scan EXCEPT
               !.usage = IF found THEN calculate_used_stack(scan.word) ELSE @,
               !.word = IF found \/ @ = STACK_SIZE THEN 0 ELSE @ + 1]
    /\ UNCHANGED <<statisticsVars, stack, depth>>

-----------------------------------------------------------------------------
Next == \/ \E s \in SAMPLES : StartUpdate(s)
        \/ UpdateMinimum \/ UpdateMaximum \/ UpdateMean \/ UpdateCount
        \/ StartReport \/ CopyField
        \/ \E n \in 0..STACK_SIZE : ThreadRuns(n)
        \/ StartScan \/ find_high_water_mark

Spec == Init /\ [][Next]_vars

-----------------------------------------------------------------------------
\* Types; UINT64_MAX is a minimum only until the first sample is folded.
TypeOK ==
    /\ quantity \in Quantities
    /\ data \in [minimum: 0..UINT64_MAX, maximum: SAMPLES \cup {0},
                 mean: 0..(SCALE * (UINT64_MAX - 1)), count: 0..MAX_SAMPLES]
    /\ update \in [step: {"none", "count"} \cup Fields,
                   sample: SAMPLES \cup {0}]
    /\ samples.sum \in Nat /\ samples.set \subseteq SAMPLES
    /\ report \in [left: SUBSET Fields, minimum: Value, maximum: Value,
                   mean: Value, folded: BOOLEAN, quiet: BOOLEAN,
                   disturbed: BOOLEAN]
    /\ stack \subseteq Words /\ depth \in 0..STACK_SIZE
    /\ scan \in [word: 0..STACK_SIZE, lowest: 0..STACK_SIZE,
                 usage: 0..STACK_SIZE]

\* A report that was begun after the first sample never shows a minimum above
\* its maximum, however often the thread preempted it; and one that was not
\* preempted shows a mean between the two, even if it preempted an update:
\* the bounds are stored before the mean.
ReportIsOrdered ==
    report.left = {} /\ report.folded =>
        /\ report.minimum <= report.maximum
        /\ ~report.disturbed => /\ report.minimum <= report.mean
                                /\ report.mean <= report.maximum

\* A report made while no update was under way is true: it shows the largest
\* sample, the mean of all samples and, for a thread, the smallest.
UndisturbedReportIsTrue ==
    report.left = {} /\ report.folded /\ report.quiet
    /\ ~report.disturbed /\ update.step = "none" =>
        /\ report.maximum = SCALE * Max(samples.set)
        /\ quantity = "execution" =>
               /\ report.minimum = SCALE * Min(samples.set)
               /\ report.mean = SCALE * (samples.sum \div data.count)
        /\ quantity = "idle" =>
               report.mean * data.count = SCALE * samples.sum

\* Monitor_GetMaximumStackUsage reports no less than the stack showed when it
\* was called and no more than the thread has used when it returns, although
\* the thread runs between the words that find_high_water_mark looks at.
StackReportBetween ==
    scan.word = 0 => scan.lowest <= scan.usage /\ scan.usage <= depth
=============================================================================
