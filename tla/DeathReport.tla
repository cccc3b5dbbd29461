----------------------------- MODULE DeathReport -----------------------------
(***************************************************************************)
(* The report a fault leaves behind for the boot software: Fault_Handler   *)
(* and Fault_HandlerTail (FaultHandler.c), DeathReportWriter.c, the vector *)
(* table (CustomExceptionVector.c), the watchdog and the reset reason      *)
(* (Hal.c, BootHelper.c).                                                  *)
(*                                                                         *)
(* The report lies in memory that survives a reset, behind the data cache: *)
(* the handler writes lines of the cache, a line may be written back at    *)
(* any moment, and a reset loses the lines that were not.  Resets come at  *)
(* any moment, and a fault may hit the handler itself.                     *)
(*                                                                         *)
(* Faults are numbered; a field of the report holds the number of the      *)
(* fault it was written for, 0 being what is in memory after power-up.  A  *)
(* checksum is the contents it was computed over, so that two contents     *)
(* never share one; a CRC-16 collision is outside of the model.            *)
(***************************************************************************)
EXTENDS Naturals

CONSTANTS
    MAX_FAULTS,     \* bound: faults in a behaviour
    NULL            \* no checksum, no report

ASSUME MaxFaultsAssumption == MAX_FAULTS \in Nat

VARIABLES
    report,         \* the report as the processor sees it, through the cache
    memory,         \* the report in the memory behind the cache
    at,             \* what the processor is doing, see Stages
    faults,         \* number of the latest fault
    active,         \* the exception whose handler runs
    relocated,      \* Nvic_relocateVectorTable has installed exception_table
    build,          \* the watchdog macro the runtime is compiled with
    watchdog,       \* configuration of the watchdog
    fed,            \* the watchdog was reset during its current period
    idleTaskIsWatchdogEnabled,
    resetType,      \* Rstc_getLastResetType
    taken           \* report the boot software took at the last boot, or NULL

reportVars == <<report, memory>>
watchdogVars == <<build, watchdog, fed, idleTaskIsWatchdogEnabled>>
vars == <<report, memory, at, faults, active, relocated, watchdogVars,
          resetType, taken>>

-----------------------------------------------------------------------------
\* The layout of DeathReportWriter_DeathReport.  "registers" stands for the
\* registers, the system control block and stack_trace_pointer; "stack" for the
\* words that every stack trace has, "rest" for those only a full one has.
Number == 0..MAX_FAULTS
Contents == [was_seen: BOOLEAN, exception_id: Number, registers: Number,
             length: {"short", "full"}, stack: Number, rest: Number]
Report == [checksum: Contents \cup {NULL}, was_seen: BOOLEAN,
           exception_id: Number, registers: Number,
           length: {"short", "full"}, stack: Number, rest: Number]

ASSUME NullAssumption == NULL \notin Contents /\ NULL \notin Report

\* Fields that share a cache line: the first line starts with the checksum.
CacheLines == {{"checksum", "was_seen", "exception_id"},
               {"registers", "length"}, {"stack", "rest"}}

\* Mutant: the size of the report leaves out the stack trace.
CrcOfHeaderOnly(r) ==
    [was_seen |-> r.was_seen, exception_id |-> r.exception_id,
     registers |-> r.registers, length |-> r.length, stack |-> 0, rest |-> 0]

\* calculate_report_crc: over everything behind the checksum itself.
calculate_report_crc(r) ==
    [was_seen |-> r.was_seen, exception_id |-> r.exception_id,
     registers |-> r.registers, length |-> r.length,
     stack |-> r.stack, rest |-> r.rest]

\* What is in the memory after power-up: no checksum fits it.
Garbage == [checksum |-> NULL, was_seen |-> FALSE, exception_id |-> 0,
            registers |-> 0, length |-> "short", stack |-> 0, rest |-> 0]

HandlerStages == {"Fault_Handler", "save_registers", "save_length",
                  "save_stack", "save_rest", "mark", "seal", "clean",
                  "invalidate", "reset"}
\* "boot": the boot software runs; "init": Hal_Init is about to run;
\* "up": tasks run; "stopped": a failed assertion, a lock-up, or a fault that
\* exception_table does not route, none of which ever ends by itself.
Stages == HandlerStages \cup {"boot", "init", "up", "stopped"}

Exceptions == {"hardFault", "memManage", "busFault", "usageFault", "nmi"}
Fault_Handler == "Fault_Handler"

\* The vector table: the four faults go to Fault_Handler, the rest to the kernel.
exception_table ==
    [e \in Exceptions |->
        IF e \in {"hardFault", "memManage", "busFault", "usageFault"}
        THEN Fault_Handler ELSE "stopped"]

\* FaultHandler_Init enables the usage fault on its own; the other two are
\* left as they were, disabled, and escalate to a hard fault.
EnabledFaults == IF relocated THEN {"usageFault"} ELSE {}

\* A fault that is not enabled, or that the running handler's priority keeps
\* from being taken, becomes a hard fault; nothing holds an NMI back.
Escalated(e) == IF e = "nmi" \/ (e \in EnabledFaults /\ active = "none")
                THEN e ELSE "hardFault"

\* BootHelper_GetResetReason.
Hal_GetResetReason ==
    IF resetType \in {"Powerup", "Backup", "Watchdog", "Software", "User"}
    THEN resetType ELSE "Unknown"

-----------------------------------------------------------------------------
\* The boot software takes a report that is sealed and not yet seen, and marks
\* it as seen, with or without sealing it again.
Take(r) == IF r.checksum = calculate_report_crc(r) /\ ~r.was_seen
           THEN r ELSE NULL

BootSoftware ==
    /\ at = "boot"
    /\ taken' = Take(memory)
    /\ LET seen == [memory EXCEPT !.was_seen = TRUE]
       IN  memory' \in IF taken' = NULL THEN {memory}
                       ELSE {seen, [seen EXCEPT
                                        !.checksum = calculate_report_crc(seen)]}
    /\ report' = memory'
    /\ at' = "init"
    /\ UNCHANGED <<faults, active, relocated, watchdogVars, resetType>>

\* The configuration a build asks for; RT_RTOS_NO_INIT keeps what it finds.
wdtConfig == [isDisabled |-> build # "RT_RTOS_USE_WATCHDOG",
              isResetEnabled |-> build = "RT_RTOS_USE_WATCHDOG"]

\* Hal_Init: the mode register can be written once, so the boot software may
\* have settled it; the assertion compares what is read back.
Init_setup_watchdog ==
    /\ at = "init"
    /\ IF build = "RT_RTOS_NO_INIT"
       THEN /\ idleTaskIsWatchdogEnabled' = ~watchdog.isDisabled
            /\ at' = "up"
            /\ UNCHANGED watchdog
       ELSE /\ watchdog' \in {watchdog, wdtConfig}
            /\ at' = IF watchdog' = wdtConfig THEN "up" ELSE "stopped"
            /\ UNCHANGED idleTaskIsWatchdogEnabled
    /\ UNCHANGED <<reportVars, faults, active, relocated, build, fed,
                   resetType, taken>>

FaultHandler_Init ==
    /\ at \in {"init", "up"} /\ ~relocated
    /\ relocated' = TRUE
    /\ UNCHANGED <<reportVars, at, faults, active, watchdogVars, resetType,
                   taken>>

\* A task of the application, or the idle task if it was told to.
Hal_ResetWatchdog ==
    /\ at = "up"
    /\ fed' = TRUE
    /\ UNCHANGED <<reportVars, at, faults, active, relocated, build, watchdog,
                   idleTaskIsWatchdogEnabled, resetType, taken>>

Hal_IdleTask == idleTaskIsWatchdogEnabled /\ Hal_ResetWatchdog

-----------------------------------------------------------------------------
\* A fault in a task, in start-up code or in the handler itself.  One in the
\* handler of a hard fault locks the processor up; one before exception_table
\* is in place goes to the kernel.
Fault(e) ==
    /\ at \in HandlerStages \cup {"init", "up"}
    /\ faults < MAX_FAULTS
    /\ faults' = faults + 1
    /\ active' = Escalated(e)
    /\ at' = IF relocated /\ active # "hardFault"
             THEN exception_table[active'] ELSE "stopped"
    /\ UNCHANGED <<reportVars, relocated, watchdogVars, resetType, taken>>

\* One step of the handler: the report becomes r, and the next step is s.
HandlerStep(here, r, s) ==
    /\ at = here
    /\ report' = r
    /\ at' = s
    /\ UNCHANGED <<memory, faults, active, relocated, build, watchdog,
                   idleTaskIsWatchdogEnabled, resetType, taken>>

\* Fault_Handler writes the watchdog's key to an address that is the same in
\* every build, so it may or may not be this core's; then it saves exception
\* and registers, some of which it reads from a stack that may be broken.
SaveException ==
    /\ HandlerStep("Fault_Handler",
                   [report EXCEPT !.exception_id = faults], "save_registers")
    /\ fed' \in {fed, TRUE}
SaveRegisters ==
    /\ HandlerStep("save_registers",
                   [report EXCEPT !.registers = faults], "save_length")
    /\ UNCHANGED fed

\* Mutant: the loop counts words where the length is in bytes, and stops short.
StopsShort ==
    /\ HandlerStep("save_stack", [report EXCEPT !.stack = faults], "mark")
    /\ UNCHANGED fed

\* save_stack: the length is capped to the report's buffer, then so many bytes
\* are copied; what is behind them stays as it was.
SaveLength ==
    /\ \E length \in {"short", "full"} :
           HandlerStep("save_length", [report EXCEPT !.length = length],
                       "save_stack")
    /\ UNCHANGED fed
SaveStack ==
    /\ HandlerStep("save_stack", [report EXCEPT !.stack = faults],
                   IF report.length = "full" THEN "save_rest" ELSE "mark")
    /\ UNCHANGED fed
SaveRest ==
    /\ HandlerStep("save_rest", [report EXCEPT !.rest = faults], "mark")
    /\ UNCHANGED fed

\* Mutant: the checksum is computed over the old checksum as well.
SealsWholeReport ==
    /\ HandlerStep("seal", [report EXCEPT !.checksum = report], "clean")
    /\ UNCHANGED fed

\* DeathReportWriter_GenerateDeathReport behind save_stack.
MarkUnseen ==
    /\ HandlerStep("mark", [report EXCEPT !.was_seen = FALSE], "seal")
    /\ UNCHANGED fed
Seal ==
    /\ HandlerStep("seal", [report EXCEPT
                                !.checksum = calculate_report_crc(report)],
                   "clean")
    /\ UNCHANGED fed

\* Mutant: the cache is invalidated without having been cleaned.
NotCleaned ==
    /\ at = "clean"
    /\ at' = "invalidate"
    /\ UNCHANGED <<reportVars, faults, active, relocated, watchdogVars,
                   resetType, taken>>

\* Fault_HandlerTail: every line is written back, then thrown away.
Scb_cleanDCache ==
    /\ at = "clean"
    /\ memory' = report
    /\ at' = "invalidate"
    /\ UNCHANGED <<report, faults, active, relocated, watchdogVars, resetType,
                   taken>>
Scb_invalidateDCache ==
    /\ HandlerStep("invalidate", memory, "reset")
    /\ UNCHANGED fed

-----------------------------------------------------------------------------
\* A reset: the lines of the cache are lost, the processor starts again and
\* the boot software settles the watchdog as it likes.
Restart(type, kept) ==
    /\ resetType' = type
    /\ report' = kept /\ memory' = kept
    /\ at' = "boot"
    /\ active' = "none"
    /\ relocated' = FALSE
    /\ idleTaskIsWatchdogEnabled' = FALSE
    /\ watchdog' \in [isDisabled: BOOLEAN, isResetEnabled: BOOLEAN]
    /\ fed' = TRUE
    /\ UNCHANGED <<faults, build, taken>>

\* Mutant: the endless loop is entered without the reset.
LoopsForEver == at = "reset" /\ UNCHANGED vars

Rstc_resetSystem == at = "reset" /\ Restart("Software", memory)

\* A reset from outside, or a power failure, at any moment.
ExternalReset == \/ Restart("User", memory)
                 \/ Restart("Powerup", Garbage)

WatchdogOn == ~watchdog.isDisabled /\ watchdog.isResetEnabled
WatchdogPeriodEnds ==
    /\ WatchdogOn /\ fed
    /\ fed' = FALSE
    /\ UNCHANGED <<reportVars, at, faults, active, relocated, build, watchdog,
                   idleTaskIsWatchdogEnabled, resetType, taken>>
WatchdogFires == WatchdogOn /\ ~fed /\ Restart("Watchdog", memory)

\* The cache writes a line back of its own accord.
WriteBack(line) ==
    /\ memory' = [f \in DOMAIN memory |->
                      IF f \in line THEN report[f] ELSE memory[f]]
    /\ memory' # memory
    /\ UNCHANGED <<report, at, faults, active, relocated, watchdogVars,
                   resetType, taken>>

-----------------------------------------------------------------------------
Init ==
    /\ report = Garbage /\ memory = Garbage
    /\ at = "boot"
    /\ faults = 0 /\ active = "none" /\ relocated = FALSE
    /\ build \in {"RT_RTOS_NO_INIT", "RT_RTOS_USE_WATCHDOG", "default"}
    /\ watchdog \in [isDisabled: BOOLEAN, isResetEnabled: BOOLEAN]
    /\ fed = TRUE /\ idleTaskIsWatchdogEnabled = FALSE
    /\ resetType = "Powerup" /\ taken = NULL

Handler == \/ SaveException \/ SaveRegisters \/ SaveLength \/ SaveStack
           \/ SaveRest \/ MarkUnseen \/ Seal
           \/ Scb_cleanDCache \/ Scb_invalidateDCache \/ Rstc_resetSystem

Next == \/ BootSoftware \/ Init_setup_watchdog \/ FaultHandler_Init
        \/ Hal_ResetWatchdog \/ Hal_IdleTask
        \/ \E e \in Exceptions : Fault(e)
        \/ Handler
        \/ ExternalReset \/ WatchdogPeriodEnds \/ WatchdogFires
        \/ \E line \in CacheLines : WriteBack(line)

\* The handler runs with interrupts disabled, and the watchdog is a clock.
Fairness == WF_vars(Handler) /\ WF_vars(WatchdogPeriodEnds)
            /\ WF_vars(WatchdogFires)

Spec == Init /\ [][Next]_vars /\ Fairness

-----------------------------------------------------------------------------
\* The state's types; the cache and the memory differ in the handler only.
TypeOK ==
    /\ report \in Report /\ memory \in Report
    /\ at \in Stages
    /\ faults \in Number
    /\ active \in Exceptions \cup {"none"}
    /\ relocated \in BOOLEAN /\ fed \in BOOLEAN
    /\ build \in {"RT_RTOS_NO_INIT", "RT_RTOS_USE_WATCHDOG", "default"}
    /\ watchdog \in [isDisabled: BOOLEAN, isResetEnabled: BOOLEAN]
    /\ idleTaskIsWatchdogEnabled \in BOOLEAN
    /\ resetType \in {"Powerup", "Watchdog", "Software", "User"}
    /\ taken \in Report \cup {NULL}

\* The parts of a report that are meant to be read all belong to one fault.
OneFault(r) ==
    /\ r.registers = r.exception_id
    /\ r.stack = r.exception_id
    /\ r.length = "full" => r.rest = r.exception_id

\* The boot software never takes half a report, or one put together from two
\* faults, whatever the cache had written back when a reset or a second fault
\* interrupted DeathReportWriter_GenerateDeathReport.
ReportIsOneFault == taken # NULL => OneFault(taken)

\* A fault whose handler came to its end is reported: after the reset by
\* Rstc_resetSystem the boot software finds the sealed, unseen report of the
\* latest fault, because Fault_HandlerTail cleans the cache first.
FaultIsReported ==
    at = "init" /\ Hal_GetResetReason = "Software" =>
        /\ taken # NULL
        /\ taken.exception_id = faults

\* After a fault the system starts again: either the handler gets to its reset
\* or, if it was hit by another fault, an enabled watchdog ends the lock-up.
\* Only a system that runs without its watchdog can stay dead.
FaultEndsInReset ==
    at \in HandlerStages \cup {"stopped"} ~>
        (at = "boot" \/ (at = "stopped" /\ ~WatchdogOn))
=============================================================================
