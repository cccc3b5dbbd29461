--------------------------- MODULE DeathReportProofs ---------------------------
(***************************************************************************)
(* Proofs about the death report, for any number of faults: what the boot  *)
(* software takes is one fault's report, and a handler that came to its    *)
(* end is reported.  Nothing is assumed about the order in which the cache *)
(* writes its lines back, nor about the moments of resets and of faults.   *)
(***************************************************************************)
EXTENDS DeathReport, TLAPS

USE MaxFaultsAssumption, NullAssumption
    DEF reportVars, watchdogVars

-----------------------------------------------------------------------------
\* What the handler has saved when it gets to a stage is the latest fault's.
Saved ==
    /\ at \in {"save_registers", "save_length", "save_stack", "save_rest",
               "mark", "seal", "clean"} => report.exception_id = faults
    /\ at \in {"save_length", "save_stack", "save_rest", "mark", "seal",
               "clean"} => report.registers = faults
    /\ at \in {"save_rest", "mark", "seal", "clean"} => report.stack = faults
    /\ at \in {"mark", "seal", "clean"} /\ report.length = "full"
           => report.rest = faults
    /\ at \in {"seal", "clean"} => ~report.was_seen
    /\ at = "clean" => report.checksum = calculate_report_crc(report)

\* Every checksum, wherever it is, was computed over one fault's report.
ChecksumIsOneFault(r) == r.checksum # NULL => OneFault(r.checksum)

\* Outside of the handler, and at its end, nothing is left in the cache only.
CacheIsClean ==
    at \in {"boot", "init", "up", "invalidate", "reset"} => report = memory

\* A report of the latest fault that the boot software will take.
Complete(r) ==
    /\ r.checksum = calculate_report_crc(r)
    /\ ~r.was_seen
    /\ r.exception_id = faults

MemoryIsComplete ==
    at \in {"invalidate", "reset"} \/ (at = "boot" /\ resetType = "Software")
        => Complete(memory)

\* The inductive invariant: half a report does not fit its checksum because
\* every checksum is that of one fault, and from "clean" on the memory has all.
ReportInv ==
    /\ Saved
    /\ ChecksumIsOneFault(report) /\ ChecksumIsOneFault(memory)
    /\ CacheIsClean
    /\ MemoryIsComplete
    /\ ReportIsOneFault
    /\ FaultIsReported

-----------------------------------------------------------------------------
\* calculate_report_crc gives the contents of a report.
LEMMA CrcType ==
    ASSUME NEW r \in Report
    PROVE  /\ calculate_report_crc(r) \in Contents
           /\ calculate_report_crc(r) # NULL
  BY DEF calculate_report_crc, Report, Contents

\* A checksum speaks of the report's own fields.
LEMMA CrcKeepsFault ==
    ASSUME NEW r \in Report
    PROVE  OneFault(calculate_report_crc(r)) <=> OneFault(r)
  BY DEF calculate_report_crc, OneFault

\* The memory of a machine that was switched on.
LEMMA GarbageType == Garbage \in Report /\ Garbage.checksum = NULL
  BY DEF Garbage, Report, Number

\* What the boot software takes fits its checksum, so it is of one fault.
LEMMA TakenIsOneFault ==
    ASSUME NEW r \in Report, ChecksumIsOneFault(r), Take(r) # NULL
    PROVE  Take(r) = r /\ OneFault(r)
  BY CrcType, CrcKeepsFault DEF Take, ChecksumIsOneFault

\* A line of the cache that is written back leaves a report in the memory,
\* whose checksum is the one that was there or the one in the cache.
LEMMA WrittenBack ==
    ASSUME TypeOK, NEW line \in CacheLines, WriteBack(line)
    PROVE  /\ memory' \in Report
           /\ memory'.checksum \in {report.checksum, memory.checksum}
<1> DEFINE m(f) == IF f \in line THEN report[f] ELSE memory[f]
<1>1. DOMAIN memory = {"checksum", "was_seen", "exception_id", "registers",
                       "length", "stack", "rest"}
  BY DEF TypeOK, Report
<1>2. memory' = [f \in {"checksum", "was_seen", "exception_id", "registers",
                        "length", "stack", "rest"} |-> m(f)]
  BY <1>1 DEF WriteBack
<1>3. memory' = [checksum |-> m("checksum"), was_seen |-> m("was_seen"),
                 exception_id |-> m("exception_id"),
                 registers |-> m("registers"), length |-> m("length"),
                 stack |-> m("stack"), rest |-> m("rest")]
  BY <1>2, Zenon
<1>4. /\ m("checksum") \in Contents \cup {NULL}
      /\ m("exception_id") \in Number /\ m("registers") \in Number
      /\ m("length") \in {"short", "full"}
      /\ m("stack") \in Number /\ m("rest") \in Number
  BY DEF TypeOK, Report
<1>5. m("was_seen") \in BOOLEAN
  BY DEF TypeOK, Report
<1>6. memory' \in Report
  BY <1>3, <1>4, <1>5 DEF Report
<1>7. memory'.checksum \in {report.checksum, memory.checksum}
  BY <1>2
<1> QED
  BY <1>6, <1>7

-----------------------------------------------------------------------------
\* A reset of each kind restarts with what the memory holds, or with garbage.
LEMMA RestartStep ==
    ASSUME NEW type, NEW kept, Restart(type, kept)
    PROVE  /\ resetType' = type /\ report' = kept /\ memory' = kept
           /\ at' = "boot" /\ active' = "none" /\ relocated' = FALSE
           /\ idleTaskIsWatchdogEnabled' = FALSE /\ fed' = TRUE
           /\ watchdog' \in [isDisabled: BOOLEAN, isResetEnabled: BOOLEAN]
           /\ UNCHANGED <<faults, build, taken>>
  BY DEF Restart

\* Every variable keeps its type.
THEOREM TypeCorrect == Spec => []TypeOK
<1>1. Init => TypeOK
  <2> SUFFICES ASSUME Init PROVE TypeOK
    OBVIOUS
  <2>1. report \in Report /\ memory \in Report
    BY GarbageType DEF Init
  <2>2. at \in Stages /\ faults \in Number /\ active \in Exceptions \cup {"none"}
    BY DEF Init, Number, Stages
  <2>3. /\ relocated \in BOOLEAN /\ fed \in BOOLEAN
        /\ idleTaskIsWatchdogEnabled \in BOOLEAN
    BY DEF Init
  <2>4. /\ build \in {"RT_RTOS_NO_INIT", "RT_RTOS_USE_WATCHDOG", "default"}
        /\ watchdog \in [isDisabled: BOOLEAN, isResetEnabled: BOOLEAN]
        /\ resetType \in {"Powerup", "Watchdog", "Software", "User"}
        /\ taken \in Report \cup {NULL}
    BY DEF Init
  <2> QED
    BY <2>1, <2>2, <2>3, <2>4, Zenon DEF TypeOK
<1>2. TypeOK /\ [Next]_vars => TypeOK'
  <2> SUFFICES ASSUME TypeOK, [Next]_vars PROVE TypeOK'
    OBVIOUS
  <2>1. CASE BootSoftware
    <3>1. Take(memory) \in Report \cup {NULL}
      BY DEF Take, TypeOK
    <3>2. ASSUME NEW seen, seen = [memory EXCEPT !.was_seen = TRUE]
          PROVE  /\ seen \in Report
                 /\ [seen EXCEPT !.checksum = calculate_report_crc(seen)]
                        \in Report
      <4>1. seen \in Report
        BY <3>2 DEF TypeOK, Report
      <4>2. calculate_report_crc(seen) \in Contents
        BY <4>1, CrcType
      <4> QED
        BY <4>1, <4>2 DEF Report
    <3>3. memory' \in Report /\ report' = memory'
      BY <2>1, <3>2 DEF BootSoftware, TypeOK
    <3> QED
      BY <2>1, <3>1, <3>3 DEF BootSoftware, TypeOK, Stages
  <2>2. CASE Init_setup_watchdog
    <3>1. wdtConfig \in [isDisabled: BOOLEAN, isResetEnabled: BOOLEAN]
      BY DEF wdtConfig
    <3>2. /\ watchdog' \in [isDisabled: BOOLEAN, isResetEnabled: BOOLEAN]
          /\ at' \in Stages
      BY <2>2, <3>1 DEF Init_setup_watchdog, TypeOK, Stages
    <3>3. idleTaskIsWatchdogEnabled' \in BOOLEAN
      BY <2>2, Zenon DEF Init_setup_watchdog, TypeOK
    <3>4. UNCHANGED <<reportVars, faults, active, relocated, build, fed,
                      resetType, taken>>
      BY <2>2 DEF Init_setup_watchdog
    <3> QED
      BY <3>2, <3>3, <3>4 DEF TypeOK
  <2>3. CASE FaultHandler_Init
    BY <2>3 DEF FaultHandler_Init, TypeOK
  <2>4. CASE Hal_ResetWatchdog \/ Hal_IdleTask
    BY <2>4 DEF Hal_ResetWatchdog, Hal_IdleTask, TypeOK
  <2>5. ASSUME NEW e \in Exceptions, Fault(e) PROVE TypeOK'
    <3>1. active' \in Exceptions
      BY <2>5 DEF Fault, Escalated, Exceptions
    <3>2. at' \in Stages
      BY <2>5, <3>1 DEF Fault, exception_table, Fault_Handler, Stages,
                        HandlerStages
    <3>3. faults' \in Number
      BY <2>5 DEF Fault, Number, TypeOK
    <3>4. UNCHANGED <<reportVars, relocated, watchdogVars, resetType, taken>>
      BY <2>5 DEF Fault
    <3> QED
      BY <3>1, <3>2, <3>3, <3>4 DEF TypeOK
  <2>6. ASSUME NEW here, NEW r \in Report, NEW s \in Stages,
               HandlerStep(here, r, s), fed' \in BOOLEAN
        PROVE  TypeOK'
    BY <2>6 DEF HandlerStep, TypeOK
  <2>7. CASE SaveException \/ SaveRegisters \/ SaveLength \/ SaveStack \/ SaveRest
    <3>1. fed' \in BOOLEAN
      BY <2>7, Zenon DEF SaveException, SaveRegisters, SaveLength, SaveStack,
                         SaveRest, TypeOK
    <3>2. /\ [report EXCEPT !.exception_id = faults] \in Report
          /\ [report EXCEPT !.registers = faults] \in Report
          /\ [report EXCEPT !.stack = faults] \in Report
          /\ [report EXCEPT !.rest = faults] \in Report
      BY DEF TypeOK, Report
    <3>3. ASSUME NEW length \in {"short", "full"}
          PROVE  [report EXCEPT !.length = length] \in Report
      BY DEF TypeOK, Report
    <3>4. {"save_registers", "save_length", "save_stack", "save_rest", "mark"}
            \subseteq Stages
      BY DEF Stages, HandlerStages
    <3> QED
      BY <2>6, <2>7, <3>1, <3>2, <3>3, <3>4
         DEF SaveException, SaveRegisters, SaveLength, SaveStack, SaveRest
  <2>8. CASE MarkUnseen \/ Seal \/ Scb_invalidateDCache
    <3>1. fed' \in BOOLEAN
      BY <2>8, Zenon DEF MarkUnseen, Seal, Scb_invalidateDCache, TypeOK
    <3>2. [report EXCEPT !.was_seen = FALSE] \in Report
      BY DEF TypeOK, Report
    <3>3. [report EXCEPT !.checksum = calculate_report_crc(report)] \in Report
      BY CrcType DEF TypeOK, Report
    <3>4. {"seal", "clean", "reset"} \subseteq Stages
      BY DEF Stages, HandlerStages
    <3>5. memory \in Report
      BY DEF TypeOK
    <3> QED
      BY <2>6, <2>8, <3>1, <3>2, <3>3, <3>4, <3>5
         DEF MarkUnseen, Seal, Scb_invalidateDCache
  <2>9. CASE Scb_cleanDCache
    BY <2>9 DEF Scb_cleanDCache, TypeOK, Stages, HandlerStages
  <2>10. ASSUME NEW type \in {"Powerup", "Watchdog", "Software", "User"},
                NEW kept \in Report, Restart(type, kept)
         PROVE  TypeOK'
    BY <2>10, RestartStep DEF TypeOK, Stages
  <2>11. CASE Rstc_resetSystem \/ ExternalReset \/ WatchdogFires
    BY <2>10, <2>11, GarbageType
       DEF Rstc_resetSystem, ExternalReset, WatchdogFires, TypeOK
  <2>12. CASE WatchdogPeriodEnds
    BY <2>12 DEF WatchdogPeriodEnds, TypeOK
  <2>13. ASSUME NEW line \in CacheLines, WriteBack(line) PROVE TypeOK'
    <3>1. memory' \in Report
      BY <2>13, WrittenBack
    <3>2. UNCHANGED <<report, at, faults, active, relocated, watchdogVars,
                      resetType, taken>>
      BY <2>13 DEF WriteBack
    <3> QED
      BY <3>1, <3>2 DEF TypeOK
  <2>14. CASE UNCHANGED vars
    BY <2>14 DEF vars, TypeOK
  <2> QED
    BY <2>1, <2>2, <2>3, <2>4, <2>5, <2>7, <2>8, <2>9, <2>11, <2>12, <2>13,
       <2>14 DEF Next, Handler
<1> QED
  BY <1>1, <1>2, PTL DEF Spec

-----------------------------------------------------------------------------
\* Steps that leave alone everything that the invariant speaks of.
LEMMA QuietStep ==
    ASSUME ReportInv, UNCHANGED <<report, memory, at, faults, resetType, taken>>
    PROVE  ReportInv'
  BY DEF ReportInv, Saved, ChecksumIsOneFault, OneFault, CacheIsClean,
         MemoryIsComplete, Complete, ReportIsOneFault, FaultIsReported,
         Hal_GetResetReason, calculate_report_crc

\* Steps that leave the handler's stages, or begin them, with the same reports.
LEMMA StageStep ==
    ASSUME ReportInv, UNCHANGED <<report, memory, resetType, taken>>,
           at' \in {"up", "stopped", "Fault_Handler"}, at' = "up" => at = "init"
    PROVE  ReportInv'
<1>1. Saved' /\ MemoryIsComplete' /\ FaultIsReported'
  BY DEF Saved, MemoryIsComplete, FaultIsReported
<1>2. CacheIsClean'
  BY DEF ReportInv, CacheIsClean
<1>3. ChecksumIsOneFault(report)' /\ ChecksumIsOneFault(memory)'
  BY DEF ReportInv, ChecksumIsOneFault, OneFault
<1>4. ReportIsOneFault'
  BY DEF ReportInv, ReportIsOneFault, OneFault
<1> QED
  BY <1>1, <1>2, <1>3, <1>4 DEF ReportInv

\* A step of the handler before it has sealed its report.
LEMMA SavingStep ==
    ASSUME TypeOK, ReportInv, NEW here, NEW r \in Report,
           NEW s \in {"save_registers", "save_length", "save_stack", "save_rest",
                      "mark", "seal"},
           HandlerStep(here, r, s), r.checksum = report.checksum, Saved'
    PROVE  ReportInv'
<1>1. MemoryIsComplete' /\ FaultIsReported' /\ CacheIsClean'
  BY DEF HandlerStep, MemoryIsComplete, FaultIsReported, CacheIsClean
<1>2. ChecksumIsOneFault(report)' /\ ChecksumIsOneFault(memory)'
  BY DEF ReportInv, ChecksumIsOneFault, OneFault, HandlerStep
<1>3. ReportIsOneFault'
  BY DEF ReportInv, ReportIsOneFault, OneFault, HandlerStep
<1> QED
  BY <1>1, <1>2, <1>3 DEF ReportInv

\* The boot software finds what a handler that came to its end has left, and
\* marking a report as seen leaves it a report of one fault.
LEMMA BootStep ==
    ASSUME TypeOK, TypeOK', ReportInv, BootSoftware
    PROVE  ReportInv'
<1>1. memory \in Report /\ at = "boot" /\ at' = "init" /\ report' = memory'
  BY DEF TypeOK, BootSoftware
<1>2. Saved' /\ CacheIsClean' /\ MemoryIsComplete'
  BY <1>1 DEF Saved, CacheIsClean, MemoryIsComplete
<1>3. ReportIsOneFault'
  <2> SUFFICES ASSUME taken' # NULL PROVE OneFault(taken')
    BY DEF ReportIsOneFault, OneFault
  <2> QED
    BY <1>1, TakenIsOneFault DEF BootSoftware, ReportInv
<1>4. FaultIsReported'
  <2> SUFFICES ASSUME resetType = "Software"
               PROVE  taken' # NULL /\ taken'.exception_id = faults
    BY <1>1 DEF FaultIsReported, Hal_GetResetReason, BootSoftware
  <2>1. Complete(memory)
    BY <1>1 DEF ReportInv, MemoryIsComplete
  <2>2. taken' = memory
    BY <2>1 DEF BootSoftware, Take, Complete
  <2> QED
    BY <1>1, <2>1, <2>2 DEF Complete
<1>5. ChecksumIsOneFault(memory)'
  <2> DEFINE seen == [memory EXCEPT !.was_seen = TRUE]
  <2>1. CASE taken' = NULL
    BY <2>1 DEF BootSoftware, ReportInv, ChecksumIsOneFault, OneFault
  <2>2. CASE taken' # NULL
    <3>1. OneFault(memory)
      BY <1>1, <2>2, TakenIsOneFault DEF BootSoftware, ReportInv
    <3>2. seen \in Report /\ seen.checksum = memory.checksum
      BY <1>1 DEF Report
    <3>3. OneFault(seen)
      BY <1>1, <3>1 DEF OneFault, Report
    <3>4. OneFault(calculate_report_crc(seen))
      BY <3>2, <3>3, CrcKeepsFault
    <3>5. \/ memory'.checksum = memory.checksum
          \/ memory'.checksum = calculate_report_crc(seen)
      <4>1. \/ memory' = seen
            \/ memory' = [seen EXCEPT !.checksum = calculate_report_crc(seen)]
        BY <2>2 DEF BootSoftware
      <4> QED
        BY <3>2, <4>1 DEF Report
    <3>6. OneFault(memory.checksum) \/ memory.checksum = NULL
      BY DEF ReportInv, ChecksumIsOneFault
    <3> HIDE DEF seen
    <3>7. OneFault(memory'.checksum) \/ memory'.checksum = NULL
      BY <3>4, <3>5, <3>6
    <3> QED
      BY <3>7 DEF ChecksumIsOneFault, OneFault
  <2> QED
    BY <2>1, <2>2
<1>6. ChecksumIsOneFault(report)'
  BY <1>1, <1>5 DEF ChecksumIsOneFault, OneFault
<1> QED
  BY <1>2, <1>3, <1>4, <1>5, <1>6 DEF ReportInv

\* A reset loses what is in the cache only; Rstc_resetSystem comes when there
\* is nothing of the kind.
LEMMA ResetStep ==
    ASSUME ReportInv, NEW type, NEW kept, Restart(type, kept),
           kept = memory \/ kept = Garbage,
           type = "Software" => kept = memory /\ at = "reset"
    PROVE  ReportInv'
<1>0. /\ at' = "boot" /\ report' = kept /\ memory' = kept
      /\ resetType' = type /\ UNCHANGED <<faults, taken>>
  BY DEF Restart
<1>1. Saved' /\ CacheIsClean' /\ FaultIsReported'
  BY <1>0 DEF Saved, CacheIsClean, FaultIsReported
<1>2. MemoryIsComplete'
  BY <1>0 DEF ReportInv, MemoryIsComplete, Complete, calculate_report_crc
<1>3. ChecksumIsOneFault(kept)
  BY GarbageType DEF ReportInv, ChecksumIsOneFault
<1>4. ChecksumIsOneFault(report)' /\ ChecksumIsOneFault(memory)'
  BY <1>0, <1>3 DEF ChecksumIsOneFault, OneFault
<1>5. ReportIsOneFault'
  BY <1>0 DEF ReportInv, ReportIsOneFault, OneFault
<1> QED
  BY <1>1, <1>2, <1>4, <1>5 DEF ReportInv

\* The invariant of the death report: one step per action.
LEMMA ReportInvariant == Spec => []ReportInv
<1>1. Init => ReportInv
  <2> SUFFICES ASSUME Init PROVE ReportInv
    OBVIOUS
  <2>1. ChecksumIsOneFault(report) /\ ChecksumIsOneFault(memory)
    BY GarbageType DEF Init, ChecksumIsOneFault
  <2> QED
    BY <2>1 DEF Init, ReportInv, Saved, CacheIsClean, MemoryIsComplete,
                ReportIsOneFault, FaultIsReported
<1>2. TypeOK /\ TypeOK' /\ ReportInv /\ [Next]_vars => ReportInv'
  <2> SUFFICES ASSUME TypeOK, TypeOK', ReportInv, [Next]_vars PROVE ReportInv'
    OBVIOUS
  <2>1. CASE BootSoftware
    BY <2>1, BootStep
  <2>2. CASE Init_setup_watchdog
    <3>1. /\ at = "init" /\ at' \in {"up", "stopped"}
          /\ UNCHANGED <<report, memory, resetType, taken>>
      BY <2>2 DEF Init_setup_watchdog
    <3> QED
      BY <3>1, StageStep
  <2>3. CASE \/ FaultHandler_Init \/ Hal_ResetWatchdog \/ Hal_IdleTask
             \/ WatchdogPeriodEnds \/ UNCHANGED vars
    <3>1. UNCHANGED <<report, memory, at, faults, resetType, taken>>
      BY <2>3 DEF FaultHandler_Init, Hal_ResetWatchdog, Hal_IdleTask,
                  WatchdogPeriodEnds, vars
    <3> QED
      BY <3>1, QuietStep
  <2>4. ASSUME NEW e \in Exceptions, Fault(e) PROVE ReportInv'
    <3>1. active' \in Exceptions
      BY <2>4 DEF Fault, Escalated, Exceptions
    <3>2. at' \in {"stopped", "Fault_Handler"}
      BY <2>4, <3>1 DEF Fault, exception_table, Fault_Handler
    <3>3. UNCHANGED <<report, memory, resetType, taken>>
      BY <2>4 DEF Fault
    <3> QED
      BY <3>2, <3>3, StageStep
  <2>5. report \in Report /\ report' \in Report /\ memory \in Report
    BY DEF TypeOK
  <2>6. CASE \/ SaveException \/ SaveRegisters \/ SaveLength \/ SaveStack
             \/ SaveRest \/ MarkUnseen
    <3>1. /\ at' \in {"save_registers", "save_length", "save_stack", "save_rest",
                     "mark", "seal"}
          /\ HandlerStep(at, report', at')
      BY <2>6 DEF SaveException, SaveRegisters, SaveLength, SaveStack, SaveRest,
                  MarkUnseen, HandlerStep
    <3>2. report'.checksum = report.checksum
      BY <2>5, <2>6 DEF SaveException, SaveRegisters, SaveLength, SaveStack,
                        SaveRest, MarkUnseen, HandlerStep, Report
    <3>3. Saved'
      BY <2>5, <2>6 DEF ReportInv, Saved, SaveException, SaveRegisters,
                        SaveLength, SaveStack, SaveRest, MarkUnseen,
                        HandlerStep, Report
    <3> QED
      BY <2>5, <3>1, <3>2, <3>3, SavingStep
  <2>7. CASE Seal
    <3>1. /\ at = "seal" /\ at' = "clean"
          /\ report' = [report EXCEPT !.checksum = calculate_report_crc(report)]
          /\ UNCHANGED <<memory, faults, resetType, taken>>
      BY <2>7 DEF Seal, HandlerStep
    <3>2. OneFault(report)
      BY <3>1 DEF ReportInv, Saved, OneFault
    <3>3. report'.checksum = calculate_report_crc(report)
      BY <2>5, <3>1 DEF Report
    <3>4. ChecksumIsOneFault(report)'
      BY <2>5, <3>2, <3>3, CrcKeepsFault DEF ChecksumIsOneFault, OneFault
    <3>5. Saved'
      BY <2>5, <3>1 DEF ReportInv, Saved, Report, calculate_report_crc
    <3>6. ChecksumIsOneFault(memory)' /\ ReportIsOneFault'
      BY <3>1 DEF ReportInv, ChecksumIsOneFault, ReportIsOneFault, OneFault
    <3> QED
      BY <3>1, <3>4, <3>5, <3>6
         DEF ReportInv, CacheIsClean, MemoryIsComplete, FaultIsReported
  <2>8. CASE Scb_cleanDCache
    <3>1. /\ at = "clean" /\ at' = "invalidate" /\ memory' = report
          /\ UNCHANGED <<report, faults, resetType, taken>>
      BY <2>8 DEF Scb_cleanDCache
    <3>2. MemoryIsComplete'
      BY <3>1 DEF ReportInv, Saved, MemoryIsComplete, Complete,
                  calculate_report_crc
    <3>3. /\ ChecksumIsOneFault(report)' /\ ChecksumIsOneFault(memory)'
          /\ ReportIsOneFault'
      BY <3>1 DEF ReportInv, ChecksumIsOneFault, ReportIsOneFault, OneFault
    <3> QED
      BY <3>1, <3>2, <3>3 DEF ReportInv, Saved, CacheIsClean, FaultIsReported
  <2>9. CASE Scb_invalidateDCache
    <3>1. /\ at = "invalidate" /\ at' = "reset" /\ report' = memory
          /\ UNCHANGED <<memory, faults, resetType, taken>>
      BY <2>9 DEF Scb_invalidateDCache, HandlerStep
    <3>2. MemoryIsComplete'
      BY <3>1 DEF ReportInv, MemoryIsComplete, Complete, calculate_report_crc
    <3>3. /\ ChecksumIsOneFault(report)' /\ ChecksumIsOneFault(memory)'
          /\ ReportIsOneFault'
      BY <3>1 DEF ReportInv, ChecksumIsOneFault, ReportIsOneFault, OneFault
    <3> QED
      BY <3>1, <3>2, <3>3 DEF ReportInv, Saved, CacheIsClean, FaultIsReported
  <2>10. CASE Rstc_resetSystem \/ ExternalReset \/ WatchdogFires
    BY <2>10, ResetStep DEF Rstc_resetSystem, ExternalReset, WatchdogFires
  <2>11. ASSUME NEW line \in CacheLines, WriteBack(line) PROVE ReportInv'
    <3>1. /\ memory'.checksum \in {report.checksum, memory.checksum}
          /\ memory' # memory
          /\ UNCHANGED <<report, at, faults, resetType, taken>>
      BY <2>11, WrittenBack DEF WriteBack
    <3>2. report # memory
      <4> SUFFICES ASSUME report = memory PROVE memory' = memory
        BY <3>1
      <4>1. memory' = [f \in DOMAIN memory |-> memory[f]]
        BY <2>11 DEF WriteBack
      <4> QED
        BY <2>5, <4>1 DEF Report
    <3>3. CacheIsClean' /\ MemoryIsComplete'
      BY <3>1, <3>2 DEF ReportInv, CacheIsClean, MemoryIsComplete
    <3>4. ChecksumIsOneFault(memory)'
      BY <3>1 DEF ReportInv, ChecksumIsOneFault, OneFault
    <3>5. ChecksumIsOneFault(report)' /\ ReportIsOneFault'
      BY <3>1 DEF ReportInv, ChecksumIsOneFault, ReportIsOneFault, OneFault
    <3>6. Saved' /\ FaultIsReported'
      BY <3>1 DEF ReportInv, Saved, FaultIsReported, Hal_GetResetReason,
                  calculate_report_crc
    <3> QED
      BY <3>3, <3>4, <3>5, <3>6 DEF ReportInv
  <2> QED
    BY <2>1, <2>2, <2>3, <2>4, <2>6, <2>7, <2>8, <2>9, <2>10, <2>11
       DEF Next, Handler
<1> QED
  BY <1>1, <1>2, TypeCorrect, PTL DEF Spec

-----------------------------------------------------------------------------
\* The boot software never takes half a report nor one of two faults, however
\* DeathReportWriter_GenerateDeathReport was interrupted.
THEOREM NeverHalfAReport == Spec => []ReportIsOneFault
<1>1. ReportInv => ReportIsOneFault
  BY DEF ReportInv
<1> QED
  BY <1>1, ReportInvariant, PTL

\* After the reset that ends Fault_HandlerTail, the boot software has taken the
\* report of the latest fault.
THEOREM EveryFaultReported == Spec => []FaultIsReported
<1>1. ReportInv => FaultIsReported
  BY DEF ReportInv
<1> QED
  BY <1>1, ReportInvariant, PTL
=============================================================================
