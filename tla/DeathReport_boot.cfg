\* Two faults, resets and write-backs at any moment.
SPECIFICATION Spec
CONSTANTS
    MAX_FAULTS = 2
    NULL = NULL
INVARIANTS
    TypeOK
    ReportIsOneFault
    FaultIsReported
PROPERTY
    FaultEndsInReset
