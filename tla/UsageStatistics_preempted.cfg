\* Three samples of three sizes, a stack of four words.
SPECIFICATION Spec
CONSTANTS
    SAMPLES = {1, 2, 5}
    UINT64_MAX = 9
    MAX_SAMPLES = 3
    SCALE = 6
    STACK_SIZE = 4
INVARIANTS
    TypeOK
    ReportIsOrdered
    UndisturbedReportIsTrue
    StackReportBetween
