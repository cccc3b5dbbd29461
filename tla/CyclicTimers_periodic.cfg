SPECIFICATION Spec
CONSTANTS
    Modulus = 16
    MaxTimers = 2
    MicrosPerTick = 2
    Intervals = {2, 4, 5, 14}
    Offsets = {0, 3, 10}
    BootTicks = 2
INVARIANTS
    TypeOK
    SendsOnTime
    ArmedForWakeup
PROPERTY
    KeepsSending
