SPECIFICATION Spec
CONSTANTS
    Readers = {1}
    TicksPerReload = 4
    CounterPeriod = 5
    ReloadModulus = 16
    Half = 16
    ns_per_tick_q32 = 53
    MaxReloads = 4
INVARIANTS
    TypeOK
    NeverBehind
    NeverAhead
    RetryBudget
PROPERTY
    ImplementsMonotonicClock
