SPECIFICATION Spec
CONSTANTS
    Readers = {1, 2}
    TicksPerReload = 3
    CounterPeriod = 4
    ReloadModulus = 16
    Half = 16
    ns_per_tick_q32 = 53
    MaxReloads = 2
INVARIANT
    NeverBehind
