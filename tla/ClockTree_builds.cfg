\* Every build of up to four macros, for both cores.
SPECIFICATION ClockSpec
CONSTANTS
    Candidates <- MC_Candidates
    BootSettings <- MC_BootSettings
    MAX_MACROS = 4
    MICROSECONDS_PER_TICK = 1000
INVARIANTS
    PresetGivesItsFrequency
    FrequencyIsTrue
CHECK_DEADLOCK FALSE
