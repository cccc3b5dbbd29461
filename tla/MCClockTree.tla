----------------------------- MODULE MCClockTree -----------------------------
\* Macros at and beyond the bounds of each group, and boot software that left
\* the reset settings or a PLL of its own.
EXTENDS ClockTree

Defining(group, values) == {<<group, v>> : v \in values}

Common ==
    Defining("RT_RTOS_NO_INIT", {TRUE})
    \cup Defining("RCOSC_XOSC_STARTUP_TIME", {2044})
    \cup Defining("MAIN_CLOCK_SOURCE", MainSources)
    \cup Defining("MASTER_CLOCK_SOURCE", MasterSources)
    \cup Defining("MASTER_CLOCK_PRESCALER", {1, 64})
    \cup Defining("MASTER_CLOCK_DIVIDER", {1, 2})
    \cup Defining("PLLA_STARTUP_TIME", {0, 64})

MC_Candidates ==
    [SAMV71 |-> Common
        \cup Defining("CPU_FREQUENCY", {150, 120, 100, 75, 50, 25})
        \cup Defining("RCOSC_FREQUENCY", {4, 8})
        \cup Defining("PLLA_MULTIPLIER", {-1, 0, 1, 62, 63})
        \cup Defining("PLLA_DIVIDER", {0, 7, 255, 256})
        \cup Defining("MASTER_CLOCK_PRESCALER", {3}),
     SAMRH71 |-> Common
        \cup Defining("CPU_FREQUENCY", {100, 90, 80, 75, 60, 50, 25})
        \cup Defining("RCOSC_FREQUENCY", {4, 10})
        \cup Defining("USE_INTERNAL_RC", {TRUE})
        \cup Defining("PLLA_MULTIPLIER", {-1, 0, 1, 25, 26})
        \cup Defining("PLLA_DIVIDER", {0, 7, 64, 65})
        \cup Defining("PLLA_VCO", {0, 4})]

Reset(rc) == [Preset(rc, "RCOSC", 0, 0, 1, 1)
                 EXCEPT !.MASTER_CLOCK_SOURCE = "MAINCK"]
MC_BootSettings ==
    [SAMV71 |-> {Reset(4), Preset(12, "XOSC", 24, 3, 1, 2)},
     SAMRH71 |-> {Reset(10), Preset(12, "XOSC_BYPASSED", 18, 3, 1, 1)}]
=============================================================================
