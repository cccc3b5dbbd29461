------------------------------ MODULE ClockTree ------------------------------
(***************************************************************************)
(* The core clocks, from the macros a build defines to the frequencies the *)
(* runtime computes: SamV71Core.c and SamRH71Core.c, which differ in their *)
(* tables only, and Hal_Init (Hal.c).                                      *)
(*                                                                         *)
(* A build is a set of macros <<group, value>>.  The preprocessor rejects  *)
(* it or turns it into the configuration of the power management           *)
(* controller.  At boot the controller takes the configuration over in     *)
(* stages: a stage writes registers and waits for the hardware.  A stage   *)
(* that times out leaves any of its registers written and any of those not *)
(* taken over, or only later.  The frequencies are computed from what the  *)
(* registers hold, whatever the clocks run with.                           *)
(***************************************************************************)
EXTENDS Integers, FiniteSetsExt

CONSTANTS
    Candidates,         \* per core, the macros a build may define
    MAX_MACROS,         \* bound: macros a build defines
    BootSettings,       \* per core, the settings the boot software may leave
    MICROSECONDS_PER_TICK

MEGA_HZ == 1000000
SYSTICK_RANGE == 16777216   \* the reload value has 24 bits
FastestMegaHz == 756        \* 12 MHz times 63: no macros ask for more
Cores == {"SAMV71", "SAMRH71"}
Presets == "CPU_FREQUENCY"

VARIABLES
    core, build,        \* what the runtime is compiled for
    stage,              \* how far the boot has come
    failed,             \* Pmc_setConfig has failed
    pmc,                \* the settings in the controller's registers
    running,            \* hardware: the settings that the clocks run with
    frequencies         \* what the runtime has computed

clockVars == <<core, build, stage, failed, pmc, running, frequencies>>

-----------------------------------------------------------------------------
\* The macros of each core: a value outside "options" is an #error, "default"
\* is what an undefined macro stands for.  The preprocessor's chains reject
\* every pair of macros of one group, so their order does not matter.
Macro(options, default) == [options |-> options, default |-> default]
Prescalers == {1, 2, 4, 8, 16, 32, 64}
MainSources == {"RCOSC", "XOSC", "XOSC_BYPASSED"}
MasterSources == {"SLCK", "MAINCK", "PLLACK"}
StartupTimes == {8 * n : n \in 0..255}

SamV71Core_PllMacros ==
    [PLLA_MULTIPLIER |-> Macro(0..62, 24),
     PLLA_DIVIDER |-> Macro(0..255, 1),
     PLLA_STARTUP_TIME |-> Macro(0..63, 60)]

SamV71Core_OscillatorMacros ==
    [RCOSC_XOSC_STARTUP_TIME |-> Macro(StartupTimes, 0),
     RCOSC_FREQUENCY |-> Macro({4, 8, 12}, 12),
     MAIN_CLOCK_SOURCE |-> Macro(MainSources, "RCOSC")]

SamV71Core_MasterClockMacros ==
    [MASTER_CLOCK_SOURCE |-> Macro(MasterSources, "PLLACK"),
     MASTER_CLOCK_PRESCALER |-> Macro(Prescalers \cup {3}, 2),
     MASTER_CLOCK_DIVIDER |-> Macro({1, 2}, 2)]

SamRH71Core_PllMacros ==
    [PLLA_MULTIPLIER |-> Macro(0..25, 19),
     PLLA_DIVIDER |-> Macro(0..64, 1),
     PLLA_STARTUP_TIME |-> Macro(0..63, 60),
     PLLA_VCO |-> Macro(0..3, 2)]

SamRH71Core_FilterMacros ==
    [PLLA_FILTER_CAPACITOR |-> Macro({20, 30, 40, 60}, 60),
     PLLA_FILTER_RESISTOR |-> Macro({3, 6, 12, 24}, 24),
     PLLA_CURRENT |-> Macro({500, 750, 1000, 1250}, 1250)]

SamRH71Core_OscillatorMacros ==
    [RCOSC_XOSC_STARTUP_TIME |-> Macro(StartupTimes, 0),
     RCOSC_FREQUENCY |-> Macro({4, 8, 10, 12}, 12),
     MAIN_CLOCK_SOURCE |-> Macro(MainSources, "XOSC_BYPASSED")]

SamRH71Core_MasterClockMacros ==
    [MASTER_CLOCK_SOURCE |-> Macro(MasterSources, "PLLACK"),
     MASTER_CLOCK_PRESCALER |-> Macro(Prescalers, 2),
     MASTER_CLOCK_DIVIDER |-> Macro({1, 2}, 2)]

Joined(f, g) == [x \in DOMAIN f \cup DOMAIN g |->
                    IF x \in DOMAIN f THEN f[x] ELSE g[x]]

Macros ==
    [SAMV71 |-> Joined(SamV71Core_PllMacros,
                       Joined(SamV71Core_OscillatorMacros,
                              SamV71Core_MasterClockMacros)),
     SAMRH71 |-> Joined(Joined(SamRH71Core_PllMacros, SamRH71Core_FilterMacros),
                        Joined(SamRH71Core_OscillatorMacros,
                               SamRH71Core_MasterClockMacros))]

\* What a preset of the processor's frequency, in MHz, stands for: oscillator
\* frequency, multiplier, divider, prescaler and divider of the master clock.
Preset(rc, source, mul, div, presc, divider) ==
    [RCOSC_FREQUENCY |-> rc, MAIN_CLOCK_SOURCE |-> source,
     PLLA_MULTIPLIER |-> mul, PLLA_DIVIDER |-> div,
     MASTER_CLOCK_SOURCE |-> "PLLACK", MASTER_CLOCK_PRESCALER |-> presc,
     MASTER_CLOCK_DIVIDER |-> divider]

\* Mutant: two presets with each other's prescaler.
PrescalersSwapped(mhz) ==
    LET P(mul, div, presc, divider) ==
            Preset(12, "RCOSC", mul, div, presc, divider)
    IN  CASE mhz = 150 -> P(24, 1, 2, 2) [] mhz = 120 -> P(29, 1, 2, 2)
          [] mhz = 100 -> P(24, 1, 3, 2) [] mhz = 75 -> P(24, 1, 3, 2)
          [] mhz = 50 -> P(24, 2, 4, 2) [] mhz = 25 -> P(24, 4, 3, 1)

SamV71Core_Preset(mhz) ==
    LET P(mul, div, presc, divider) ==
            Preset(12, "RCOSC", mul, div, presc, divider)
    IN  CASE mhz = 150 -> P(24, 1, 2, 2) [] mhz = 120 -> P(29, 1, 3, 2)
          [] mhz = 100 -> P(24, 1, 3, 2) [] mhz = 75 -> P(24, 1, 4, 2)
          [] mhz = 50 -> P(24, 2, 3, 2) [] mhz = 25 -> P(24, 4, 3, 1)

SamRH71Core_Preset(mhz, source) ==
    LET P(mul, div, presc, divider) ==
            Preset(10, source, mul, div, presc, divider)
    IN  CASE mhz = 100 -> P(19, 1, 2, 2) [] mhz = 90 -> P(17, 1, 2, 2)
          [] mhz = 80 -> P(15, 1, 2, 2) [] mhz = 75 -> P(14, 1, 2, 2)
          [] mhz = 60 -> P(23, 2, 2, 2) [] mhz = 50 -> P(24, 5, 1, 1)
          [] mhz = 25 -> P(24, 5, 2, 1)

\* A preset excludes the macros it defines, and no other.
LowLevel == DOMAIN Preset(0, "", 0, 0, 0, 0)

\* The presets of each core, in MHz.
PresetFrequencies == [SAMV71 |-> {150, 120, 100, 75, 50, 25},
                      SAMRH71 |-> {100, 90, 80, 75, 60, 50, 25}]

PllRuns(p) == p.PLLA_MULTIPLIER > 0 /\ p.PLLA_DIVIDER > 0

\* Settings that the controller's registers can hold, and those with which its
\* processor runs.
Valid(c, p) ==
    /\ p = [group \in LowLevel |-> p[group]]
    /\ \A group \in LowLevel : p[group] \in Macros[c][group].options
Alive(p) == p.MASTER_CLOCK_SOURCE = "PLLACK" => PllRuns(p)

\* The presets are those of the core; the boot software runs on the processor
\* that it sets up; the cycles of a tick fit the reload value at any speed.
ASSUME CandidatesAssumption ==
    \A c \in Cores : \A m \in Candidates[c] :
        m[1] = Presets => m[2] \in PresetFrequencies[c]
ASSUME BootAssumption == \A c \in Cores : \A p \in BootSettings[c] : Valid(c, p) /\ Alive(p)
ASSUME TickAssumption ==
    /\ MICROSECONDS_PER_TICK \in Nat \ {0}
    /\ FastestMegaHz * MICROSECONDS_PER_TICK < SYSTICK_RANGE

-----------------------------------------------------------------------------
Values(b, group) == {m[2] : m \in {x \in b : x[1] = group}}

\* The groups of macros, each of which a build may define once.
Sound(c, b) ==
    \A group \in DOMAIN Macros[c] :
        /\ Cardinality(Values(b, group)) <= 1
        /\ Values(b, group) \subseteq Macros[c][group].options
        /\ Values(b, "RT_RTOS_NO_INIT") # {} => Values(b, group) = {}

\* The preset's own #errors; several presets at once are not rejected.
SamV71Core_PresetIsAlone(b) ==
    Values(b, Presets) # {} =>
        /\ Values(b, "RT_RTOS_NO_INIT") = {}
        /\ \A group \in LowLevel : Values(b, group) = {}

SamRH71Core_PresetIsAlone(b) ==
    Values(b, Presets) # {} =>
        /\ Values(b, "RT_RTOS_NO_INIT") = {}
        /\ \A group \in LowLevel : Values(b, group) = {}

\* This check is the wrong way round: the #error, which says that the macro
\* needs a preset, is reached with one; without one the macro has no effect.
SamRH71Core_InternalRcIsAllowed(b) ==
    Values(b, "USE_INTERNAL_RC") # {} => Values(b, Presets) = {}

Accepted(c, b) ==
    /\ Sound(c, b)
    /\ IF c = "SAMV71" THEN SamV71Core_PresetIsAlone(b)
       ELSE SamRH71Core_PresetIsAlone(b) /\ SamRH71Core_InternalRcIsAllowed(b)

\* The macros behind a preset, of which the fastest is looked at first.
Expanded(c, b) ==
    LET mhz == Max(Values(b, Presets))
    IN  IF c = "SAMV71" THEN SamV71Core_Preset(mhz)
        ELSE SamRH71Core_Preset(mhz, IF Values(b, "USE_INTERNAL_RC") # {}
                                     THEN "RCOSC" ELSE "XOSC_BYPASSED")

\* pmcConfig in SamV71Core_Init and SamRH71Core_Init.
pmcConfig(c, b) ==
    [group \in LowLevel |->
        IF Values(b, Presets) # {} THEN Expanded(c, b)[group]
        ELSE IF Values(b, group) # {}
        THEN CHOOSE v \in Values(b, group) : TRUE
        ELSE Macros[c][group].default]

-----------------------------------------------------------------------------
\* The oscillator behind the main clock, from the controller's registers; the
\* two crystals are the board's.
OscillatorFrequency(rates, p) ==
    CASE p.MAIN_CLOCK_SOURCE = "XOSC" -> 12 * MEGA_HZ
      [] p.MAIN_CLOCK_SOURCE = "XOSC_BYPASSED" -> 10 * MEGA_HZ
      [] p.MAIN_CLOCK_SOURCE = "RCOSC" ->
            IF p.RCOSC_FREQUENCY \in rates THEN p.RCOSC_FREQUENCY * MEGA_HZ
            ELSE 0

SamV71Core_OscillatorFrequency(p) == OscillatorFrequency({4, 8, 12}, p)

\* Mutant: the rate that only this core has is not in the switch.
RateForgotten(p) == OscillatorFrequency({4, 8, 12}, p)

SamRH71Core_OscillatorFrequency(p) == OscillatorFrequency({4, 8, 10, 12}, p)

apply_plla_config(p, f) ==
    LET mul == p.PLLA_MULTIPLIER
        div == p.PLLA_DIVIDER
    IN  IF p.MASTER_CLOCK_SOURCE # "PLLACK" THEN f
        ELSE (IF div > 0 THEN f \div div ELSE f)
             * (IF mul > 0 THEN mul + 1 ELSE 1)

\* The switch over the prescaler divides by its value; the RH71 has no 3.
SamV71Core_GetProcessorClockFrequency(p) ==
    apply_plla_config(p, SamV71Core_OscillatorFrequency(p))
        \div p.MASTER_CLOCK_PRESCALER

SamRH71Core_GetProcessorClockFrequency(p) ==
    apply_plla_config(p, SamRH71Core_OscillatorFrequency(p))
        \div p.MASTER_CLOCK_PRESCALER

ProcessorFrequency(c, p) ==
    IF c = "SAMV71" THEN SamV71Core_GetProcessorClockFrequency(p)
    ELSE SamRH71Core_GetProcessorClockFrequency(p)

SamV71Core_GetMasterClockFrequency(p) ==
    SamV71Core_GetProcessorClockFrequency(p) \div p.MASTER_CLOCK_DIVIDER

SamRH71Core_GetMasterClockFrequency(p) ==
    SamRH71Core_GetProcessorClockFrequency(p) \div p.MASTER_CLOCK_DIVIDER

\* frequency * microseconds per tick / 1000000, with the product split.
ReloadValue(f) ==
    (f \div 1000000) * MICROSECONDS_PER_TICK
        + ((f % 1000000) * MICROSECONDS_PER_TICK) \div 1000000

\* The two InitSystick functions.
SamV71Core_InitSystick(p) ==
    ReloadValue(SamV71Core_GetProcessorClockFrequency(p))
SamRH71Core_InitSystick(p) ==
    ReloadValue(SamRH71Core_GetProcessorClockFrequency(p))

-----------------------------------------------------------------------------
\* A build that defines up to MAX_MACROS of the macros.
Defines(macros) ==
    \/ build = {}
    \/ \E m \in [1..MAX_MACROS -> macros] : build = {m[i] : i \in 1..MAX_MACROS}

ClockInit ==
    /\ core \in Cores
    /\ Defines(Candidates[core])
    /\ stage = "compile" /\ failed = FALSE
    /\ pmc \in BootSettings[core] /\ running = pmc
    /\ frequencies = [cpu |-> 0, systick |-> 0, main_clock |-> 0, prescaled |-> 0]

Compile ==
    /\ stage = "compile"
    /\ stage' = IF ~Accepted(core, build) THEN "rejected"
                ELSE IF Values(build, "RT_RTOS_NO_INIT") # {} THEN "systick"
                ELSE "mainck"
    /\ UNCHANGED <<core, build, failed, pmc, running, frequencies>>

\* Some groups of settings are replaced by those of others.
Replaced(p, others, groups) ==
    [g \in LowLevel |-> IF g \in groups THEN others[g] ELSE p[g]]

\* The hardware takes over what the registers say of some groups.  It does not
\* switch to a PLL that is off; a processor stops whose PLL is switched off.
TakeOver(groups) ==
    /\ running' = Replaced(running, pmc', groups)
    /\ "MASTER_CLOCK_SOURCE" \in groups => Alive(running')

Goes(next) == stage' \in (IF Alive(running') THEN next ELSE {"stopped"})

\* The stages of Pmc_setConfig and the settings that each of them writes.
Groups == [mainck |-> {"MAIN_CLOCK_SOURCE", "RCOSC_FREQUENCY"},
           pll |-> {"PLLA_MULTIPLIER", "PLLA_DIVIDER"},
           masterck |-> {"MASTER_CLOCK_SOURCE", "MASTER_CLOCK_PRESCALER",
                         "MASTER_CLOCK_DIVIDER"}]

Stage(here, next) ==
    /\ stage = here
    /\ pmc' = Replaced(pmc, pmcConfig(core, build), Groups[here])
    /\ TakeOver(Groups[here])
    /\ Goes({next})
    /\ UNCHANGED <<core, build, failed, frequencies>>

SetMainck == Stage("mainck", "pll")
SetPll == Stage("pll", "masterck")
SetMasterck == Stage("masterck", "systick")

\* A stage times out.  The runtime asserts that none does, if its assertions
\* are compiled in.
Timeout ==
    /\ stage \in DOMAIN Groups
    /\ failed' = TRUE
    /\ \E written \in SUBSET Groups[stage], taken \in SUBSET Groups[stage] :
          /\ taken \subseteq written
          /\ pmc' = Replaced(pmc, pmcConfig(core, build), written)
          /\ TakeOver(taken)
    /\ Goes({"stopped", "systick"})
    /\ UNCHANGED <<core, build, frequencies>>

\* What timed out may be ready later.
TakeOverLate ==
    /\ failed /\ stage \in {"systick", "hal", "up"}
    /\ UNCHANGED <<core, build, failed, pmc, frequencies>>
    /\ \E taken \in SUBSET {g \in LowLevel : running[g] # pmc[g]} : TakeOver(taken)
    /\ Goes({stage})

\* The frequency also goes to setCoreClockFrequency.
InitSystick ==
    /\ stage = "systick"
    /\ frequencies' = [frequencies EXCEPT
           !.cpu = ProcessorFrequency(core, pmc),
           !.systick = IF core = "SAMV71" THEN SamV71Core_InitSystick(pmc)
                       ELSE SamRH71Core_InitSystick(pmc)]
    /\ stage' = "hal"
    /\ UNCHANGED <<core, build, failed, pmc, running>>

\* The rest of Hal_Init, up to the division by the prescaled frequency.
Hal_Init ==
    /\ stage = "hal"
    /\ LET f == IF core = "SAMV71" THEN SamV71Core_GetMasterClockFrequency(pmc)
                ELSE SamRH71Core_GetMasterClockFrequency(pmc)
       IN  frequencies' = [frequencies EXCEPT !.main_clock = f,
                                              !.prescaled = f \div 8]
    /\ stage' = "up"
    /\ UNCHANGED <<core, build, failed, pmc, running>>

ClockNext == \/ Compile \/ SetMainck \/ SetPll \/ SetMasterck \/ Timeout
             \/ TakeOverLate \/ InitSystick \/ Hal_Init

ClockSpec == ClockInit /\ [][ClockNext]_clockVars

-----------------------------------------------------------------------------
\* The clocks of a processor that runs, as its hardware manual has them: the
\* main clock in MHz, and what the PLL, where it is used, makes of it.  The slow
\* clock is left out, see the README.
MainMegaHz(p) ==
    IF p.MAIN_CLOCK_SOURCE = "XOSC" THEN 12
    ELSE IF p.MAIN_CLOCK_SOURCE = "XOSC_BYPASSED" THEN 10 ELSE p.RCOSC_FREQUENCY
Times(p) == IF p.MASTER_CLOCK_SOURCE = "PLLACK" THEN p.PLLA_MULTIPLIER + 1 ELSE 1
Over(p) == IF p.MASTER_CLOCK_SOURCE = "PLLACK" THEN p.PLLA_DIVIDER ELSE 1

\* An accepted build that names a frequency runs at it, whatever settings the
\* boot software left and whatever other macros the build defines; the kernel's
\* tick gets its cycles, and the clock behind the elapsed time is known.  Of
\* several frequencies it is the highest.
PresetGivesItsFrequency ==
    stage = "up" /\ ~failed /\ Values(build, Presets) # {} =>
        LET mhz == Max(Values(build, Presets))
        IN  /\ MainMegaHz(running) * Times(running)
                  = mhz * (Over(running) * running.MASTER_CLOCK_PRESCALER)
            /\ frequencies.systick = mhz * MICROSECONDS_PER_TICK
            /\ frequencies.main_clock * running.MASTER_CLOCK_DIVIDER = mhz * MEGA_HZ

\* The frequency that the tick and the elapsed time are derived from is the one
\* the processor runs at, up to the rounding of the integer divisions, unless a
\* stage of Pmc_setConfig timed out and left registers that the hardware has not
\* taken over.  Even then, and for every source, the reload value fits its 24
\* bits and Hal_Init does not divide by zero.
FrequencyIsTrue ==
    stage = "up" =>
        LET presc == running.MASTER_CLOCK_PRESCALER
            lost == MainMegaHz(running) * MEGA_HZ * Times(running)
                        - frequencies.cpu * Over(running) * presc
        IN  /\ (~failed \/ running = pmc) /\ running.MASTER_CLOCK_SOURCE # "SLCK" =>
                  0 <= lost /\ lost < Over(running) * (Times(running) + presc)
            /\ frequencies.systick < SYSTICK_RANGE
            /\ frequencies.prescaled > 0
=============================================================================
