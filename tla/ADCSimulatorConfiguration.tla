-------------------- MODULE ADCSimulatorConfiguration --------------------
(***************************************************************************)
(* The configuration of the ADCSimulator data source: Initialise reads its *)
(* parameters; SetConfiguredDatabase checks the signals, goes through the  *)
(* signals that the GAMs read, and allocates the samples.                  *)
(*                                                                         *)
(* The frequencies of the GAMs are float32s, here in units of              *)
(* 1 / Resolution Hz; those of the ADCs and of the clock are whole numbers *)
(* of Hz.  The MARTe2 calls that return what was configured are taken not  *)
(* to fail.                                                                *)
(***************************************************************************)
EXTENDS Integers, Sequences, Float32

CONSTANTS
    Configurations,  \* the configurations the data source may be given
    NotSet,          \* a parameter that is absent
    Uninitialised,   \* the values that adcSamplesPerCycle may start with
    TimerFrequency,  \* HighResolutionTimer::Frequency()
    UsecPerSecond,   \* 1e6 in the code
    Resolution,      \* frequencies are told apart to 1 / Resolution Hz, a power of two
    DefaultADCFrequency

\* A GAM reads at least one sample of a signal; the frequency of the ADCs is not 0.
ASSUME ConstantsAssumption ==
    /\ Uninitialised \subseteq Nat
    /\ TimerFrequency \in Nat \ {0} /\ UsecPerSecond \in Nat \ {0}
    /\ DefaultADCFrequency \in Nat \ {0} /\ Resolution \in Nat \ {0}
    /\ \A c \in Configurations :
          /\ DOMAIN c = {"sleepNature", "sleepPercentage", "frequencies", "gains",
                         "adcFrequency", "stackSize", "signals", "functions"}
          /\ c.sleepPercentage = NotSet \/ c.sleepPercentage \in Nat
          /\ c.adcFrequency = NotSet \/ c.adcFrequency \in Nat \ {0}
          /\ c.functions \in Seq(Seq([signal : 0 .. 5, samples : Nat \ {0}, frequency : Float32s]))

VARIABLES
    phase, config,
    sleepPercentage, adcFrequency,  \* set by Initialise
    functionIdx, i,                 \* the function signal to check next
    cycleFrequency, adcSamplesPerCycle,
    sleepTimeTicks, timerPeriodUsecTime,
    adcValues                       \* the size of the buffers of samples

parameters == <<sleepPercentage, adcFrequency>>
scan == <<functionIdx, i, cycleFrequency, adcSamplesPerCycle>>
derived == <<sleepTimeTicks, timerPeriodUsecTime, adcValues>>
vars == <<phase, config, parameters, scan, derived>>

Init ==
    /\ phase = "Created" /\ config \in Configurations
    /\ sleepPercentage = 0 /\ adcFrequency = 0
    /\ functionIdx = 1 /\ i = 1 /\ cycleFrequency = -Resolution
    /\ adcSamplesPerCycle \in Uninitialised
    /\ sleepTimeTicks = 0 /\ timerPeriodUsecTime = 0 /\ adcValues = 0
-----------------------------------------------------------------------------
\* (faulty) The percentage is not limited.
SleepPercentageUnlimited(percentage) == percentage

SleepPercentage(percentage) == IF percentage > 100 THEN 100 ELSE percentage

InitialiseAccepts(c) ==
    /\ c.sleepNature \in {NotSet, "Default", "Busy"}
    /\ c.frequencies = 4 /\ c.gains = 4
    /\ c.stackSize # 0

\* The percentage is of use only to a Busy sleep and is 0 unless it is set.
Initialise ==
    /\ phase = "Created"
    /\ phase' = IF InitialiseAccepts(config) THEN "Initialised" ELSE "Failed"
    /\ sleepPercentage' =
          IF config.sleepNature = "Busy" /\ config.sleepPercentage # NotSet
          THEN SleepPercentage(config.sleepPercentage) ELSE sleepPercentage
    /\ adcFrequency' =
          IF config.adcFrequency = NotSet THEN DefaultADCFrequency ELSE config.adcFrequency
    /\ UNCHANGED <<config, scan, derived>>
-----------------------------------------------------------------------------
(* SetConfiguredDatabase *)

Counter == 0
Timer == 1

\* Counter and time are uint32, the four ADCs int32.
SignalsAccepted(signals) ==
    signals = <<"uint32", "uint32", "int32", "int32", "int32", "int32">>

CheckSignals ==
    /\ phase = "Initialised"
    /\ phase' = IF SignalsAccepted(config.signals) THEN "Scanning" ELSE "Failed"
    /\ UNCHANGED <<config, parameters, scan, derived>>

\* (faulty) What an earlier signal asked for is forgotten.
SamplesAfterLast(asked) == asked

\* The samples per cycle are those of the first ADC signal read.
SamplesAfter(asked) == IF adcSamplesPerCycle = 0 THEN asked ELSE adcSamplesPerCycle

\* The frequency is looked for until one is found.
CheckFunctionSignal ==
    /\ phase = "Scanning"
    /\ functionIdx <= Len(config.functions)
    /\ i <= Len(config.functions[functionIdx])
    /\ LET read == config.functions[functionIdx][i]
       IN  /\ cycleFrequency' = IF cycleFrequency > 0 THEN cycleFrequency ELSE read.frequency
           /\ IF read.signal \in {Counter, Timer}
              THEN /\ phase' = IF read.samples > 1 THEN "Failed" ELSE phase
                   /\ UNCHANGED adcSamplesPerCycle
              ELSE /\ adcSamplesPerCycle' = SamplesAfter(read.samples)
                   /\ phase' = IF read.samples = adcSamplesPerCycle' THEN phase ELSE "Failed"
    /\ i' = i + 1
    /\ UNCHANGED <<config, parameters, functionIdx, derived>>

NextFunction ==
    /\ phase = "Scanning"
    /\ functionIdx <= Len(config.functions)
    /\ i > Len(config.functions[functionIdx])
    /\ functionIdx' = functionIdx + 1 /\ i' = 1
    /\ UNCHANGED <<phase, config, parameters, cycleFrequency, adcSamplesPerCycle, derived>>

\* (faulty) Half the period.
TicksOfHalfPeriod(frequency) == (TimerFrequency * Resolution) \div (2 * frequency)

\* A quotient of float64s, truncated to an integer.
TicksOfPeriod(frequency) == (TimerFrequency * Resolution) \div frequency

\* The number of samples and its product by the frequency are rounded to float32s;
\* the product is then truncated.
SamplesPerSecond(samples, frequency) ==
    NearestRatio(Nearest(samples * Resolution) * frequency, Resolution) \div Resolution

\* The periods are set even if the frequency of the ADCs is then found wrong.
Finish ==
    /\ phase = "Scanning"
    /\ functionIdx > Len(config.functions)
    /\ IF cycleFrequency > 0
       THEN /\ timerPeriodUsecTime' = (UsecPerSecond * Resolution) \div cycleFrequency
            /\ sleepTimeTicks' = TicksOfPeriod(cycleFrequency)
            /\ IF adcFrequency = SamplesPerSecond(adcSamplesPerCycle, cycleFrequency)
               THEN phase' = "Configured" /\ adcValues' = adcSamplesPerCycle
               ELSE phase' = "Failed" /\ UNCHANGED adcValues
       ELSE phase' = "Failed" /\ UNCHANGED derived
    /\ UNCHANGED <<config, parameters, scan>>

Next == Initialise \/ CheckSignals \/ CheckFunctionSignal \/ NextFunction \/ Finish

Spec == Init /\ [][Next]_vars
-----------------------------------------------------------------------------
TypeOK ==
    /\ phase \in {"Created", "Initialised", "Scanning", "Configured", "Failed"}
    /\ \* Execute computes 100u - sleepPercentage
       sleepPercentage \in 0 .. 100
    /\ config \in Configurations
    /\ functionIdx \in 1 .. Len(config.functions) + 1
    /\ cycleFrequency \in Int /\ adcSamplesPerCycle \in Nat
    /\ adcFrequency \in Nat /\ adcValues \in Nat
    /\ sleepTimeTicks \in Nat /\ timerPeriodUsecTime \in Nat

\* The signals that the GAMs read, one GAM after the other.
FunctionSignals ==
    UNION {{<<f, k>> : k \in DOMAIN config.functions[f]} : f \in DOMAIN config.functions}

\* Whatever value adcSamplesPerCycle starts with, an accepted configuration has
\* buffers of exactly the samples that every GAM copies from them in a cycle.
BuffersFit ==
    phase = "Configured" =>
        \A r \in FunctionSignals :
            LET read == config.functions[r[1]][r[2]]
            IN  read.signal \notin {Counter, Timer} => read.samples = adcValues

Frequency(r) == config.functions[r[1]][r[2]].frequency

Synchronising == {r \in FunctionSignals : Frequency(r) > 0}

NotAfter(r, q) == r[1] < q[1] \/ (r[1] = q[1] /\ r[2] <= q[2])

\* The whole numbers that a float32 holds: all of them up to 2^24.
Exact(m) == m * Resolution \in Float32s

\* An accepted configuration makes the ADCs' frequency of samples per second, to less
\* than one sample, if the periods are counted to less than one tick.  Of the signals
\* that ask to synchronise it is the first one that sets the period, whatever a second
\* GAM asks for.
SamplesKeepPace ==
    phase = "Configured" =>
        /\ Exact(adcValues) /\ Exact(adcFrequency - 1) /\ Exact(adcFrequency + 1) =>
              LET ticks == adcValues * TimerFrequency
              IN  /\ (adcFrequency - 1) * sleepTimeTicks < ticks
                  /\ ticks < (adcFrequency + 1) * (sleepTimeTicks + 1)
        /\ \E r \in Synchronising :
              /\ \A q \in Synchronising : NotAfter(r, q)
              /\ sleepTimeTicks * Frequency(r) <= TimerFrequency * Resolution
              /\ TimerFrequency * Resolution < (sleepTimeTicks + 1) * Frequency(r)
=============================================================================
