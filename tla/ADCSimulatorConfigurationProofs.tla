------------------- MODULE ADCSimulatorConfigurationProofs -------------------
(***************************************************************************)
(* Proofs about ADCSimulatorConfiguration, for any number of GAMs and of   *)
(* signals that they read.                                                 *)
(***************************************************************************)
EXTENDS ADCSimulatorConfiguration, WellFoundedInduction, TLAPS

ReadSignal == [signal : 0 .. 5, samples : Nat \ {0}, frequency : Float32s]

\* The signals that the scan has gone through.
Scanned(f, k) == f < functionIdx \/ (f = functionIdx /\ k < i)

Before(f, k, g, l) == f < g \/ (f = g /\ k <= l)

ScanInv ==
    /\ i \in Nat \ {0}
    /\ functionIdx <= Len(config.functions) => i <= Len(config.functions[functionIdx]) + 1
    /\ phase \in {"Created", "Initialised"} => functionIdx = 1 /\ i = 1 /\ cycleFrequency = -Resolution
    /\ phase \in {"Initialised", "Scanning", "Configured"} => adcFrequency # 0
    /\ phase = "Configured" =>
          /\ functionIdx > Len(config.functions)
          /\ adcValues = adcSamplesPerCycle /\ cycleFrequency > 0
          /\ sleepTimeTicks = (TimerFrequency * Resolution) \div cycleFrequency
          /\ timerPeriodUsecTime = (UsecPerSecond * Resolution) \div cycleFrequency
          /\ adcFrequency = SamplesPerSecond(adcSamplesPerCycle, cycleFrequency)

\* Whatever was asked for is what there is now.
SamplesInv ==
    phase \in {"Scanning", "Configured"} =>
        \A f \in DOMAIN config.functions : \A k \in DOMAIN config.functions[f] :
            Scanned(f, k) /\ config.functions[f][k].signal \notin {Counter, Timer} =>
                config.functions[f][k].samples = adcSamplesPerCycle

\* The frequency is the first one above 0, if there was one.
FrequencyInv ==
    phase \in {"Scanning", "Configured"} =>
        IF cycleFrequency > 0
        THEN \E f \in DOMAIN config.functions : \E k \in DOMAIN config.functions[f] :
                /\ Scanned(f, k) /\ config.functions[f][k].frequency = cycleFrequency
                /\ \A g \in DOMAIN config.functions : \A l \in DOMAIN config.functions[g] :
                      config.functions[g][l].frequency > 0 => Before(f, k, g, l)
        ELSE \A f \in DOMAIN config.functions : \A k \in DOMAIN config.functions[f] :
                Scanned(f, k) => config.functions[f][k].frequency <= 0

IInv == TypeOK /\ ScanInv /\ SamplesInv /\ FrequencyInv

LEMMA ConfigurationType ==
    ASSUME config \in Configurations
    PROVE  /\ config.functions \in Seq(Seq(ReadSignal))
           /\ config.sleepPercentage = NotSet \/ config.sleepPercentage \in Nat
           /\ config.adcFrequency = NotSet \/ config.adcFrequency \in Nat \ {0}
           /\ \A f \in DOMAIN config.functions :
                 /\ f \in 1 .. Len(config.functions)
                 /\ config.functions[f] \in Seq(ReadSignal)
                 /\ \A k \in DOMAIN config.functions[f] :
                       k \in 1 .. Len(config.functions[f]) /\ config.functions[f][k] \in ReadSignal
<1>1. /\ config.functions \in Seq(Seq(ReadSignal))
      /\ config.sleepPercentage = NotSet \/ config.sleepPercentage \in Nat
      /\ config.adcFrequency = NotSet \/ config.adcFrequency \in Nat \ {0}
  BY ConstantsAssumption DEF ConstantsAssumption, ReadSignal
<1>2. \A s \in Seq(ReadSignal) : DOMAIN s = 1 .. Len(s) /\ \A k \in DOMAIN s : s[k] \in ReadSignal
  OBVIOUS
<1>3. ASSUME NEW f \in DOMAIN config.functions
      PROVE  f \in 1 .. Len(config.functions) /\ config.functions[f] \in Seq(ReadSignal)
  BY <1>1
<1> QED BY <1>1, <1>2, <1>3

LEMMA DivType ==
    ASSUME NEW a \in Nat, NEW b \in Nat \ {0}
    PROVE  a \div b \in Nat /\ (a \div b) * b <= a /\ a < (a \div b) * b + b
OBVIOUS

LEMMA Commute == \A x, y, z \in Int : (x * y) * z = (x * z) * y
OBVIOUS

LEMMA InitIInv == Init => IInv
<1> SUFFICES ASSUME Init PROVE IInv
  OBVIOUS
<1>1. Len(config.functions) \in Nat /\ 1 \in 1 .. Len(config.functions) + 1
  BY ConfigurationType DEF Init
<1>2. TypeOK
  BY <1>1, ConstantsAssumption DEF ConstantsAssumption, Init, TypeOK
<1>3. functionIdx <= Len(config.functions) => i <= Len(config.functions[functionIdx]) + 1
  <2>1. functionIdx <= Len(config.functions) => Len(config.functions[functionIdx]) \in Nat
    BY ConfigurationType DEF Init
  <2> QED BY <2>1 DEF Init
<1> QED BY <1>2, <1>3 DEF Init, IInv, ScanInv, SamplesInv, FrequencyInv

LEMMA InitialiseStep == ASSUME IInv, Initialise PROVE IInv'
<1>1. sleepPercentage' \in 0 .. 100
  <2>1. CASE config.sleepNature = "Busy" /\ config.sleepPercentage # NotSet
    <3>1. config.sleepPercentage \in Nat
      BY <2>1, ConfigurationType DEF IInv, TypeOK
    <3>2. sleepPercentage' = SleepPercentage(config.sleepPercentage)
      BY <2>1 DEF Initialise
    <3> QED BY <3>1, <3>2 DEF SleepPercentage
  <2>2. CASE ~(config.sleepNature = "Busy" /\ config.sleepPercentage # NotSet)
    BY <2>2 DEF Initialise, IInv, TypeOK
  <2> QED BY <2>1, <2>2
<1>2. adcFrequency' \in Nat \ {0}
  BY ConfigurationType, ConstantsAssumption DEF ConstantsAssumption, IInv, TypeOK, Initialise
<1>3. phase' \in {"Initialised", "Failed"} /\ phase = "Created"
      /\ UNCHANGED <<config, scan, derived>>
  BY DEF Initialise
<1>4. TypeOK'
  BY <1>1, <1>2, <1>3 DEF IInv, TypeOK, scan, derived
<1> QED
  BY <1>2, <1>3, <1>4 DEF IInv, ScanInv, SamplesInv, FrequencyInv, scan, derived

\* The steps that only change the phase.
LEMMA IdleStep ==
    ASSUME IInv, UNCHANGED <<config, parameters, scan, derived>>,
           phase' \in {"Created", "Initialised", "Scanning", "Configured", "Failed"},
           phase' \in {"Failed", phase}
    PROVE  IInv'
<1>1. TypeOK'
  BY DEF IInv, TypeOK, parameters, scan, derived
<1>2. ScanInv' /\ SamplesInv' /\ FrequencyInv'
  BY DEF IInv, ScanInv, SamplesInv, FrequencyInv, Scanned, Before, parameters, scan, derived
<1> QED BY <1>1, <1>2 DEF IInv

LEMMA CheckSignalsStep == ASSUME IInv, CheckSignals PROVE IInv'
<1>1. CASE phase' = "Failed"
  BY <1>1, IdleStep DEF CheckSignals
<1>2. CASE phase' # "Failed"
  <2>1. /\ phase' = "Scanning" /\ phase = "Initialised" /\ functionIdx = 1 /\ i = 1
        /\ cycleFrequency = -Resolution /\ UNCHANGED <<config, parameters, scan, derived>>
    BY <1>2 DEF CheckSignals, IInv, ScanInv
  <2>2. TypeOK'
    BY <2>1 DEF IInv, TypeOK, parameters, scan, derived
  <2>3. ScanInv'
    BY <2>1 DEF IInv, ScanInv, parameters, scan, derived
  <2>4. \A f \in DOMAIN config.functions : \A k \in DOMAIN config.functions[f] : ~Scanned(f, k)
    BY <2>1, ConfigurationType DEF IInv, TypeOK, Scanned
  <2>5. ~(cycleFrequency > 0)
    BY <2>1, ConstantsAssumption DEF ConstantsAssumption
  <2>6. SamplesInv' /\ FrequencyInv'
    BY <2>1, <2>4, <2>5 DEF SamplesInv, FrequencyInv, Scanned, scan
  <2> QED BY <2>2, <2>3, <2>6 DEF IInv
<1> QED BY <1>1, <1>2

\* A step of the scan leaves the signals gone through and the one it looks at.
LEMMA CheckFunctionSignalStep == ASSUME IInv, CheckFunctionSignal PROVE IInv'
<1> DEFINE F == config.functions
           read == F[functionIdx][i]
<1>1. /\ functionIdx \in DOMAIN F /\ functionIdx \in 1 .. Len(F)
      /\ i \in DOMAIN F[functionIdx] /\ i \in Nat /\ read \in ReadSignal
      /\ Len(F[functionIdx]) \in Nat /\ i <= Len(F[functionIdx])
  <2>1. functionIdx \in 1 .. Len(F) /\ F \in Seq(Seq(ReadSignal))
    BY ConfigurationType DEF IInv, TypeOK, CheckFunctionSignal
  <2>2. functionIdx \in DOMAIN F /\ F[functionIdx] \in Seq(ReadSignal)
    BY <2>1
  <2>3. i \in 1 .. Len(F[functionIdx])
    BY <2>2 DEF IInv, ScanInv, CheckFunctionSignal
  <2> QED BY <2>1, <2>2, <2>3
<1>2. /\ phase = "Scanning" /\ phase' \in {"Scanning", "Failed"}
      /\ cycleFrequency' = IF cycleFrequency > 0 THEN cycleFrequency ELSE read.frequency
      /\ i' = i + 1 /\ UNCHANGED <<config, parameters, functionIdx, derived>>
  BY DEF CheckFunctionSignal
<1>3. /\ read.signal \in {Counter, Timer} => adcSamplesPerCycle' = adcSamplesPerCycle
      /\ read.signal \notin {Counter, Timer} =>
            /\ adcSamplesPerCycle' = SamplesAfter(read.samples)
            /\ phase' = "Scanning" => read.samples = adcSamplesPerCycle'
  BY DEF CheckFunctionSignal
<1>4. read.samples \in Nat \ {0} /\ read.frequency \in Int
  BY <1>1, Float32Assumption DEF ReadSignal
<1>0. PICK f0 \in DOMAIN F, k0 \in Nat : f0 = functionIdx /\ k0 = i
  BY <1>1
<1>5. \A f \in DOMAIN F : \A k \in DOMAIN F[f] :
         Scanned(f, k)' <=> Scanned(f, k) \/ (f = f0 /\ k = k0)
  <2> SUFFICES ASSUME NEW f \in DOMAIN F, NEW k \in DOMAIN F[f]
      PROVE  Scanned(f, k)' <=> Scanned(f, k) \/ (f = f0 /\ k = k0)
    OBVIOUS
  <2>1. f \in Nat /\ k \in Nat
    BY ConfigurationType DEF IInv, TypeOK
  <2>2. functionIdx \in Nat /\ functionIdx' = functionIdx /\ i \in Nat /\ i' = i + 1
    BY <1>1, <1>2
  <2> QED BY <1>0, <2>1, <2>2 DEF Scanned
<1>6. TypeOK'
  <2>1. adcSamplesPerCycle' \in Nat
    BY <1>3, <1>4 DEF IInv, TypeOK, SamplesAfter
  <2> QED BY <1>2, <1>4, <2>1 DEF IInv, TypeOK, parameters, derived
<1>7. ScanInv'
  BY <1>1, <1>2 DEF IInv, ScanInv, parameters, derived
<1>8. SamplesInv'
  <2> SUFFICES ASSUME phase' = "Scanning", NEW f \in DOMAIN F, NEW k \in DOMAIN F[f],
                      Scanned(f, k)', F[f][k].signal \notin {Counter, Timer}
      PROVE  F[f][k].samples = adcSamplesPerCycle'
    BY <1>2 DEF SamplesInv
  <2>1. F[f][k].samples \in Nat \ {0}
    BY ConfigurationType DEF IInv, TypeOK, ReadSignal
  <2>2. CASE f = f0 /\ k = k0
    BY <1>0, <1>3, <2>2
  <2>3. CASE Scanned(f, k)
    <3>1. F[f][k].samples = adcSamplesPerCycle
      BY <1>2, <2>3 DEF IInv, SamplesInv
    <3> QED BY <1>3, <2>1, <3>1 DEF SamplesAfter
  <2> QED BY <1>5, <2>2, <2>3
<1>9. FrequencyInv'
  <2>1. CASE cycleFrequency > 0
    <3>1. PICK f \in DOMAIN F : \E k \in DOMAIN F[f] :
             /\ Scanned(f, k) /\ F[f][k].frequency = cycleFrequency
             /\ \A g \in DOMAIN F : \A l \in DOMAIN F[g] :
                   F[g][l].frequency > 0 => Before(f, k, g, l)
      BY <1>2, <2>1 DEF IInv, FrequencyInv
    <3>2. PICK k \in DOMAIN F[f] :
             /\ Scanned(f, k) /\ F[f][k].frequency = cycleFrequency
             /\ \A g \in DOMAIN F : \A l \in DOMAIN F[g] :
                   F[g][l].frequency > 0 => Before(f, k, g, l)
      BY <3>1
    <3>3. Scanned(f, k)' /\ cycleFrequency' = cycleFrequency
      BY <1>2, <1>5, <2>1, <3>2
    <3> QED BY <1>2, <2>1, <3>2, <3>3 DEF FrequencyInv, Before
  <2>2. CASE ~(cycleFrequency > 0)
    <3>1. \A f \in DOMAIN F : \A k \in DOMAIN F[f] : Scanned(f, k) => F[f][k].frequency <= 0
      BY <1>2, <2>2 DEF IInv, FrequencyInv
    <3>2. /\ cycleFrequency' = F[f0][k0].frequency /\ F[f0][k0].frequency \in Int
          /\ k0 \in DOMAIN F[f0] /\ Scanned(f0, k0)'
      BY <1>0, <1>1, <1>2, <1>4, <1>5, <2>2
    <3>3. CASE F[f0][k0].frequency > 0
      <4>1. ASSUME NEW g \in DOMAIN F, NEW l \in DOMAIN F[g], F[g][l].frequency > 0
            PROVE  Before(f0, k0, g, l)
        <5>0. F[g][l].frequency \in Int
          BY ConfigurationType, Float32Assumption DEF IInv, TypeOK, ReadSignal
        <5>1. ~Scanned(g, l)
          BY <3>1, <4>1, <5>0
        <5>2. g \in Nat /\ l \in Nat
          BY ConfigurationType DEF IInv, TypeOK
        <5> QED BY <1>0, <1>1, <5>1, <5>2 DEF Scanned, Before
      <4> QED BY <1>2, <3>2, <3>3, <4>1 DEF FrequencyInv, Before
    <3>4. CASE ~(F[f0][k0].frequency > 0)
      <4>1. \A f \in DOMAIN F : \A k \in DOMAIN F[f] : Scanned(f, k)' => F[f][k].frequency <= 0
        BY <1>5, <3>1, <3>2, <3>4
      <4> QED BY <1>2, <3>2, <3>4, <4>1 DEF FrequencyInv
    <3> QED BY <3>3, <3>4
  <2> QED BY <2>1, <2>2
<1> QED BY <1>6, <1>7, <1>8, <1>9 DEF IInv

LEMMA NextFunctionStep == ASSUME IInv, NextFunction PROVE IInv'
<1> DEFINE F == config.functions
<1>1. /\ F \in Seq(Seq(ReadSignal)) /\ Len(F) \in Nat
      /\ functionIdx \in 1 .. Len(F) /\ F[functionIdx] \in Seq(ReadSignal)
      /\ i > Len(F[functionIdx]) /\ i \in Nat
  <2>1. F \in Seq(Seq(ReadSignal)) /\ functionIdx \in 1 .. Len(F)
    BY ConfigurationType DEF IInv, TypeOK, NextFunction
  <2> QED BY <2>1 DEF NextFunction, IInv, ScanInv
<1>2. /\ phase' = "Scanning" /\ phase = "Scanning" /\ functionIdx' = functionIdx + 1 /\ i' = 1
      /\ UNCHANGED <<config, parameters, cycleFrequency, adcSamplesPerCycle, derived>>
  BY DEF NextFunction
<1>3. TypeOK'
  BY <1>1, <1>2 DEF IInv, TypeOK, parameters, derived
<1>4. ScanInv'
  <2>1. functionIdx + 1 <= Len(F) => Len(F[functionIdx + 1]) \in Nat
    <3>1. functionIdx + 1 <= Len(F) => F[functionIdx + 1] \in Seq(ReadSignal)
      BY <1>1
    <3> QED BY <3>1
  <2> QED BY <1>1, <1>2, <2>1 DEF IInv, ScanInv, parameters, derived
<1>5. \A f \in DOMAIN F : \A k \in DOMAIN F[f] : Scanned(f, k)' <=> Scanned(f, k)
  <2> SUFFICES ASSUME NEW f \in DOMAIN F, NEW k \in DOMAIN F[f]
      PROVE  Scanned(f, k)' <=> Scanned(f, k)
    OBVIOUS
  <2>1. f \in 1 .. Len(F) /\ k \in 1 .. Len(F[f]) /\ Len(F[f]) \in Nat
    BY ConfigurationType DEF IInv, TypeOK
  <2> QED BY <1>1, <1>2, <2>1 DEF Scanned
<1>6. SamplesInv' /\ FrequencyInv'
  BY <1>2, <1>5 DEF IInv, SamplesInv, FrequencyInv, Before
<1> QED BY <1>3, <1>4, <1>6 DEF IInv

LEMMA FinishStep == ASSUME IInv, Finish PROVE IInv'
<1>1. /\ UNCHANGED <<config, parameters, scan>> /\ phase = "Scanning"
      /\ functionIdx > Len(config.functions) /\ phase' \in {"Failed", "Configured"}
  BY DEF Finish
<1>2. CASE cycleFrequency > 0
  <2>1. /\ timerPeriodUsecTime' = (UsecPerSecond * Resolution) \div cycleFrequency
        /\ sleepTimeTicks' = (TimerFrequency * Resolution) \div cycleFrequency
        /\ phase' = "Configured" =>
              /\ adcFrequency = SamplesPerSecond(adcSamplesPerCycle, cycleFrequency)
              /\ adcValues' = adcSamplesPerCycle
        /\ phase' = "Failed" => adcValues' = adcValues
    BY <1>2 DEF Finish, TicksOfPeriod
  <2>2. /\ cycleFrequency \in Nat \ {0}
        /\ TimerFrequency * Resolution \in Nat /\ UsecPerSecond * Resolution \in Nat
    BY <1>2, ConstantsAssumption DEF ConstantsAssumption, IInv, TypeOK
  <2>3. timerPeriodUsecTime' \in Nat /\ sleepTimeTicks' \in Nat
    BY <2>1, <2>2, DivType
  <2>4. TypeOK'
    BY <1>1, <2>1, <2>3 DEF IInv, TypeOK, parameters, scan
  <2>5. ScanInv'
    BY <1>1, <1>2, <2>1 DEF IInv, ScanInv, SamplesPerSecond, parameters, scan
  <2>6. SamplesInv' /\ FrequencyInv'
    BY <1>1 DEF IInv, SamplesInv, FrequencyInv, Scanned, Before, scan
  <2> QED BY <2>4, <2>5, <2>6 DEF IInv
<1>3. CASE ~(cycleFrequency > 0)
  BY <1>1, <1>3, IdleStep DEF Finish
<1> QED BY <1>2, <1>3

LEMMA Invariant == Spec => []IInv
<1>1. IInv /\ [Next]_vars => IInv'
  <2>1. CASE UNCHANGED vars
    BY <2>1, IdleStep DEF vars, IInv, TypeOK
  <2> QED
    BY <2>1, InitialiseStep, CheckSignalsStep, CheckFunctionSignalStep, NextFunctionStep,
       FinishStep DEF Next
<1> QED BY <1>1, InitIInv, PTL DEF Spec
-----------------------------------------------------------------------------
\* Every variable keeps its type: Execute never computes 100u minus more than 100.
THEOREM TypeCorrect == Spec => []TypeOK
<1>1. IInv => TypeOK
  BY DEF IInv
<1> QED BY <1>1, Invariant, PTL

LEMMA AllScanned ==
    ASSUME IInv, phase = "Configured",
           NEW f \in DOMAIN config.functions, NEW k \in DOMAIN config.functions[f]
    PROVE  Scanned(f, k)
BY ConfigurationType DEF IInv, TypeOK, ScanInv, Scanned

\* The buffers have the samples that every GAM copies, whatever the uninitialised count.
THEOREM BuffersCorrect == Spec => []BuffersFit
<1>1. IInv => BuffersFit
  <2> SUFFICES ASSUME IInv, phase = "Configured",
                      NEW f \in DOMAIN config.functions, NEW k \in DOMAIN config.functions[f],
                      config.functions[f][k].signal \notin {Counter, Timer}
      PROVE  config.functions[f][k].samples = adcValues
    BY DEF BuffersFit, FunctionSignals
  <2> QED BY AllScanned DEF IInv, SamplesInv, ScanInv
<1> QED BY <1>1, Invariant, PTL

-----------------------------------------------------------------------------
(* Rounding *)

\* There is a nearest float32, which is what NearestRatio chooses.
LEMMA NearestExists ==
    ASSUME NEW a \in Int, NEW b \in Nat \ {0}
    PROVE  /\ NearestRatio(a, b) \in Float32s
           /\ \A g \in Float32s : Distance(NearestRatio(a, b), a, b) <= Distance(g, a, b)
<1> DEFINE D == {Distance(f, a, b) : f \in Float32s}
           R == OpToRel(<, Nat)
           IsNearest(f) == \A g \in Float32s : Distance(f, a, b) <= Distance(g, a, b)
<1>1. ASSUME NEW f \in Float32s PROVE Distance(f, a, b) \in Nat
  <2>1. f \in Int /\ f * b \in Int
    BY Float32Assumption
  <2> QED BY <2>1 DEF Distance
<1>2. D \subseteq Nat /\ D # {}
  BY <1>1, Float32Assumption
<1>3. \A i1, k \in Nat : i1 < k => <<i1, k>> \in R
  BY DEF OpToRel
<1>4. IsWellFoundedOn(R, Nat)
  BY NatLessThanWellFounded
<1> HIDE DEF R, D
<1>5. PICK d \in D : \A e \in D : ~(<<e, d>> \in R)
  BY <1>2, <1>4, WFMin
<1>6. ASSUME NEW e \in D PROVE d <= e
  <2>1. d \in Nat /\ e \in Nat
    BY <1>2
  <2>2. ~(e < d)
    BY <1>3, <1>5, <2>1
  <2> QED BY <2>1, <2>2
<1>7. PICK f \in Float32s : d = Distance(f, a, b)
  BY <1>5 DEF D
<1>8. IsNearest(f)
  BY <1>6, <1>7 DEF D
<1>9. NearestRatio(a, b) = CHOOSE x \in Float32s : IsNearest(x)
  BY DEF NearestRatio
<1> HIDE DEF IsNearest
<1>10. (CHOOSE x \in Float32s : IsNearest(x)) \in Float32s
       /\ IsNearest(CHOOSE x \in Float32s : IsNearest(x))
  BY <1>8
<1> QED BY <1>9, <1>10 DEF IsNearest

\* Rounding does not go past a float32.
LEMMA RoundingStops ==
    ASSUME NEW a \in Int, NEW b \in Nat \ {0}, NEW g \in Float32s
    PROVE  /\ a <= g * b => NearestRatio(a, b) <= g
           /\ a >= g * b => NearestRatio(a, b) >= g
<1> DEFINE f == NearestRatio(a, b)
<1>1. f \in Int /\ g \in Int /\ Distance(f, a, b) <= Distance(g, a, b)
  BY NearestExists, Float32Assumption
<1> HIDE DEF f
<1>2. f * b \in Int /\ g * b \in Int
  BY <1>1
<1>3. f > g => f * b > g * b
  BY <1>1
<1>4. f < g => f * b < g * b
  BY <1>1
<1>5. a <= g * b => f <= g
  BY <1>1, <1>2, <1>3 DEF Distance
<1>6. a >= g * b => f >= g
  BY <1>1, <1>2, <1>4 DEF Distance
<1> QED BY <1>5, <1>6 DEF f

\* A float32 is not changed by rounding.
LEMMA RoundingExact == ASSUME NEW g \in Float32s PROVE Nearest(g) = g
<1>1. g \in Int /\ g * 1 = g /\ 1 \in Nat \ {0}
  BY Float32Assumption
<1>2. NearestRatio(g, 1) \in Int
  BY <1>1, NearestExists, Float32Assumption
<1>3. NearestRatio(g, 1) <= g /\ NearestRatio(g, 1) >= g
  BY <1>1, RoundingStops
<1> QED BY <1>1, <1>2, <1>3 DEF Nearest

\* The rounded and truncated product is less than 1 away from the product.
LEMMA RateBounds ==
    ASSUME NEW n \in Nat, NEW c \in Nat, NEW rate \in Nat,
           Exact(n), Exact(rate - 1), Exact(rate + 1), rate = SamplesPerSecond(n, c)
    PROVE  (rate - 1) * Resolution < n * c /\ n * c < (rate + 1) * Resolution
<1> DEFINE product == n * Resolution * c
           rounded == NearestRatio(product, Resolution)
           low == (rate - 1) * Resolution
           high == (rate + 1) * Resolution
<1>1. /\ Resolution \in Nat \ {0} /\ n * c \in Int /\ product \in Int
      /\ product = (n * c) * Resolution /\ low \in Int /\ high \in Int
  BY ConstantsAssumption DEF ConstantsAssumption
<1>2. rate = rounded \div Resolution
  BY RoundingExact DEF SamplesPerSecond, Exact
<1>3. rounded \in Int
  BY <1>1, NearestExists, Float32Assumption
<1>4. low \in Float32s /\ high \in Float32s
  BY DEF Exact
<1>5. rate * Resolution <= rounded /\ rounded < rate * Resolution + Resolution
  <2> HIDE DEF rounded
  <2> QED BY <1>1, <1>2, <1>3
<1>6. low < rounded /\ rounded < high
  <2>1. low = rate * Resolution - Resolution /\ high = rate * Resolution + Resolution
    BY <1>1
  <2>2. rate * Resolution \in Int
    BY <1>1
  <2> HIDE DEF rounded, low, high
  <2> QED BY <1>1, <1>3, <1>5, <2>1, <2>2
<1>7. ~(product <= low * Resolution) /\ ~(product >= high * Resolution)
  <2>1. /\ product <= low * Resolution => rounded <= low
        /\ product >= high * Resolution => rounded >= high
    BY <1>1, <1>4, RoundingStops
  <2> HIDE DEF rounded, low, high, product
  <2> QED BY <1>1, <1>3, <1>6, <2>1
<1> HIDE DEF rounded, low, high, product
<1>8. n * c <= low => product <= low * Resolution
  BY <1>1
<1>9. n * c >= high => product >= high * Resolution
  BY <1>1
<1>10. low < n * c /\ n * c < high
  BY <1>1, <1>7, <1>8, <1>9
<1> QED BY <1>10 DEF low, high
-----------------------------------------------------------------------------
\* An accepted configuration makes the samples of the ADCs' frequency, to less than one
\* a second, and the first GAM that asked sets its period, for any frequencies and
\* whatever the rounding of their products (ADCSimulator.cpp:288-297).
THEOREM PaceCorrect == Spec => []SamplesKeepPace
<1>1. IInv => SamplesKeepPace
  <2> SUFFICES ASSUME IInv, phase = "Configured" PROVE SamplesKeepPace
    BY DEF SamplesKeepPace
  <2> DEFINE t == sleepTimeTicks
             c == cycleFrequency
             n == adcValues
             ticks == TimerFrequency * Resolution
  <2>1. /\ c \in Nat \ {0} /\ n \in Nat /\ t \in Nat /\ TimerFrequency \in Nat \ {0}
        /\ Resolution \in Nat \ {0} /\ ticks \in Nat \ {0} /\ t = ticks \div c
        /\ adcFrequency = SamplesPerSecond(n, c) /\ adcFrequency \in Nat \ {0}
    BY ConstantsAssumption DEF ConstantsAssumption, IInv, TypeOK, ScanInv
  <2>2. t * c <= ticks /\ ticks < (t + 1) * c
    <3>1. (t + 1) * c = t * c + c
      BY <2>1
    <3> HIDE DEF ticks, t, c
    <3> QED BY <2>1, <3>1, DivType
  <2>3. ASSUME Exact(n), Exact(adcFrequency - 1), Exact(adcFrequency + 1)
        PROVE  /\ (adcFrequency - 1) * t < n * TimerFrequency
               /\ n * TimerFrequency < (adcFrequency + 1) * (t + 1)
    <3> DEFINE low == adcFrequency - 1
               high == adcFrequency + 1
    <3>1. low * Resolution < n * c /\ n * c < high * Resolution
      BY <2>1, <2>3, RateBounds
    <3>2. low \in Nat /\ high \in Nat \ {0} /\ n > 0
      <4>1. low \in Nat /\ high \in Nat \ {0}
        BY <2>1
      <4>2. low * Resolution >= 0
        BY <2>1, <4>1
      <4>3. n # 0
        BY <2>1, <3>1, <4>1, <4>2
      <4> QED BY <2>1, <4>1, <4>3
    <3> HIDE DEF low, high, t, c, n
    <3>3. low * t < n * TimerFrequency
      <4>1. CASE t = 0
        BY <2>1, <3>2, <4>1
      <4>2. CASE t > 0
        <5>1. (low * Resolution) * t < (n * c) * t
          BY <2>1, <3>1, <3>2, <4>2
        <5>2. n * (t * c) <= n * ticks
          BY <2>1, <2>2, <3>2
        <5>3. (low * t) * Resolution < (n * TimerFrequency) * Resolution
          <6>1. (low * Resolution) * t = (low * t) * Resolution
            <7>1. low \in Int /\ Resolution \in Int /\ t \in Int
              BY <2>1, <3>2
            <7> QED BY ONLY <7>1, Commute
          <6>2. (n * c) * t = n * (t * c)
            BY <2>1, <3>2
          <6>3. n * ticks = (n * TimerFrequency) * Resolution
            BY <2>1, <3>2
          <6>4. /\ (low * t) * Resolution \in Int /\ n * (t * c) \in Int
                /\ (n * TimerFrequency) * Resolution \in Int
            BY <2>1, <3>2
          <6> QED BY <5>1, <5>2, <6>1, <6>2, <6>3, <6>4
        <5>4. low * t \in Int /\ n * TimerFrequency \in Int
          BY <2>1, <3>2
        <5> QED BY <2>1, <5>3, <5>4
      <4> QED BY <2>1, <4>1, <4>2
    <3>4. n * TimerFrequency < high * (t + 1)
      <4>1. n * ticks < n * ((t + 1) * c)
        BY <2>1, <2>2, <3>2
      <4>2. (n * c) * (t + 1) < (high * Resolution) * (t + 1)
        BY <2>1, <3>1, <3>2
      <4>3. (n * TimerFrequency) * Resolution < (high * (t + 1)) * Resolution
        <5>1. n * ((t + 1) * c) = (n * c) * (t + 1)
          BY <2>1, <3>2
        <5>2. (high * Resolution) * (t + 1) = (high * (t + 1)) * Resolution
          BY <2>1, <3>2, Commute
        <5>3. n * ticks = (n * TimerFrequency) * Resolution
          BY <2>1, <3>2
        <5>4. /\ (n * c) * (t + 1) \in Int /\ (high * (t + 1)) * Resolution \in Int
              /\ (n * TimerFrequency) * Resolution \in Int
          BY <2>1, <3>2
        <5> QED BY <4>1, <4>2, <5>1, <5>2, <5>3, <5>4
      <4>4. n * TimerFrequency \in Int /\ high * (t + 1) \in Int
        BY <2>1, <3>2
      <4> QED BY <2>1, <4>3, <4>4
    <3> QED BY <3>3, <3>4 DEF low, high
  <2>5. PICK f \in DOMAIN config.functions : \E k \in DOMAIN config.functions[f] :
           /\ config.functions[f][k].frequency = c
           /\ \A g \in DOMAIN config.functions : \A l \in DOMAIN config.functions[g] :
                 config.functions[g][l].frequency > 0 => Before(f, k, g, l)
    BY <2>1 DEF IInv, FrequencyInv
  <2>6. PICK k \in DOMAIN config.functions[f] :
           /\ config.functions[f][k].frequency = c
           /\ \A g \in DOMAIN config.functions : \A l \in DOMAIN config.functions[g] :
                 config.functions[g][l].frequency > 0 => Before(f, k, g, l)
    BY <2>5
  <2>7. <<f, k>> \in Synchronising /\ Frequency(<<f, k>>) = c
    BY <2>1, <2>6 DEF Synchronising, FunctionSignals, Frequency
  <2>8. \A q \in Synchronising : NotAfter(<<f, k>>, q)
    BY <2>6 DEF Synchronising, FunctionSignals, Frequency, NotAfter, Before
  <2> QED BY <2>2, <2>3, <2>7, <2>8 DEF SamplesKeepPace
<1> QED BY <1>1, Invariant, PTL

\* What ADCSimulator assumes of the configuration: there are samples, and the sleep is
\* of at least a tick and the timer advances, unless the frequency of the GAM is above
\* that of the clock or of the microseconds.
ServiceThreadSound ==
    phase = "Configured" =>
        /\ adcValues > 0
        /\ sleepTimeTicks > 0 <=> cycleFrequency <= TimerFrequency * Resolution
        /\ timerPeriodUsecTime > 0 <=> cycleFrequency <= UsecPerSecond * Resolution

LEMMA DivPositive ==
    ASSUME NEW a \in Nat, NEW b \in Nat \ {0}
    PROVE  a \div b > 0 <=> b <= a
<1> DEFINE q == a \div b
<1>1. q \in Nat /\ q * b <= a /\ a < q * b + b
  BY DivType
<1> HIDE DEF q
<1>2. CASE q = 0
  BY <1>1, <1>2
<1>3. CASE q > 0
  <2>1. q * b >= b
    BY <1>1, <1>3
  <2> QED BY <1>1, <1>3, <2>1
<1>4. q > 0 <=> b <= a
  BY <1>1, <1>2, <1>3
<1> QED BY <1>4 DEF q

\* The truncation to whole ticks and microseconds gives no period exactly for the
\* frequencies that are above those of the clock: the configuration is accepted, and the
\* loop of l.382 that adds the period then never ends, or the timer stands still
\* (ADCSimulator.cpp:289-292).
THEOREM PeriodsCorrect == Spec => []ServiceThreadSound
<1>1. IInv => ServiceThreadSound
  <2> SUFFICES ASSUME IInv, phase = "Configured"
      PROVE  /\ adcValues > 0
             /\ sleepTimeTicks > 0 <=> cycleFrequency <= TimerFrequency * Resolution
             /\ timerPeriodUsecTime > 0 <=> cycleFrequency <= UsecPerSecond * Resolution
    BY DEF ServiceThreadSound
  <2>1. /\ cycleFrequency \in Nat \ {0} /\ Resolution \in Nat \ {0}
        /\ TimerFrequency * Resolution \in Nat /\ UsecPerSecond * Resolution \in Nat
    BY ConstantsAssumption DEF ConstantsAssumption, IInv, TypeOK, ScanInv
  <2>2. sleepTimeTicks > 0 <=> cycleFrequency <= TimerFrequency * Resolution
    BY <2>1, DivPositive DEF IInv, ScanInv
  <2>3. timerPeriodUsecTime > 0 <=> cycleFrequency <= UsecPerSecond * Resolution
    BY <2>1, DivPositive DEF IInv, ScanInv
  <2>4. adcValues # 0
    <3> SUFFICES ASSUME adcValues = 0 PROVE adcFrequency = 0
      BY DEF IInv, ScanInv
    <3>1. Nearest(adcValues * Resolution) * cycleFrequency = 0
      <4>1. adcValues * Resolution = 0 /\ Nearest(0) = 0
        BY <2>1, RoundingExact, Float32Assumption
      <4> QED BY <2>1, <4>1
    <3>2. NearestRatio(0, Resolution) = 0
      <4>1. 0 * Resolution = 0 /\ 0 \in Float32s /\ NearestRatio(0, Resolution) \in Int
        <5>1. 0 \in Int /\ 0 \in Float32s /\ Float32s \subseteq Int
          BY Float32Assumption
        <5>2. NearestRatio(0, Resolution) \in Float32s
          BY <2>1, <5>1, NearestExists
        <5>3. \A x \in Int : 0 * x = 0
          OBVIOUS
        <5>4. 0 * Resolution = 0
          BY <2>1, <5>3
        <5> QED BY <5>1, <5>2, <5>4
      <4>2. NearestRatio(0, Resolution) <= 0 /\ NearestRatio(0, Resolution) >= 0
        BY <2>1, <4>1, RoundingStops, Float32Assumption
      <4> QED BY <4>1, <4>2
    <3>3. 0 \div Resolution = 0
      BY <2>1
    <3>4. adcFrequency = SamplesPerSecond(adcValues, cycleFrequency)
      BY DEF IInv, ScanInv
    <3> QED BY <3>1, <3>2, <3>3, <3>4 DEF SamplesPerSecond
  <2>5. adcValues \in Nat
    BY DEF IInv, TypeOK
  <2> QED BY <2>2, <2>3, <2>4, <2>5
<1> QED BY <1>1, Invariant, PTL
=============================================================================
