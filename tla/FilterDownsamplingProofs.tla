---------------------- MODULE FilterDownsamplingProofs ----------------------
(***************************************************************************)
(* Proofs about FilterDownsampling, for any number and size of signals and *)
(* any scale: with the code's constants, that the int64 never overflows.   *)
(***************************************************************************)
EXTENDS FilterDownsampling, TLAPS

Weight == Scale - 1 - alpha20Bit
Target(x) == x * Scale * (Scale - alpha20Bit)

\* An accumulator is between the steady states of the smallest and the largest input.
Within(acc) ==
    /\ acc * Weight <= Target(MaxInput - 1)
    /\ (acc + 1) * Weight > Target(-MaxInput)

Fits(v) == v \in -Word .. Word - 1

LEMMA Alpha ==
    ASSUME alpha20Bit \in Alphas \cup {0}
    PROVE  /\ alpha20Bit \in Nat /\ alpha20Bit <= Scale - 1
           /\ Scale \in Nat \ {0} /\ MaxInput \in Nat \ {0} /\ Word \in Nat
           /\ 2 * MaxInput * Scale * Scale <= Word
BY ConstantsAssumption DEF ConstantsAssumption

LEMMA DivBounds ==
    ASSUME NEW a \in Int, NEW b \in Nat \ {0}
    PROVE  a \div b \in Int /\ (a \div b) * b <= a /\ a < (a \div b) * b + b
OBVIOUS

LEMMA SumIs ==
    ASSUME alpha20Bit \in Alphas \cup {0}, NEW acc \in Int, NEW x \in Int
    PROVE  /\ Sum(acc, x) \in Int /\ Target(x) \in Int
           /\ Sum(acc, x) = acc * (1 + alpha20Bit) + Target(x)
BY Alpha DEF Sum, OneMinusAlpha40Bit, Target

LEMMA TargetBounds ==
    ASSUME alpha20Bit \in Alphas \cup {0}, NEW x \in Inputs
    PROVE  /\ Target(-MaxInput) <= Target(x) /\ Target(x) <= Target(MaxInput - 1)
           /\ Target(-MaxInput) \in Int /\ Target(x) \in Int /\ Target(MaxInput - 1) \in Int
           /\ x \in Int
<1>1. PICK k \in Nat : k = Scale * (Scale - alpha20Bit)
  BY Alpha
<1>2. \A v \in Int : Target(v) = v * k
  BY <1>1, Alpha DEF Target
<1>3. /\ x \in Int /\ MaxInput \in Int /\ -MaxInput <= x /\ x <= MaxInput - 1
  BY Alpha DEF Inputs
<1>4. (-MaxInput) * k <= x * k /\ x * k <= (MaxInput - 1) * k
  BY <1>3
<1>5. (-MaxInput) * k \in Int /\ x * k \in Int /\ (MaxInput - 1) * k \in Int
  BY <1>3
<1>6. Target(-MaxInput) = (-MaxInput) * k /\ Target(MaxInput - 1) = (MaxInput - 1) * k
  BY <1>2, <1>3
<1>7. Target(x) = x * k
  BY <1>2, <1>3
<1> QED BY <1>3, <1>4, <1>5, <1>6, <1>7

\* The value before the shift fits as long as the accumulator is within.
LEMMA SumFits ==
    ASSUME alpha20Bit \in Alphas \cup {0}, alpha20Bit < Scale - 1,
           NEW acc \in Int, Within(acc), NEW x \in Inputs
    PROVE  Fits(Sum(acc, x))
<1> DEFINE S == Scale
           M == MaxInput
           a == alpha20Bit
           w == Weight
           sum == Sum(acc, x)
           low == Target(-MaxInput)
           high == Target(MaxInput - 1)
<1>1. /\ S \in Nat \ {0} /\ M \in Nat \ {0} /\ a \in Nat /\ w \in Nat \ {0}
      /\ a = S - 1 - w /\ Word \in Nat /\ 2 * M * S * S <= Word
  BY Alpha DEF Weight
<1>2. sum \in Int /\ sum = acc * (1 + a) + Target(x)
  BY SumIs, TargetBounds
<1>3. /\ low <= Target(x) /\ Target(x) <= high
      /\ Target(x) \in Int /\ low \in Int /\ high \in Int
  BY TargetBounds
<1>4. low = -(M * S * (w + 1)) /\ high = (M - 1) * S * (w + 1)
  BY <1>1 DEF Target
<1>5. acc * w <= high /\ acc * w >= low - w + 1
  BY <1>1, <1>3 DEF Within
<1>6. sum * w = (acc * w) * (1 + a) + Target(x) * w
  BY <1>1, <1>2, <1>3
<1> HIDE DEF low, high, sum, w, a
<1>7. sum <= Word - 1
  <2>1. (acc * w) * (1 + a) <= high * (1 + a)
    BY <1>1, <1>3, <1>5
  <2>2. Target(x) * w <= high * w
    BY <1>1, <1>3
  <2>3. sum * w <= high * S
    <3>1. high * (1 + a) + high * w = high * S
      BY <1>1, <1>3
    <3> QED BY <1>1, <1>2, <1>3, <1>6, <2>1, <2>2, <3>1
  <2>4. high * S = ((M - 1) * S * S) * (w + 1)
    BY <1>1, <1>4
  <2>5. ((M - 1) * S * S) * (w + 1) <= (2 * (M - 1) * S * S) * w
    <3>1. (M - 1) * S * S \in Nat
      BY <1>1
    <3> QED BY <1>1, <3>1
  <2>6. sum * w <= (2 * (M - 1) * S * S) * w
    BY <1>1, <1>2, <1>3, <2>3, <2>4, <2>5
  <2>7. sum <= 2 * (M - 1) * S * S
    BY <1>1, <1>2, <2>6
  <2>8. 2 * (M - 1) * S * S = 2 * M * S * S - 2 * S * S /\ S * S >= 1
    BY <1>1
  <2> QED BY <1>1, <1>2, <2>7, <2>8
<1>8. sum >= -Word
  <2>1. (acc * w) * (1 + a) >= (low - w + 1) * (1 + a)
    BY <1>1, <1>3, <1>5
  <2>2. Target(x) * w >= low * w
    BY <1>1, <1>3
  <2>3. sum * w >= low * S - (w - 1) * (1 + a)
    <3>1. (low - w + 1) * (1 + a) + low * w = low * S - (w - 1) * (1 + a)
      BY <1>1, <1>3
    <3> QED BY <1>1, <1>2, <1>3, <1>6, <2>1, <2>2, <3>1
  <2> DEFINE q == M * S * S
  <2>4. q \in Nat /\ 1 + a <= S /\ S <= q
    <3>1. S <= S * S /\ S * S \in Nat
      BY <1>1
    <3>2. S * S <= M * (S * S)
      BY <1>1, <3>1
    <3> QED BY <1>1, <3>1, <3>2
  <2>5. low * S = -(q * (w + 1))
    BY <1>1, <1>4
  <2> HIDE DEF q
  <2>6. (w - 1) * (1 + a) <= (w - 1) * q
    BY <1>1, <2>4
  <2>7. sum * w >= -((2 * q) * w)
    BY <1>1, <1>2, <1>3, <2>3, <2>4, <2>5, <2>6
  <2>8. sum >= -(2 * q)
    BY <1>1, <1>2, <2>4, <2>7
  <2> QED BY <1>1, <1>2, <2>8 DEF q
<1> QED BY <1>1, <1>2, <1>7, <1>8 DEF Fits, sum

\* One element moves the accumulator towards the steady state of its input.
LEMMA Moves ==
    ASSUME alpha20Bit \in Alphas \cup {0}, alpha20Bit < Scale - 1,
           NEW acc \in Int, Within(acc), NEW x \in Inputs
    PROVE  /\ Filtered(acc, x) \in Int
           /\ IF acc * Weight <= Target(x)
              THEN acc <= Filtered(acc, x) /\ Filtered(acc, x) * Weight <= Target(x)
              ELSE Filtered(acc, x) < acc /\ (Filtered(acc, x) + 1) * Weight > Target(x)
<1> DEFINE S == Scale
           b == 1 + alpha20Bit
           w == Weight
           new == Filtered(acc, x)
           sum == Sum(acc, x)
           t == Target(x)
<1>1. S \in Nat \ {0} /\ b \in Nat \ {0} /\ w \in Nat \ {0} /\ b = S - w
  BY Alpha DEF Weight
<1>2. sum \in Int /\ t \in Int /\ sum = acc * b + t
  BY SumIs, TargetBounds
<1>3. Wrap(sum) = sum
  BY SumFits, Alpha, <1>2 DEF Wrap, Fits
<1>4. new \in Int /\ new * S <= sum /\ sum < new * S + S
  BY <1>1, <1>2, <1>3, DivBounds DEF Filtered, Shifted
<1> HIDE DEF S, b, w, new, sum, t
<1>5. CASE acc * w <= t
  <2>1. acc * S <= sum
    BY <1>1, <1>2, <1>5
  <2>2. acc * S < (new + 1) * S
    BY <1>1, <1>2, <1>4, <2>1
  <2>3. acc <= new
    BY <1>1, <1>4, <2>2
  <2>4. acc * b <= new * b
    BY <1>1, <1>4, <2>3
  <2>5. new * w <= t
    BY <1>1, <1>2, <1>4, <2>4
  <2> QED BY <1>4, <1>5, <2>3, <2>5 DEF new, w, t
<1>6. CASE ~(acc * w <= t)
  <2>1. sum < acc * S
    BY <1>1, <1>2, <1>6
  <2>2. new * S < acc * S
    BY <1>1, <1>2, <1>4, <2>1
  <2>3. new < acc
    BY <1>1, <1>4, <2>2
  <2>4. acc * b >= (new + 1) * b
    BY <1>1, <1>4, <2>3
  <2>5. (new + 1) * w > t
    BY <1>1, <1>2, <1>4, <2>4
  <2> QED BY <1>4, <1>6, <2>3, <2>5 DEF new, w, t
<1> QED BY <1>5, <1>6

LEMMA StaysWithin ==
    ASSUME alpha20Bit \in Alphas \cup {0}, alpha20Bit < Scale - 1,
           NEW acc \in Int, Within(acc), NEW x \in Inputs
    PROVE  Filtered(acc, x) \in Int /\ Within(Filtered(acc, x))
<1> DEFINE new == Filtered(acc, x)
           w == Weight
<1>1. w \in Nat \ {0}
  BY Alpha DEF Weight
<1>2. /\ Target(-MaxInput) <= Target(x) /\ Target(x) <= Target(MaxInput - 1)
      /\ Target(-MaxInput) \in Int /\ Target(x) \in Int /\ Target(MaxInput - 1) \in Int
  BY TargetBounds
<1>3. /\ new \in Int
      /\ acc * w <= Target(x) => acc <= new /\ new * w <= Target(x)
      /\ ~(acc * w <= Target(x)) => new < acc /\ (new + 1) * w > Target(x)
  BY Moves
<1>4. acc * w <= Target(MaxInput - 1) /\ (acc + 1) * w > Target(-MaxInput)
  BY DEF Within
<1> HIDE DEF new, w
<1>5. CASE acc * w <= Target(x)
  <2>1. (acc + 1) * w <= (new + 1) * w
    BY <1>1, <1>3, <1>5
  <2> QED BY <1>1, <1>2, <1>3, <1>4, <1>5, <2>1 DEF Within, new, w
<1>6. CASE ~(acc * w <= Target(x))
  <2>1. new * w <= acc * w /\ new * w \in Int /\ acc * w \in Int /\ (new + 1) * w \in Int
    BY <1>1, <1>3, <1>6
  <2>2. new * w <= Target(MaxInput - 1)
    BY <1>2, <1>4, <2>1
  <2>3. (new + 1) * w > Target(-MaxInput)
    BY <1>2, <1>3, <1>6, <2>1
  <2> QED BY <1>3, <2>2, <2>3 DEF Within, new, w
<1> QED BY <1>5, <1>6
-----------------------------------------------------------------------------
IInv ==
    /\ TypeOK
    /\ phase \in {"Created", "Initialised"} => s = 1 /\ i = 1
    /\ accumulator = [n \in DOMAIN accumulator |-> accumulator[n]]
    /\ output = [n \in DOMAIN output |-> output[n]]
    /\ phase = "Running" /\ alpha20Bit < Scale - 1 =>
          \A n \in DOMAIN accumulator : Within(accumulator[n])

LEMMA Lengths ==
    ASSUME config \in Configurations
    PROVE  /\ NumberOfSignals \in Nat /\ DOMAIN config.inputs = 1 .. NumberOfSignals
           /\ \A n \in DOMAIN config.inputs : Size(config.inputs[n]) \in Nat
           /\ config.inputs # << >> => 1 \in DOMAIN config.inputs
<1> DEFINE Sig == [type : STRING, samples : Nat \ {0}, elements : Nat \ {0}]
<1>1. config.inputs \in Seq(Sig)
  BY ConstantsAssumption DEF ConstantsAssumption
<1>2. \A r \in Sig : Size(r) \in Nat
  BY DEF Size
<1> HIDE DEF Sig
<1> QED BY <1>1, <1>2 DEF NumberOfSignals

LEMMA InitIInv == Init => IInv
BY DEF Init, IInv, TypeOK

LEMMA SetupStep == ASSUME IInv, Setup PROVE IInv'
<1>1. /\ config \in Configurations /\ alpha20Bit \in Alphas \cup {0}
      /\ UNCHANGED <<config, alpha20Bit, s, i>> /\ s = 1 /\ i = 1
  BY DEF IInv, TypeOK, Setup
<1>2. CASE SetupAccepts(config)
  <2>1. /\ phase' \in {"Running", "Failed"}
        /\ accumulator' = [n \in DOMAIN config.inputs |-> 0]
        /\ output' = [n \in DOMAIN config.inputs |-> 0]
        /\ numberOfElements' = IF config.inputs = << >> THEN 0 ELSE Size(config.inputs[1])
    BY <1>2 DEF Setup
  <2>2. numberOfElements' \in Nat
    BY <1>1, <2>1, Lengths
  <2>3. NumberOfSignals' = NumberOfSignals
    BY <1>1 DEF NumberOfSignals
  <2>4. TypeOK'
    BY <1>1, <2>1, <2>2, <2>3, Lengths DEF TypeOK
  <2>5. alpha20Bit < Scale - 1 => Within(0)
    <3>1. 0 \in Inputs /\ 0 - 1 < 0
      BY Alpha, <1>1 DEF Inputs
    <3>2. Target(0) = 0
      BY Alpha, <1>1 DEF Target
    <3>3. alpha20Bit < Scale - 1 => Weight \in Nat \ {0}
      BY Alpha, <1>1 DEF Weight
    <3> QED BY <1>1, <3>1, <3>2, <3>3, TargetBounds DEF Within
  <2>6. alpha20Bit' < Scale - 1 => \A n \in DOMAIN accumulator' : Within(accumulator[n])'
    BY <1>1, <2>1, <2>5 DEF Within, Weight, Target
  <2> QED BY <1>1, <2>1, <2>4, <2>6 DEF IInv
<1>3. CASE ~SetupAccepts(config)
  BY <1>1, <1>3 DEF Setup, IInv, TypeOK
<1> QED BY <1>2, <1>3

LEMMA FilterStep == ASSUME IInv, FilterElement PROVE IInv'
<1>1. PICK x \in Inputs : accumulator' = [accumulator EXCEPT ![s] = Filtered(@, x)]
  BY DEF FilterElement
<1>2. /\ phase = "Running" /\ NumberOfSignals > 0 /\ i <= numberOfElements /\ i' = i + 1
      /\ UNCHANGED <<phase, config, alpha20Bit, numberOfElements, output, s>>
  BY DEF FilterElement
<1>3. NumberOfSignals' = NumberOfSignals
  BY <1>2 DEF NumberOfSignals
<1>4. /\ config \in Configurations /\ alpha20Bit \in Alphas \cup {0} /\ numberOfElements \in Nat
      /\ DOMAIN accumulator = 1 .. NumberOfSignals /\ s \in DOMAIN accumulator
      /\ i \in 1 .. numberOfElements + 1 /\ accumulator[s] \in Int
      /\ \A n \in DOMAIN accumulator : accumulator[n] \in Int
  BY <1>2 DEF IInv, TypeOK
<1>5. /\ DOMAIN accumulator' = DOMAIN accumulator
      /\ accumulator'[s] = Filtered(accumulator[s], x)
      /\ \A n \in DOMAIN accumulator : n # s => accumulator'[n] = accumulator[n]
      /\ accumulator' = [n \in DOMAIN accumulator' |-> accumulator'[n]]
  BY <1>1, <1>4
<1>6. Filtered(accumulator[s], x) \in Int
  <2>1. Sum(accumulator[s], x) \in Int /\ Word \in Nat /\ Scale \in Nat \ {0}
    BY <1>4, SumIs, Alpha DEF Inputs
  <2>2. Word # 0
    BY <2>1, Alpha, <1>4
  <2>3. Wrap(Sum(accumulator[s], x)) \in Int
    BY <2>1, <2>2 DEF Wrap
  <2> QED BY <2>1, <2>3, DivBounds DEF Filtered, Shifted
<1>7. TypeOK'
  BY <1>2, <1>3, <1>4, <1>5, <1>6 DEF IInv, TypeOK
<1>8. alpha20Bit < Scale - 1 => \A n \in DOMAIN accumulator' : Within(accumulator'[n])
  BY <1>2, <1>4, <1>5, StaysWithin DEF IInv
<1>9. alpha20Bit' < Scale - 1 => \A n \in DOMAIN accumulator' : Within(accumulator[n])'
  BY <1>2, <1>8 DEF Within, Weight, Target
<1> QED BY <1>2, <1>5, <1>7, <1>9 DEF IInv

LEMMA OutputStep == ASSUME IInv, WriteOutput PROVE IInv'
<1>1. /\ phase = "Running" /\ NumberOfSignals > 0
      /\ output' = [output EXCEPT ![s] = accumulator[s]]
      /\ s' = IF s = NumberOfSignals THEN 1 ELSE s + 1
      /\ i' = 1 /\ UNCHANGED <<phase, config, alpha20Bit, numberOfElements, accumulator>>
  BY DEF WriteOutput, NextSignal
<1>2. NumberOfSignals' = NumberOfSignals
  BY <1>1 DEF NumberOfSignals
<1>3. /\ config \in Configurations /\ numberOfElements \in Nat /\ NumberOfSignals \in Nat
      /\ s \in 1 .. NumberOfSignals
  BY <1>1, Lengths DEF IInv, TypeOK
<1>4. TypeOK'
  BY <1>1, <1>2, <1>3 DEF IInv, TypeOK
<1>5. output' = [n \in DOMAIN output' |-> output'[n]]
  BY <1>1
<1> QED BY <1>1, <1>4, <1>5 DEF IInv, Within, Weight, Target

LEMMA Invariant == Spec => []IInv
<1>1. IInv /\ [Next]_vars => IInv'
  <2>1. ASSUME IInv, Initialise PROVE IInv'
    BY <2>1 DEF Initialise, IInv, TypeOK, NumberOfSignals
  <2>2. ASSUME IInv, UNCHANGED vars PROVE IInv'
    BY <2>2 DEF vars, IInv, TypeOK, NumberOfSignals, Within, Weight, Target
  <2> QED BY <2>1, <2>2, SetupStep, FilterStep, OutputStep DEF Next
<1> QED BY <1>1, InitIInv, PTL DEF Spec
-----------------------------------------------------------------------------
\* Every variable keeps its type; s and i stay inside the signals.
THEOREM TypeCorrect == Spec => []TypeOK
<1>1. IInv => TypeOK
  BY DEF IInv
<1> QED BY <1>1, Invariant, PTL

\* The sum of Execute fits an int64 in every cycle.
THEOREM OverflowCorrect == Spec => []NoOverflow
<1>1. IInv => NoOverflow
  <2> SUFFICES ASSUME IInv, phase = "Running", alpha20Bit < Scale - 1,
                      NEW n \in DOMAIN accumulator, NEW x \in Inputs
      PROVE  Sum(accumulator[n], x) \in -Word .. Word - 1
    BY DEF NoOverflow
  <2> QED BY SumFits DEF IInv, TypeOK, Fits
<1> QED BY <1>1, Invariant, PTL

\* An input moves the accumulator towards its steady state and not past it.
THEOREM MovesCorrect == Spec => []MovesTowardsInput
<1>1. IInv => MovesTowardsInput
  <2> SUFFICES ASSUME IInv, phase = "Running", alpha20Bit < Scale - 1,
                      NEW n \in DOMAIN accumulator, NEW x \in Inputs
      PROVE  LET w == Scale - 1 - alpha20Bit
                 target == x * Scale * (Scale - alpha20Bit)
                 old == accumulator[n]
                 new == Filtered(old, x)
             IN  IF old * w <= target
                 THEN old <= new /\ new * w <= target
                 ELSE new < old /\ (new + 1) * w > target
    BY DEF MovesTowardsInput
  <2> QED BY Moves DEF IInv, TypeOK, Weight, Target
<1> QED BY <1>1, Invariant, PTL

\* The outputs are values that the accumulators had.
OutputInv ==
    phase = "Running" /\ alpha20Bit < Scale - 1 =>
        \A n \in DOMAIN output : Within(output[n])

LEMMA OutputInvStep == ASSUME IInv, OutputInv, [Next]_vars PROVE OutputInv'
<1>1. CASE Initialise
  BY <1>1 DEF Initialise, OutputInv
<1>2. CASE Setup
  <2>1. phase' = "Running" => output' = accumulator'
    BY <1>2 DEF Setup
  <2>2. IInv'
    BY <1>2, SetupStep
  <2> QED BY <2>1, <2>2 DEF IInv, OutputInv, Within, Weight, Target
<1>3. CASE FilterElement
  BY <1>3 DEF FilterElement, OutputInv, Within, Weight, Target
<1>4. CASE WriteOutput
  <2>1. /\ UNCHANGED <<phase, alpha20Bit>> /\ phase = "Running"
        /\ output' = [output EXCEPT ![s] = accumulator[s]]
    BY <1>4 DEF WriteOutput
  <2>2. alpha20Bit < Scale - 1 => \A n \in DOMAIN output' : Within(output'[n])
    <3>1. \A n \in DOMAIN output' : /\ n \in DOMAIN accumulator /\ n \in DOMAIN output
                                   /\ output'[n] \in {accumulator[n], output[n]}
      BY <2>1 DEF IInv, TypeOK
    <3> QED BY <2>1, <3>1 DEF IInv, OutputInv
  <2> QED BY <2>1, <2>2 DEF OutputInv, Within, Weight, Target
<1>5. CASE UNCHANGED vars
  BY <1>5 DEF vars, OutputInv, Within, Weight, Target
<1> QED BY <1>1, <1>2, <1>3, <1>4, <1>5 DEF Next

\* However long the filter runs on whatever inputs, its accumulator, and so its output,
\* stays between the steady states of the smallest and the largest input.
THEOREM Bounded ==
    Spec => [](phase = "Running" /\ alpha20Bit < Scale - 1 =>
                  \A n \in DOMAIN accumulator : Within(accumulator[n]) /\ Within(output[n]))
<1>1. Init => OutputInv
  BY DEF Init, OutputInv
<1>2. IInv /\ OutputInv /\ [Next]_vars => OutputInv'
  BY OutputInvStep
<1>3. IInv /\ OutputInv =>
         (phase = "Running" /\ alpha20Bit < Scale - 1 =>
             \A n \in DOMAIN accumulator : Within(accumulator[n]) /\ Within(output[n]))
  BY DEF IInv, TypeOK, OutputInv
<1> QED BY <1>1, <1>2, <1>3, Invariant, PTL DEF Spec

\* With the largest value of alpha below 1 the filter is none: as long as the sum fits,
\* it adds up its inputs for ever, which is why the bounds leave that value out
\* (FilterDownsamplingGAM.cpp:234-237).
THEOREM LargestAlphaIntegrates ==
    ASSUME alpha20Bit = Scale - 1, NEW acc \in Int, NEW x \in Inputs, Fits(Sum(acc, x))
    PROVE  Filtered(acc, x) = acc + x
<1>1. Scale \in Nat \ {0} /\ Word \in Nat /\ acc \in Int /\ x \in Int
  BY ConstantsAssumption DEF ConstantsAssumption, Inputs
<1>2. Sum(acc, x) = (acc + x) * Scale
  BY <1>1 DEF Sum, OneMinusAlpha40Bit
<1>3. Sum(acc, x) \in Int
  BY <1>1, <1>2
<1>4. Wrap(Sum(acc, x)) = (acc + x) * Scale
  BY <1>1, <1>2, <1>3 DEF Wrap, Fits
<1>5. acc + x \in Int
  BY <1>1
<1>6. ASSUME NEW v \in Int PROVE (v * Scale) \div Scale = v
  <2> DEFINE d == (v * Scale) \div Scale
  <2>1. d \in Int /\ d * Scale <= v * Scale /\ v * Scale < d * Scale + Scale
    BY <1>1, DivBounds
  <2> HIDE DEF d
  <2>2. d <= v
    BY <1>1, <2>1
  <2>3. v * Scale < (d + 1) * Scale
    BY <1>1, <2>1
  <2>4. v < d + 1
    BY <1>1, <2>1, <2>3
  <2> QED BY <2>1, <2>2, <2>4 DEF d
<1> QED BY <1>4, <1>5, <1>6 DEF Filtered, Shifted
=============================================================================
