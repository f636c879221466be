------------------------- MODULE FilterDownsampling -------------------------
(***************************************************************************)
(* FilterDownsamplingGAM: a first order filter in fixed point arithmetic.  *)
(* Every cycle Execute filters a buffer of int16 samples of each signal    *)
(* and outputs the last value of its accumulator.                          *)
(*                                                                         *)
(* Scale stands for 2^20 and Word for 2^63; the shift is the arithmetic    *)
(* one and an overflow wraps.  exp and the gain are left out.              *)
(***************************************************************************)
EXTENDS Integers, Sequences

CONSTANTS
    Scale, Word,
    MaxInput,        \* the inputs are in -MaxInput .. MaxInput - 1
    Alphas,          \* the values alpha20Bit may have
    Configurations   \* the signals the GAM may be configured with

\* 2 * 2^15 * 2^40 is 2^56, well below 2^63.
ASSUME ConstantsAssumption ==
    /\ Scale \in Nat \ {0} /\ Word \in Nat /\ MaxInput \in Nat \ {0}
    /\ 2 * MaxInput * Scale * Scale <= Word
    /\ Alphas \subseteq 0 .. Scale - 1
    /\ \A c \in Configurations :
          LET signals == Seq([type : STRING, samples : Nat \ {0}, elements : Nat \ {0}])
          IN  c.inputs \in signals /\ c.outputs \in signals

VARIABLES
    phase,
    config,            \* the signals, as set in the configuration file
    alpha20Bit,
    numberOfElements,  \* of every input signal
    accumulator, output,
    s, i               \* signal and element that Execute filters next

vars == <<phase, config, alpha20Bit, numberOfElements, accumulator, output, s, i>>

Inputs == -MaxInput .. MaxInput - 1
NumberOfSignals == Len(config.inputs)

Init ==
    /\ phase = "Created" /\ config \in Configurations
    /\ alpha20Bit = 0 /\ numberOfElements = 0
    /\ accumulator = << >> /\ output = << >>
    /\ s = 1 /\ i = 1
-----------------------------------------------------------------------------
\* The frequencies are given and not 0; alpha20Bit is truncated, so it is below Scale.
Initialise ==
    /\ phase = "Created"
    /\ \/ phase' = "Initialised" /\ alpha20Bit' \in Alphas
       \/ phase' = "Failed" /\ UNCHANGED alpha20Bit
    /\ UNCHANGED <<config, numberOfElements, accumulator, output, s, i>>

\* Samples per cycle of a signal; with one sample, its elements.
Size(signal) == IF signal.samples = 1 THEN signal.elements ELSE signal.samples

\* The loops over the signals look at the type of signal 0 every time.
TypesChecked(c) ==
    Len(c.inputs) > 0 => c.inputs[1].type = "int16" /\ c.outputs[1].type = "float64"

SetupAccepts(c) ==
    /\ Len(c.inputs) = Len(c.outputs)
    /\ TypesChecked(c)
    /\ \A n \in DOMAIN c.inputs : Size(c.inputs[n]) = Size(c.inputs[1])
    /\ \A n \in DOMAIN c.outputs :
          c.outputs[n].samples = 1 /\ c.outputs[n].elements = 1

\* Reading the gains, the last step of Setup, may fail.
Setup ==
    /\ phase = "Initialised"
    /\ IF SetupAccepts(config)
       THEN /\ phase' \in {"Running", "Failed"}
            /\ accumulator' = [n \in DOMAIN config.inputs |-> 0]
            /\ output' = accumulator'
            /\ numberOfElements' =
                  IF config.inputs = << >> THEN 0 ELSE Size(config.inputs[1])
       ELSE /\ phase' = "Failed"
            /\ UNCHANGED <<numberOfElements, accumulator, output>>
    /\ UNCHANGED <<config, alpha20Bit, s, i>>
-----------------------------------------------------------------------------
\* (faulty) alpha is not scaled from 20 to 40 bits.
OneMinusAlphaUnscaled == Scale * Scale - alpha20Bit

OneMinusAlpha40Bit == Scale * Scale - alpha20Bit * Scale

\* The accumulator before the shift: the previous value, its product by alpha and
\* the product of the input by 1 - alpha.
Sum(acc, x) == acc + acc * alpha20Bit + x * OneMinusAlpha40Bit

Wrap(v) == ((v + Word) % (2 * Word)) - Word

\* (faulty) The accumulator is shifted one bit short.
ShiftedLess(v) == v \div (Scale \div 2)

Shifted(v) == v \div Scale

Filtered(acc, x) == Shifted(Wrap(Sum(acc, x)))

\* One turn of the inner loop of Execute.
FilterElement ==
    /\ phase = "Running" /\ NumberOfSignals > 0
    /\ i <= numberOfElements
    /\ \E x \in Inputs : accumulator' = [accumulator EXCEPT ![s] = Filtered(@, x)]
    /\ i' = i + 1
    /\ UNCHANGED <<phase, config, alpha20Bit, numberOfElements, output, s>>

\* (faulty) The signals are not started again from the first one.
NextSignalUnwrapped == s + 1

NextSignal == IF s = NumberOfSignals THEN 1 ELSE s + 1

\* The end of a turn of the outer loop; after the last signal Execute returns, and
\* is called again in the next cycle.
WriteOutput ==
    /\ phase = "Running" /\ NumberOfSignals > 0
    /\ i > numberOfElements
    /\ output' = [output EXCEPT ![s] = accumulator[s]]
    /\ s' = NextSignal /\ i' = 1
    /\ UNCHANGED <<phase, config, alpha20Bit, numberOfElements, accumulator>>

Next == Initialise \/ Setup \/ FilterElement \/ WriteOutput

Spec == Init /\ [][Next]_vars
-----------------------------------------------------------------------------
TypeOK ==
    /\ phase \in {"Created", "Initialised", "Running", "Failed"}
    /\ config \in Configurations
    /\ alpha20Bit \in Alphas \cup {0}
    /\ numberOfElements \in Nat
    /\ DOMAIN accumulator = DOMAIN output
    /\ \A n \in DOMAIN accumulator : accumulator[n] \in Int /\ output[n] \in Int
    /\ phase = "Running" =>
          /\ DOMAIN accumulator = 1 .. NumberOfSignals
          /\ NumberOfSignals > 0 => s \in 1 .. NumberOfSignals
          /\ i \in 1 .. numberOfElements + 1

\* Whatever the inputs and however long the filter runs, the sum fits an int64
\* before the shift, if alpha is not the largest value below 1 (with that one the
\* code adds up its inputs for ever).
NoOverflow ==
    phase = "Running" /\ alpha20Bit < Scale - 1 =>
        \A n \in DOMAIN accumulator, x \in Inputs :
            Sum(accumulator[n], x) \in -Word .. Word - 1

\* The filter is stable and does not overshoot: an input moves the accumulator
\* towards its steady state, never past it (the shift rounds down).  Because the
\* code adds the accumulator as well as its product by alpha, the steady state of
\* an input x is x * Scale * (Scale - alpha) / (Scale - 1 - alpha).
MovesTowardsInput ==
    phase = "Running" /\ alpha20Bit < Scale - 1 =>
        \A n \in DOMAIN accumulator, x \in Inputs :
            LET weight == Scale - 1 - alpha20Bit
                target == x * Scale * (Scale - alpha20Bit)
                old == accumulator[n]
                new == Filtered(old, x)
            IN  IF old * weight <= target
                THEN old <= new /\ new * weight <= target
                ELSE new < old /\ (new + 1) * weight > target

\* "Verifies that ... GetSignalType(InputSignals, *) == SignedInteger16Bit": the
\* GAM runs only if every input is an int16.
AllInputsVerified ==
    phase = "Running" => \A n \in DOMAIN config.inputs : config.inputs[n].type = "int16"
=============================================================================
