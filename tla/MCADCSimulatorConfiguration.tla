------------------- MODULE MCADCSimulatorConfiguration -------------------
(* ADCSimulatorConfiguration with up to two GAMs that read up to two signals, and
   with a configuration for each reason to reject it.  Frequencies are in halves of a
   Hz, and float32s have three significant bits. *)
EXTENDS ADCSimulatorConfiguration

MCFloat32s == {m * e : m \in -7 .. 7, e \in {1, 2, 4, 8, 16}}

MCReadADC == [signal : {2}, samples : {2, 3}, frequency : {-2, 1, 3}]
MCRead == [signal : {Counter, Timer}, samples : {1, 2}, frequency : {-2, 3}] \cup MCReadADC
MCFunctions == {<< >>} \cup {<<r>> : r \in MCRead} \cup {<<r, s>> : r \in MCRead, s \in MCReadADC}

MCConfiguration(functions, rate) ==
    [sleepNature |-> "Busy", sleepPercentage |-> 50, frequencies |-> 4, gains |-> 4,
     adcFrequency |-> rate, stackSize |-> NotSet, functions |-> functions,
     signals |-> <<"uint32", "uint32", "int32", "int32", "int32", "int32">>]

MCBase == MCConfiguration(<<<<[signal |-> 2, samples |-> 2, frequency |-> 6]>>>>, 6)
MCVariants ==
    {[MCBase EXCEPT !.sleepNature = nature, !.sleepPercentage = percentage] :
        nature \in {"Busy", "Default", "Lazy", NotSet}, percentage \in {NotSet, 0, 100, 101}}
    \cup {[MCBase EXCEPT !.frequencies = 3], [MCBase EXCEPT !.gains = 5],
          [MCBase EXCEPT !.adcFrequency = 5], [MCBase EXCEPT !.adcFrequency = NotSet],
          [MCBase EXCEPT !.stackSize = 0], [MCBase EXCEPT !.functions = << >>],
          [MCBase EXCEPT !.signals = <<"uint32">>],
          [MCBase EXCEPT !.signals[1] = "int32"], [MCBase EXCEPT !.signals[6] = "uint32"]}

MCConfigurations ==
    {MCConfiguration(<<f, g>>, a) :
        f \in MCFunctions, g \in {<< >>} \cup {<<r>> : r \in MCReadADC}, a \in {1, 3, 4}}
    \cup MCVariants
=============================================================================
