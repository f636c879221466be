----------------------------- MODULE StreamOut -----------------------------
(***************************************************************************)
(* The StreamOut data source: every cycle Synchronise stores one sample of *)
(* each signal in a buffer, and each time the buffer is full it sends the  *)
(* block of every signal but the time as one MDSplus event, with the times *)
(* of its samples.                                                         *)
(*                                                                         *)
(* The GAM before it writes the signal memory: Sample(n, k) is what it     *)
(* writes for signal n in cycle k.  The buffers and the times of an event  *)
(* are float32s.  Samples are whole numbers (microseconds for the time),   *)
(* the times of an event are in units of 1 / UnitsPerSecond s.             *)
(***************************************************************************)
EXTENDS Integers, Sequences, Float32

CONSTANTS
    Configurations,  \* the configurations the data source may be given
    NotSet,          \* a parameter that is absent
    Word,            \* number of values of a 32 bit word
    TimeStep,        \* time from one cycle to the next, as told by the time signal
    MicrosPerSecond, \* 1E6 in the code
    UnitsPerSecond,  \* a power of two, for units finer than the float32s of the times
    MaxCycles        \* bound on the cycles of a run

\* TimeIdx is the index of a signal, if it is set: the code does not check it.
ASSUME ConstantsAssumption ==
    /\ MicrosPerSecond \in Nat \ {0} /\ UnitsPerSecond \in Nat \ {0}
    /\ Word \in Nat \ {0} /\ TimeStep \in Nat /\ MaxCycles \in Nat
    /\ \A c \in Configurations :
          /\ DOMAIN c = {"functions", "functionSignals", "timeIdx", "eventDivision", "signals"}
          /\ c.eventDivision \in Nat \cup {NotSet}
          /\ c.timeIdx \in {n - 1 : n \in DOMAIN c.signals} \cup {NotSet}
          /\ \A n \in DOMAIN c.signals :
                DOMAIN c.signals[n] = {"type", "samples", "elements"}

VARIABLES
    phase, config,
    bufSamples, bufIdx,
    streamBuffers,  \* of each signal, from 0 to bufSamples - 1
    counter,
    sent            \* history: the samples sent for each signal, with their times

vars == <<phase, config, bufSamples, bufIdx, streamBuffers, counter, sent>>

\* The signals are numbered from 0, as in the code.
Signals == {n - 1 : n \in DOMAIN config.signals}
TimeIdx == config.timeIdx
Type(n) == config.signals[n + 1].type

Floats == {"float32", "float64"}
SupportedTypes == Floats \cup {"uint32", "int32", "uint64", "int64"}

Init ==
    /\ phase = "Created" /\ config \in Configurations
    /\ bufSamples = 1 /\ bufIdx = 0 /\ streamBuffers = << >>
    /\ counter = 0 /\ sent = << >>
-----------------------------------------------------------------------------
\* EventDivision is optional, and 0 stands for 1.
BufSamples(division) == IF division \in {NotSet, 0} THEN 1 ELSE division

Initialise ==
    /\ phase = "Created"
    /\ phase' = IF TimeIdx = NotSet THEN "Failed" ELSE "Initialised"
    /\ bufSamples' =
          IF TimeIdx = NotSet THEN bufSamples ELSE BufSamples(config.eventDivision)
    /\ UNCHANGED <<config, bufIdx, streamBuffers, counter, sent>>

Accepts(c) ==
    /\ c.functions = 1
    /\ c.functionSignals > 1 /\ c.functionSignals = Len(c.signals)
    /\ \A n \in DOMAIN c.signals :
          /\ c.signals[n].type \in SupportedTypes
          /\ c.signals[n].samples = 1 /\ c.signals[n].elements = 1

\* Malloc leaves the buffers uninitialised: any value stands for the others.
SetConfiguredDatabase ==
    /\ phase = "Initialised"
    /\ IF Accepts(config)
       THEN /\ phase' = "Running"
            /\ streamBuffers' = [n \in Signals |-> [i \in 0 .. bufSamples - 1 |-> 0]]
            /\ sent' = [n \in Signals \ {TimeIdx} |-> << >>]
       ELSE /\ phase' = "Failed"
            /\ UNCHANGED <<streamBuffers, sent>>
    /\ bufIdx' = 0
    /\ UNCHANGED <<config, bufSamples, counter>>
-----------------------------------------------------------------------------
Sample(n, k) == IF n = TimeIdx THEN k * TimeStep ELSE k

ToInt32(v) ==
    LET bits == v % Word IN IF bits < Word - bits THEN bits ELSE bits - Word

\* Everything that is not a float is read as an int32, and kept as a float32.
Stored(n, v) == Nearest(IF Type(n) \in Floats THEN v ELSE ToInt32(v))

\* (faulty) The index does not wrap.
NextIdxUnwrapped == bufIdx + 1

NextIdx == (bufIdx + 1) % bufSamples

\* (faulty) The index is advanced before the samples are stored.
SlotAfterAdvance == NextIdx

Slot == bufIdx

\* (faulty) The block is sent when one sample is still missing.
BlockCompleteEarly == NextIdx = bufSamples - 1

BlockComplete == NextIdx = 0

\* A time in seconds: the division is of float64s, its result a float32.
Seconds(t) == NearestRatio(t * UnitsPerSecond, MicrosPerSecond)

\* The event of signal n: all the buffer, in order, with the times.
Block(n, buffers) ==
    [i \in 1 .. bufSamples |->
        [time |-> Seconds(buffers[TimeIdx][i - 1]), value |-> buffers[n][i - 1]]]

\* GetSignalName cannot fail for a signal that exists, so every event is sent.
Synchronise ==
    /\ phase = "Running"
    /\ counter < MaxCycles
    /\ streamBuffers' = [n \in Signals |->
          [streamBuffers[n] EXCEPT ![Slot] = Stored(n, Sample(n, counter))]]
    /\ bufIdx' = NextIdx
    /\ counter' = counter + 1
    /\ sent' = IF BlockComplete
               THEN [n \in DOMAIN sent |-> sent[n] \o Block(n, streamBuffers')]
               ELSE sent
    /\ UNCHANGED <<phase, config, bufSamples>>

\* The destructor frees the memory; what the buffers hold is not sent.
Destroy ==
    /\ phase # "Destroyed" /\ phase' = "Destroyed"
    /\ streamBuffers' = << >>
    /\ UNCHANGED <<config, bufSamples, bufIdx, counter, sent>>

Next == Initialise \/ SetConfiguredDatabase \/ Synchronise \/ Destroy

Spec == Init /\ [][Next]_vars
-----------------------------------------------------------------------------
TypeOK ==
    /\ phase \in {"Created", "Initialised", "Running", "Failed", "Destroyed"}
    /\ config \in Configurations
    /\ bufSamples \in Nat \ {0}
    /\ bufIdx \in 0 .. bufSamples - 1
    /\ counter \in 0 .. MaxCycles
    /\ phase = "Running" =>
          /\ streamBuffers \in [Signals -> [0 .. bufSamples - 1 -> Int]]
          /\ sent \in [Signals \ {TimeIdx} -> Seq([time : Int, value : Int])]

StoredSample(n, k) == Stored(n, Sample(n, k))

\* What an int32 holds as it is.
Fits(v) == v < Word - v

\* What was sent for a signal is its samples from the first on, each once, in
\* order and with its own time, as the float32s they become, whatever the size of the
\* blocks.  The samples of an incomplete block, bufIdx of them, are not sent, not even by
\* the destructor.
StreamedInOrder ==
    \A n \in DOMAIN sent :
        /\ Len(sent[n]) = counter - bufIdx
        /\ \A i \in 1 .. Len(sent[n]) :
              sent[n][i] = [time |-> Seconds(StoredSample(TimeIdx, i - 1)),
                            value |-> StoredSample(n, i - 1)]

\* As long as the times fit an int32, whatever the type of the time signal, those of the
\* events never go back, and a time that a float32 holds is only rounded by the division.
\* Samples a microsecond apart may be sent with one time from 16 seconds on.
TimesFollowSamples ==
    \A n \in DOMAIN sent : \A i \in DOMAIN sent[n] :
        Fits(Sample(TimeIdx, i - 1)) =>
            /\ \A j \in 1 .. i : sent[n][j].time <= sent[n][i].time
            /\ Sample(TimeIdx, i - 1) \in Float32s =>
                  sent[n][i].time = Seconds(Sample(TimeIdx, i - 1))

\* What was not sent yet, fewer samples than a block, is in the buffer: a sample is
\* never overwritten before it is sent.
PendingKept ==
    phase = "Running" =>
        \A n \in Signals : \A i \in 0 .. bufIdx - 1 :
            streamBuffers[n][i] = StoredSample(n, counter - bufIdx + i)
=============================================================================
