# A TLA+ verification of MARTe2-demos-padova

MARTe2-demos-padova is a set of components for the MARTe2 real-time framework (data sources, GAMs, interfaces,
examples and the configurations that put them together). This directory holds TLA+ models of the components
that have a logic of their own, TLC configurations that check them on small instances, and TLAPS proofs of their
safety for every value of their constants. MARTe2 itself (services, semaphores, sockets,
the real-time threads, the configuration database) is not in this repository: it is modelled from how the
classes use it, and marked external in `PROJECT.json`.

To repeat the checks, in this directory:

    tlc -config <run>.cfg <module>.tla      # the pairs are in the table of the runs
    tlapm <module>Proofs.tla                # the eight modules of section 5

## 1. Inventory

### Components

| Component | State it keeps | Operations | Interacts with | Status |
|---|---|---|---|---|
| `DataSources/ADCSimulator` | last wake-up time, counter, timer, sample buffers, `EventSem` | `Execute` (service thread), `Synchronise` (real-time thread), `PrepareNextState` (state machine), destructor, configuration | all four through the same unlocked memory and one semaphore | modelled |
| `Interfaces/TCPSocketMessageProxyExample` | listening socket, `mux`, `waitForConnection`, a client per thread | `Initialise`, `Execute` in two stages, by several threads, destructor | TCP clients; the objects the messages are sent to | modelled |
| `DataSources/MDSReaderNS` | per node cursor, end flag, `signalsEndedNotified`, cycle number | `Synchronise` once per cycle; configuration | MDSplus tree; messages to the state machine when the signals end | modelled |
| `DataSources/MDSStream/StreamOut` | circular buffer per signal, index, counter | `Initialise`, `SetConfiguredDatabase`, `Synchronise`, destructor | the GAM that writes its memory, MDSplus event streams | modelled |
| `GAMs/FilterDownsamplingGAM` | fixed point accumulator per signal | `Initialise`, `Setup`, `Execute` | ADC-like data sources | modelled |
| `GAMs/OPCUATestGAM` | output value, number of trips, mode | `Execute` once per cycle: a round trip through an OPC UA server | `OPCUADSInput`, `OPCUADSOutput` and its thread, the server | modelled |
| `GAMs/TimeGenerator`, `AdcToVolt`, `VoltToDac`, `FixedGAMExample1`, `VariableGAMExample1` | at most a gain or a sum | `Setup`, `Execute`: a conversion per sample | neighbouring GAMs | not modelled: no property takes more than one step |
| `Other/ControllerEx1`, `ControllerEx2` | gains | a message handler that zeroes four gains and prints them | messages of the configurations | not modelled: nothing else reads the gains |
| `Other/Examples` | a shared integer (`SingleThreadServiceExample1`) | `main` and a service thread | each other | that one modelled; the others are sequential demonstrations |
| `Configurations/DAC0/Example.c`, `Example1.c` | FPGA session, buffer, status | `main` and a `SIGINT` handler | the FPGA | modelled (the second differs in the name of the device) |
| `Configurations/*.cfg` | state machines | messages | applications, controllers | not modelled: their meaning is code of MARTe2 |
| `DataSources/SimpleUDPSender` | - | `Synchronise` is a stub | - | not modelled: nothing happens |
| `Other/MDSStructuredDataIEx1`, `Other/OPCUAClientEx` clients | - | sequences of library calls | - | not modelled: no logic of their own |
| `NiFpga.[ch]`, `open62541.[ch]`, bit files | | | | vendored or generated |

### What is hard, and what makes each component correct

* **ADCSimulator.** Four actors share memory with no lock. The service thread posts the semaphore *before* it
  updates what the real-time thread will read; a state change zeroes the counter and the timer while they may
  be in the middle of an update; the service thread may be late by any number of periods; a real-time thread
  waits with no timeout. Correct means: the sleep is well defined, the periods lost before a sleep are counted once, a reader never sees words
  older than one cycle, a wake-up is for a new cycle, counter and timer agree, nobody waits for ever.
* **TCP proxy.** Several threads take turns at one socket, and only a flag written under a mutex that is
  released meanwhile keeps them apart. Correct means: one thread waits at a time, whatever path `Execute`
  takes the flag is given back, each accepted connection is served by one thread, its message is relayed at most
  once, it is closed, and a silent client costs one thread and no more.
* **MDSReaderNS.** Cursors are kept between cycles, so a scan is right only if the previous one left the
  cursor in the right place; an end is announced once. Correct means: the right samples for the time, 0 outside the
  signal, an end that is final and notified once.
* **StreamOut.** A circular buffer of `float32`s sent when it wraps. Correct means: every sample is sent once, in order, with the
  `float32` of its time, and what that rounding loses does not turn the order of the times.
* **OPCUATestGAM.** An output goes through a queue, a second thread, a server and back, any of which may lose, delay,
  repeat or tear it; the answer is recognised by its value alone. Correct means: a trip that is counted did happen, and
  the test ends.
* **SingleThreadServiceExample1.** Two threads and a counter with no lock, a `Stop` that times out and a kill. Correct
  means: what a lost update costs is bounded, and `main` ends.
* **DAC0 example.** A signal handler does the cleanup that `main` goes on to do too. Correct means: no session is left
  open and the output is left at 0; that the buffer is never freed twice is *not* true, and the model says exactly when.
* **FilterDownsamplingGAM.** Fixed point arithmetic with products of 2^40. Correct means: no overflow, a step
  towards the steady state and never past it.

The hazards, each at its line with the properties that cover it or the reason why none does, are listed in
`PROJECT.json`.

## 2. Modules

| Module | Models |
|---|---|
| `ADCSimulator` | the service thread, the real-time thread, the state machine and the destructor |
| `ADCSimulatorConfiguration`, `MCADCSimulatorConfiguration` | its configuration, before any of them runs, and the configurations it is given |
| `ConnectionLife` | what the TCP proxy promises to a client (abstract) |
| `TCPSocketMessageProxy` | the proxy; instantiates `ConnectionLife` with a refinement mapping |
| `MDSReaderNS`, `MCMDSReaderNS` | the data source, and the configurations and timebases it is given |
| `StreamOut`, `MCStreamOut` | the data source and the configurations it is given |
| `Float32` | the rounding to the nearest `float32`, which `ADCSimulatorConfiguration` and `StreamOut` extend |
| `FilterDownsampling`, `MCFilterDownsampling` | the GAM and the configurations it is given |
| `RoundTrips` | what `OPCUATestGAM` measures (abstract) |
| `OPCUATestGAM`, `MCOPCUATestGAM` | the GAM with the OPC UA data sources and the server, and what a signal holds of a number; instantiates `RoundTrips` with a refinement mapping |
| `SingleThreadServiceExample1` | `main` and the thread of the service |
| `DAC0Example` | `main` and the handler of `SIGINT` |
| `ADCSimulatorProofs`, `ADCSimulatorConfigurationProofs`, `TCPSocketMessageProxyProofs`, `MDSReaderNSProofs`, `StreamOutProofs`, `FilterDownsamplingProofs`, `OPCUATestGAMProofs` | theorems about the module of that name |
| `ExampleProgramsProofs` | theorems about `DAC0Example` and `SingleThreadServiceExample1` |

Operators whose comment starts with "(faulty)" are mutations of the definition that follows them: `PROJECT.json`
pairs each property with one. They belong to no behaviour of the models and are there to show that the
property fails when the code is wrong.

### ADCSimulator

`tpc` is the next step of the service thread in `Execute`: `Begin` (l.374-377), `Rephase` (the loop and the
subtractions of l.379-390), `Wake` (the sleep and the reading of the clock, l.392-408), `Post` (l.410),
`LoadCounter` / `StoreCounter` (the two halves of `+=`, l.411), `StoreTimer` (l.412), `StoreAdc` once per sample
(l.417-430), `Return`. `spc` splits `PrepareNextState` (l.363-371) into its start of the executor and its two stores;
`rpc` splits `Synchronise` (l.356-360) into the reset and the wait of `ResetWait`; `dpc` is the destructor
(l.77-92). Each step accesses shared memory once, so every interleaving of the accesses is a behaviour.
The second read of the counter on l.412 may or may not be a load (nothing is volatile or atomic): `StoreTimer` takes
either value.

Time is relative to `lastTimeTicks`: `elapsed` is the clock minus it, which turns the absolute 64 bit times
into small numbers; what is left of the unsigned arithmetic is `deltaTicks`, an integer that the code would
wrap if it were negative. `IsCycleCount` says in one formula what the `while` loop finds. `Sleep::NoMore` is given
a `float32`, so that `Wake` may come up to `Early` ticks before the time asked for. The samples are opaque: what
matters is *when* each word was written, kept in the history variable `age`. `Mod` stands for 2^32.

The history `behind` adds up the real time and takes from it what the counter is given. The comment of l.380 says "If we lose
cycle, rephase to a multiple of the period", and the loop does so for the time that `Execute` begins late. But l.408 sets
`lastTimeTicks` from the clock once more after the sleep, so that the time by which the *wake-up* is late is forgotten,
whole periods included: they are never counted. `Wake` takes from `behind` just that, the time since the period it was to
wake up for (`NextPeriod`), a definition that does not use what the loop computed.

The destructor runs when no state change is going on, and not while the real-time thread is inside a cycle
other than waiting (the framework releases a data source after its application stopped; a thread may still be blocked in
`Synchronise`, which is what the `Post` of the destructor is for). `DestroyDelete` includes both outcomes of the
first `Stop`: the thread had ended, or it is killed by the second one, wherever it was. That the second one
always succeeds is the framework's promise.

### ADCSimulatorConfiguration

`Initialise` (l.98-189) and `SetConfiguredDatabase` (l.191-311), the latter in the order of the code: `CheckSignals` (types and
number), `CheckFunctionSignal` / `NextFunction` (the two nested loops over what each GAM reads), `Finish` (the periods and
the samples). The configuration is an input, and so is the value that `adcSamplesPerCycle`, which no line initialises,
starts with. The frequency of a GAM is a `float32` and may be fractional: the model counts it in units of 1 / `Resolution` Hz.
`SamplesPerSecond` is the product of l.295, a `float32` of a `float32`, truncated to an integer on l.296; the divisions of l.289 and
l.291 are in `float64`, taken to be exact, and truncated. The calls of MARTe2 that read the configuration do not fail.
The module ends where `ADCSimulator` begins: `sleepTimeTicks` is its `Period`, `timerPeriodUsecTime` its `TimerPeriod`,
`adcSamplesPerCycle` its `Samples`.

### TCPSocketMessageProxy and ConnectionLife

`pc[t]` is the next step of thread `t`: `Lock`, `Check` (test and claim under `mux`), `Sleep`, `WaitConnection`,
`Relock`, `Release` (stage "wait for a request", l.108-133) and `Read`, `SendMessage`, `Close` (stage "serve", l.135-183).
`accepted[t]` is what `WaitConnection` gave, and `client[t]` the thread specific context of `ExecutionInfo`, which is set to it
on l.118. Nothing ever clears that context: after `Close` (l.176-183) it holds a pointer to a deleted socket until the thread has
another connection. All that keeps `Execute` from using it is what it returns: after a timeout the service calls the stage that waits
again, and not the one that serves (`NextStage`). `phase` follows the object from its construction to
its destruction, with a failed `Initialise` and a `Stop` that may time out. The `UnLock` of the destructor (l.63) is called by a thread that
does not own the mutex, and its result is not looked at: it may free a mutex that a killed thread held or leave it as it is. A message is "Message"
or "Invalid"; the latter stands for everything that makes `Read`, `Parse` or `Message::Initialise` fail. The `MultiClientService` is a fixed set
of threads: the class does not configure its pool, whose size and growth are the framework's.

`ConnectionLife` is four actions on one connection: connect, accept, relay (at most once, while open), close (once).
The refinement mapping reads the status off `closed`, `accepted`, `client` and `connected`.

### MDSReaderNS

`Initialise` (l.144-240), `SetConfiguredDatabase` (l.242-536), the destructor and `Synchronise` (l.538-560), one
action for one cycle of all the nodes: `GetDataNode` (l.680-783) gives for each node the new cursor, the value and
whether there was data, by `dataManagement`. A value is the pair of samples it comes from, so that "which samples" is
visible and "which floats" is not. The configuration and what the tree holds are inputs.

The class uses several members that nothing initialises, and each is a choice among its outcomes:
`signalsEndedNotified` starts with either value, and `armed` remembers whether it mattered; `samplingTime` is compared with the
sampling time of raw nodes and deleted; the number of messages is used even if there are none; the data of a node is
printed even if it could not be read, and l.496 prints the first 20 values (`Printed`) of every node even if it has fewer, which
may or may not be survived. "Crashed" is the phase after the ones that end the program.

### StreamOut

`Initialise` (l.175-209), `SetConfiguredDatabase` (l.211-342), `Synchronise` (l.130-165) and the destructor (l.61-76). The configuration is an
input. `Sample(n, k)` is what the GAM before it writes; `Stored` is what becomes of it in a buffer of `float32`s: an integer, the time
among them, is read as an `int32` (l.144) and then rounded. `Seconds` is the division of l.153, in `float64` and rounded again. `sent`
is the history of the events.

The destructor sends nothing: what is in the buffers is lost, `bufIdx` samples of each signal. (It also frees the array of
the buffers and not the buffers: l.214 declares a local `nOfSignals` that hides the member, which stays 0. What the heap holds
is not in the model.)

### FilterDownsampling

`Initialise` (l.181-226), `Setup` (l.78-179) and `Execute` (l.228-242), the latter one element at a time
(`FilterElement`) and one signal at a time (`WriteOutput`). `Scale` stands for 2^20, `Word` for 2^63. Every input is any value of
`Inputs` in every turn. The exponential that gives alpha is replaced by every value alpha may have.

### OPCUATestGAM and RoundTrips

One cycle of the real-time thread is `ReadSignal` for each signal (`OPCUADSInput`), one of the `Execute` actions
(l.80-129) and `Enqueue` (`OPCUADSOutput`); `Dequeue` and `WriteSignal` are the thread of the output data source.
`ExecuteFirst`, `ExecuteWait` and `ExecuteAnswered` are the branches of mode 0, `ExecuteTimed` is the other modes.
`SetOutput` (l.131-376) has one branch per type and shape, all of which write 1 or add 1 to every element: the outputs
are one number. What a signal holds of it is `Memory`, a remainder for the integers; `nans` are the memories that are a
NaN for the comparison of l.92, which reads them as a `float64` whatever their type.

The two data sources and the server are not in this repository and are modelled from how the configurations use them:
the signals are read and written one by one, in their order; a read or a write may fail at any of
them (`faults`); an output that finds the queue full replaces what is in it or is dropped; the server keeps what it was
last given, also from an earlier test.

`RoundTrips` is three actions on two numbers and a history: an output is set once the one before was counted, outputs reach the server in
order, and a trip is counted once its output is there (the first may be counted at once if the server held its value before). The
refinement mapping is `output`, `arrived`, `numCycles` and `heldFirst`. What it hides is everything in between: the queue, the second
thread, the signals after the first, the polling of the inputs and what fails on the way.

### SingleThreadServiceExample1

`step` has `main` (l.136-159) and the callback (l.79-92). `LoadToIncrement` / `Increment` and `LoadToDecrement` /
`Decrement` are the halves of `++` and `--`, the same for both threads. The service is MARTe2's: `Start` may fail, the first
`Stop` asks the thread to end after its callback, and the second one kills it wherever it is. `overlaps` counts
the stores that undo another.

### DAC0Example

One action per statement of `main` (l.44-97) that changes or tests something, and `InterrHandler` (l.24-34) enabled
between any two. A session is "None", "Open" or "Closed"; a call on one that is not open fails. The buffer is 256 MB,
which `free` gives back to the system: what uses it later ends in "Crashed". `NiFpga_MergeStatus` and
`NiFpga_IsNotError` are those of `NiFpga.h`; the results of the other calls are a choice.

## 3. Runs

| Run | Module | Result | States |
|---|---|---|---|
| `adc` | `ADCSimulator` | no error | 413 300 |
| `adc_reset` | `ADCSimulator` | `ResetsCounter` violated | |
| `adc_config` | `MCADCSimulatorConfiguration` | no error | 29 819 |
| `tcp` | `TCPSocketMessageProxy` | no error | 163 702 |
| `mdsreader` | `MCMDSReaderNS` | no error | 113 901 |
| `mdsreader_end` | `MCMDSReaderNS` | `ZeroAfterLastSample` violated | |
| `stream` | `MCStreamOut` | no error | 1 573 |
| `filter` | `MCFilterDownsampling` | no error | 1 178 700 |
| `filter_types` | `MCFilterDownsampling` | `AllInputsVerified` violated | |
| `opcua` | `MCOPCUATestGAM` | no error | 76 233 |
| `service` | `SingleThreadServiceExample1` | no error | 50 146 |
| `dac0` | `DAC0Example` | no error | 435 |

Deadlock is not checked: every model stops in a legal way (the object is destroyed, the configuration is rejected, the program exits,
or a bound is reached).

**`adc`**: `SleepShorterThanPeriod` (the comment "Cannot be < 0" of l.388 is right, for any lateness),
`CyclesCountedOnce` (however late `Execute` begins, each period since the last wake-up is counted once, the lost ones included,
and the rest of the time is left for the next cycle; what a wake-up is late by is not counted, see section 2), `WordsAtMostOneCycleOld` (posting first is
harmless up to one cycle), `NoCycleConsumedTwice` (`ResetWait` discards a stale post), `ResetUnlessLost` and
`TimerFollowsCounter` (the counter and the timer are what they should be except when a reset overlaps an update,
which is the exact extent of the race), `WaiterReleased` (liveness: nobody blocks for ever in `Synchronise`).
*Bounds.* A period of 2 ticks and lateness up to 4: the thread can be on time, late inside a period, exactly on a
period and late by two. `Mod` 4 with `TimerPeriod` 3 makes the counter and the timer wrap at different cycles. One sample
is enough for the loop to be entered and left. `Early` 1 lets a sleep fall short.

**`adc_config`**: `BuffersFit` (every GAM copies from the buffers exactly the samples they have, whatever garbage
`adcSamplesPerCycle` holds at the start: garbage may only reject a good configuration), `SamplesKeepPace` (the `Samples` and the
`Period` given to `ADCSimulator` make the frequency of the ADCs to less than one sample per second, for a sleep counted to less
than a tick, and with the first GAM that synchronises, even if a second one asks for another frequency. To *less than one* is
what the truncation of l.296 leaves: three samples at 0.5 Hz are accepted for ADCs of 1 Hz). *Bounds.* Two GAMs, the
first reading up to two signals and the second up to one, is the least in which a
signal may disagree with another of the same GAM and of another one; samples 2 and 3, frequencies of 0.5 and 1.5 Hz and ADCs of 1, 3
and 4 Hz have products that are exact, that are truncated and that are rounded up before (`float32`s of three bits: 4.5 is one of
the products and not one of the `float32`s in halves, so that it may become 4 or 5); the ticks of a timer of 20 Hz are
exact for 0.5 Hz and not for 1.5; one configuration for each other reason to reject it.

**`tcp`**: `OneThreadWaits`, `FlagNotLeaked`, `ConnectionOwned` (each connection is in the backlog once, or of one thread, or closed; and a
closed one, whose deleted socket is still in the context of a thread, is never used again), `ConnectionServed` (liveness)
and `ImplementsConnectionLife`. *Bounds.* Two threads and three clients, one of which may stay silent: there are more
connections than threads, one thread can be lost to a silent client, and the other must serve the rest. The model is
symmetric in the threads, but symmetry is not used because of the liveness property.

**`mdsreader`**: `InterpolationEncloses`, `ClosestSampleHeld`, `EndIsFinal`, `EndNotifiedOnce`.
*Bounds.* Two nodes (so that one may end before the other), every increasing timebase of one to three samples over four
ticks, with data as long as it or of two samples, and five cycles of two ticks from before the first possible sample to after
the last; `Printed` is 2 where the code has 20, so that nodes of one value are printed beyond their end and the others are not;
and one configuration for each reason to reject it.

**`stream`**: `StreamedInOrder` (each sample once, in order, as the `float32` it becomes and with the `float32` of its time),
`TimesFollowSamples` (while the times fit an `int32` those of the events never go back, and a time that a `float32` holds is only
rounded by the division; later ones are rounded twice, and may coincide), `PendingKept`.
*Bounds.* Blocks of 1 to 5 samples and 20 cycles: at least four
blocks of each size; words of 32 values, so that the times of the last cycles no longer fit; `float32`s of three significant bits, so that
times that fit are rounded (from 9 on) and coincide; a second of three microseconds, so that the division is rounded too; the
destructor in any phase; accepted and rejected configurations.

**`filter`**: `NoOverflow`, `MovesTowardsInput`. *Bounds.* The ratios are those of the code in small: the
word is the least that `ConstantsAssumption` allows for the scale and the inputs (in the code it is 128 times as large); all alphas are
checked, and the accumulators are explored to their fixed point, so that the run covers executions of any length.

**`opcua`**: `TripsReal` (a trip is counted only for an output that reached the server, whatever came late, twice or not at all:
only two outputs can be on their way and they differ in memory), `OthersOneTripBehind` (only the first signal is compared:
the others are one trip behind at most, and one more for each transfer that failed half way), `TestCompletes`
(liveness: the test ends, unless one of its outputs is a NaN; then it never ends), `ImplementsRoundTrips` (no output overtakes
another, and none is set before the one before it was counted). *Bounds.* Five trips over memories of
three values: they wrap, and an output of two trips ago looks like one of the next; two signals, the least that can be torn; three
faults; a server that holds nothing, the first or the second output of the test; with and without a NaN.

**`service`**: `DriftBounded` (what lost updates cost: one for each store of a stale value, and no more), `MainEnds` (liveness). *Bounds.* The callback is called up to four times and `main` waits for
three; words of eight values, so that the counter wraps below 0.

**`dac0`**: `NoSessionLeft`, `CrashesIfInterrupted`, `OutputLeftAtZero`. *Bounds.* Three values of the sine, so that an
interrupt can come before, between and after them; two interrupts, since the second one frees the buffer again.

### What the violations show

1. `adc_reset`: a reset lost. `PrepareNextState` "resets the counter and the timer to zero" (`ADCSimulator.h:135`), but when its store falls
   between the load and the store of `counterAndTimer[0] += nCycles` the new state starts with the old count.
2. `mdsreader_end`: "when the end of a node is reached the data [...] is filled with 0" (`MDSReaderNS.h:46`), but with
   DataManagement 2 the end is tested on the cursor of the previous cycle: the last sample is given for one cycle more.
3. `filter_types`: `Setup` is documented to verify the type of every signal; it looks at the first one every time.

### Other divergences noticed while modelling

These have no run: they are about wording, or about values the models leave out.

* `ADCSimulator.cpp:232` says "We need to have one and exactly one GAM asking to synchronise in this DataSource": the search stops
  at the first one and a second is not noticed; both then wait on one semaphore that each `ResetWait` resets.
* The message of `ADCSimulator.cpp:299` says that the product of samples and frequency "shall be equal to the ADCs acquisition
  frequency": the product is truncated before it is compared, so that 3 samples at 0.5 Hz, 1.5 a second, are accepted for 1 Hz
  (`SamplesKeepPace`). A frequency of 0 of the ADCs is not rejected, and equals the product for less than one sample per second.
* `ADCSimulator.cpp:380` rephases to "a multiple of the period" when a cycle is lost, but l.408 takes the phase from the clock: the periods
  that a late wake-up misses are not counted (`CyclesCountedOnce` says which are).
* The message of `StreamOut.cpp:284` admits four integer types for the time; all are read as `int32` (l.144), so that a time in
  microseconds is sent negative after 2^31, about 36 minutes. Long before, from 2^24 on (17 seconds), it is rounded to what a `float32`
  holds, and from 16 seconds on samples a microsecond apart may be sent with one time. `StreamedInOrder` and `TimesFollowSamples` say what
  is left.
* `OPCUATestGAM` compares eight bytes as a `float64` whatever the type: an array of `int8` reaches a NaN at -1 (255 outputs), one of
  `int16` at 32752, and the test stalls there (`TestCompletes`).
* `SingleThreadServiceExample1` does not look at the result of `Start`: if it fails, `main` waits for ever.
* The DAC0 example frees its buffer twice after any `SIGINT` (`CrashesIfInterrupted`), does not test the result of `malloc`, and has
  the call that `NiFpga` asks for first, `NiFpga_Initialize`, commented out.
* `FixedGAMExample1` and `VariableGAMExample1` are documented as multiplying by a gain; the first copies its input and the second
  writes nothing.
* `ControllerEx1` and `ControllerEx2` print gains that nothing initialises (`gains2`, and `gain2` of each).
* `RTApp-2-10.cfg:153` enters its error state by preparing "StateError", which its application does not define.
* The filter adds the accumulator *and* its product by alpha before the shift, so that its gain for a constant input is
  (S - alpha) / (S - 1 - alpha) with S = 2^20, close to but not 1; with alpha = S - 1 it is an integrator, which is why
  `NoOverflow` and `MovesTowardsInput` exclude that value.
* The example configuration of `ADCSimulator.h` gives the ADC signals the type `uint32`, which
  `SetConfiguredDatabase` rejects; the header speaks of two signals and the code asks for six.
* `MDSReaderNS`: the time may not be excluded from the signals of the function, although l.271 tests for that: the number of samples is
  asked of the function for every signal, and the loop fails at the one it does not have (`FunctionAccepted`);
  l.496 prints 20 values of nodes that may have fewer; the key of the time base in the documentation is not the one that is read; the value that
  `Synchronise` is documented to return is not the one it returns.
* `StreamOut`: the comment of the destructor (l.60) says that the file is flushed and the memory freed; the samples of an incomplete block are
  dropped (`StreamedInOrder` says how many) and the buffers of the signals are leaked.
* `TCPSocketMessageProxyExample`: the constructor and destructor are documented as doing nothing; `Execute` may
  return Timeout and Completed besides what is documented.

## 4. Fairness

* `ADCSimulator`: weak fairness of the clock, of the steps of `Execute`, of a wake-up whose semaphore is posted, and
  of a reset or a destruction that has begun. The operating system runs both threads and the code has no other
  blocking call. Nothing says that the real-time thread starts a cycle, that the state changes or that the object is
  ever destroyed.
* `TCPSocketMessageProxy`: weak fairness of each thread; strong fairness of `Lock` and `Relock`, because each
  holder releases the mutex in its next step and every loop then sleeps or waits for a timeout, so that the
  mutex is free again and again for long; weak fairness of `Send` for the clients that are not `Silent`.
  Nothing is assumed of the others, nor of `Stop`.
* `OPCUATestGAM`: weak fairness of the real-time thread, of the thread of the output data source, and of the time (mode 1). Both
  are threads that run for ever; transfers fail a bounded number of times (`MaxFaults`), because a server that never answers
  refutes nothing.
* `SingleThreadServiceExample1`: weak fairness of both threads.
* The other models have no liveness property; nothing is assumed of `SIGINT`.

## 5. Proofs

The theorems hold for every value of the constants that satisfies the `ConstantsAssumption` of the module (`ServiceAssumption` for
the service; TLC evaluates them too), that is for every period, width, number of samples, threads and clients, with the bounds of
`ADCSimulator` (`MaxElapsed`) arbitrary. For `Float32` it is any set of integers with 0 in it.

**ADCSimulatorProofs.** `TypeCorrect` first; every other proof uses it. None of the properties is inductive:

| Theorem | Inductive invariant | Why it is needed |
|---|---|---|
| `SleepCorrect` | `SleepInv` | the sleep was computed in an earlier step: it must be remembered that it ends at `nCycles` periods. Lemma `CycleCountSleep` is the arithmetic of l.382-390 |
| `CyclesCorrect` | `BehindInv`, with `SleepInv` | during an update the counter lacks `nCycles` periods more than the time since `lastTimeTicks`. Lemma `NextPeriodOfCount` shows that the loop of l.382 finds the period that the history is told of in other terms |
| `AgeCorrect` | `AgeInv` | "at most one cycle old" is preserved by `Post` only if no word is stale then: `Stale(w)` says which words the thread has not rewritten yet |
| `ResetCorrect` | `ResetInv` | between load and store the register holds the counter, unless a reset came between |
| `TimerCorrect` | `TimerInv` | the same for the timer, with a reset that may be half done |
| `WakeUpCorrect` (action property) | `PostedInv` | a semaphore that is set while the thread waits was posted after its reset |
| `NeverStranded` | `StrandedInv` | while the object lives the service thread is there to post, and the last post of the destructor is not reset: the destructor comes after the last cycle began. It is the part of `WaiterReleased` that is no liveness |

**TCPSocketMessageProxyProofs.** `TypeCorrect` needs `Serving` (a serving thread has a connection). `SocketInv` is the
invariant of the socket: the mutex is held exactly in the locked sections, one thread claims the socket, and the
flag says whether one does. It needs all three: the flag keeps the others out only because it is read and written under the
mutex. From it `WaitCorrect`, `FlagCorrect` and `MutexCorrect`. `OwnInv` is the invariant of the
connections: each is in one place only, and a thread that does not serve has in its context a socket that is closed, or none
(`PlaceInv`), one that connected is in some place (`FoundInv`), and one
that waits, or whose thread has not sent yet, was not relayed (`RelayedInv`). It gives `OwnedCorrect` and the refinement
`RefinesLife`: `LifeStep` shows that a step of the proxy changes the status of one connection as an action of
`ConnectionLife` does, or of none.

**ADCSimulatorConfigurationProofs.** The invariant says what the scan has established of the signals it went through: their samples
are all those of `adcSamplesPerCycle` (`SamplesInv`; a value that nothing initialised cannot survive the first signal that
disagrees), and `cycleFrequency` is the first one above 0 (`FrequencyInv`). `PaceCorrect` adds the arithmetic of l.289-296:
rounding to the nearest `float32` does not step over a `float32`, which is all that it needs of them, so that a rounded
product cannot come to the next whole number but one (`RoundingStops`, `RateBounds`), and the truncation loses less than one.
`PeriodsCorrect` says what the two divisions that are truncated (l.289-292) leave: the sleep is at least one tick exactly when the frequency is not above that of
the timer, and the timer moves exactly when it is not above 1 MHz. It is the bridge to `ADCSimulator`, whose assumption is `Period > 0`.

**MDSReaderNSProofs.** The properties are about one cycle, but a cycle starts from the cursor of the previous one: the invariant is
that no cursor stands on a sample after the current time (which only grows; `CursorAt`), so that the first sample that is not passed,
looked for from the cursor on, is the first one of all (`Least`, by the induction on the integers of `WellFoundedInduction`; `AdvanceStops`). `ReadAsIsStep`, `InterpolateStep` and
`ClosestSampleStep` are one lemma per data management, `NodeStep` puts them together. `EndCorrect` (action property) follows
because a node that ended is past its last sample; `NotifiedCorrect` needs the flag, the notifications and the ends related.
`RawInOrder` is about the data management 0: cycle `k` gives sample `k - 1` of a raw node, each once, and 0 when they
are over; `RawInv` relates the cursor, the output and the cycle number. `NeverBack` (action property): no cursor ever goes back, whatever the node.

**StreamOutProofs.** `StreamedInOrder` and `PendingKept` are inductive only together: what is sent next is what is pending. The
step that completes a block is the case that matters. `TimesCorrect` follows: times that fit an `int32` are not changed by
the cast (`FittingTime`), rounding is monotone for any set of `float32`s (`RoundingMonotone`), and so is the division (`SecondsMonotone`).
`WholeBlocks` says that what was sent of a signal is always a multiple of the block, and less than a block behind the samples, also once the object is destroyed; it needs
`BlocksInv`, that the counter is `bufIdx` after the start of a block.

**FilterDownsamplingProofs.** `NoOverflow` is not inductive: that the sum fits follows from a bound on the accumulator, which is that
it stays between the steady states of the extreme inputs (`Within`). `Moves` shows that a step goes towards the steady state and not past
it, `StaysWithin` that the bound is kept, `SumFits` that the bound, at most twice `MaxInput * Scale^2`, leaves the sum inside the word:
2^56 for the code's `int16` and 2^20, against 2^63.
`Bounded` states the bound itself, for the output too: it stays between the steady states of the least and the greatest input. `LargestAlphaIntegrates` proves what
section 3 says of the alpha that is left out: with it the filter adds its inputs up.

**OPCUATestGAMProofs.** `TripsReal` rests on where outputs can be: only those of this trip and of the one before are on their way, the older
first (`WayInv`), the server has what arrived last (`ServerInv`), and the input is what the server had at some moment of the trip
(`InputInv`). That two outputs in a row differ in memory is `MemoryAssumption`.

`OthersCorrect` is about the signals that are *not* compared. `Base` is the output that the first signal of the server holds. Another signal of the server may be behind it by
one if the write under way has not come to it (`Lag`), and by one for each write that failed half way so far
(`OthersServerInv`). An input is behind by as much, and by one more if it was read before the first one changed (`Fresh`,
`OthersInputInv`). `torn` counts the failures of both kinds.

`NaNNeverEnds` is the half of `TestCompletes` that is a safety property: no trip that was counted was for a NaN (`NaNInv`), and a
test of the first mode ends only with all of them. `RefinesRoundTrips` is the refinement: `RoundTripStep` shows that each step is one of `RoundTrips` or a
stutter; the write of the first signal is the arrival, and it arrives in order because of `WayInv`. In the other modes nothing but 0 is
ever written (`OtherModesInv`).

**ExampleProgramsProofs.** It extends both programs, which is why the names of the second start with `Service`.

*DAC0Example.* At each step of `main`, whether the session may be open and the buffer freed is determined by the interrupts so
far: `SessionInv`, `MemoryInv` and `OutputInv` say how.

*SingleThreadServiceExample1.* `DriftCorrect` is not inductive: what a thread stores depends on what it loaded before. `LoadedInv` says that
a register is the shared integer, or is stale; then it is what the integer was with or without the other thread, which is why its store
costs one more. `CloseTo` is the bound of `DriftBounded` with any number of wraps, which increments preserve (`CloseToStored`); there are never more of
them than `DriftBounded` counts (`CloseToNear`). `PurgedAlone` (when `main` deletes the object, no callback runs on it) and
`GivenBack` (in the end the resource is 0 unless updates overlapped or the callback was killed) need `EndInv`: two calls of
`Stop` leave no thread, and one that was not killed had ended its call.

**Only model-checked:** the four liveness properties (`WaiterReleased`, `ConnectionServed`, `TestCompletes`, `MainEnds`), which are out of reach of the
prover; what they rest on and is no liveness is proved as `NeverStranded`, `NaNNeverEnds` and `PurgedAlone`. The three properties that the code violates have
counterexamples, not proofs. What a run shows of the configurations it lists in an MC module is proved for all of them.

## 6. Not modelled

In the components that are modelled: the values of the samples of `ADCSimulator`, the conversions of `CopyValue` and `PublishTime` of
`MDSReaderNS`, the exponential of the filter, the time that `OPCUATestGAM` publishes, the text of messages and the
reading of configuration files; an allocation that fails (but for the `malloc` of the DAC0 example); the growth of the thread pool;
the products and periods of the ADC simulator that do not fit a `uint32` (whose conversion C++ leaves undefined), and the
error of its `float64` divisions; the memory past a lone first signal of
`OPCUATestGAM` that is narrower than the eight bytes l.92 compares. `NiFpga_Close` is taken to end the session whatever it returns, and the
notification of the end in `MDSReaderNS` is promised only if `signalsEndedNotified`, which nothing initialises, starts out
false or is cleared first (`armed`). The models take the period of the ADC simulator to be at least one
tick (`PeriodsCorrect` says for which frequencies it is), `TimeIdx` to be a signal, and the tree to hold at least one sample.

Whole components, with the reason for each:

* `SimpleUDPSender`: `Synchronise` is a stub that returns true and `SetConfiguredDatabase` a sum of sizes.
* The conversion and example GAMs: a copy, a scaling per sample, or one addition, with no state that could go wrong between
  cycles.
* `ControllerEx1`, `ControllerEx2`: parameters are loaded once; the only handler assigns four of them, which nothing in the repository reads
  concurrently.
* The other programs of `Other/Examples`, `MDSStructuredDataIEx1` and the OPC UA clients: straight sequences of library calls.
* The state machines of `Configurations/*.cfg`: they are data. What an event, a reply, a failed message or an unknown state does is the code of
  `StateMachine` and `RealTimeApplication` of MARTe2, which is not here; a model would be of those classes.
* `open62541.[ch]` and `NiFpga.[ch]` (four identical copies), vendored, and the headers of the bit files, generated.

The vendored and generated files are nine lines in ten of the repository. Of its own C and C++ sources, about 5000 lines, the definitions of
the models stand for about 1900; the rest is boilerplate of the classes, printing, and the components above.

## 7. Plan

What was planned is done or listed above with the reason. What could still be added, in the order of its weight:

1. The pipeline of `MDSReaderNS` into `StreamOut`: that what is streamed is what was replayed. Each half is proved on its own; the
   composition needs the cycle of the real-time application, which is external.
2. The state machine of `RTApp-2-10.cfg` over `ADCSimulator`, if the sources of `StateMachine` and `RealTimeApplication` were at hand: it would
   replace the assumption of `ADCSimulator` that a state change may come at any time.
3. `StreamOut` as an implementation of an abstract queue of blocks, with `StreamedInOrder` and `PendingKept` as consequences: the invariant of
`StreamOutProofs` is the simulation relation already.
4. An abstract specification of `ADCSimulator` (a reader is given words of one cycle, at most one late) that its proof implements; the
invariants of section 5 say what the refinement mapping would need.
