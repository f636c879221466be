---------------------------- MODULE OPCUATestGAM ----------------------------
(***************************************************************************)
(* OPCUATestGAM: measures the time of a round trip through an OPC UA       *)
(* server.  Every cycle of the real-time thread the input data source      *)
(* reads the signals from the server, Execute compares the first one with  *)
(* what it wrote, and the output data source queues the outputs; a thread  *)
(* of the output data source writes them to the server.                    *)
(*                                                                         *)
(* SetOutput gives every element of every signal the same number, so the   *)
(* outputs are one number, the one that counts the calls of SetOutput; the *)
(* type of the signals decides what a memory holds of it.  The data        *)
(* sources, their queue and the server are modelled from how               *)
(* OPCUA-App-Test.cfg uses them.                                           *)
(***************************************************************************)
EXTENDS Integers

CONSTANTS
    Signals,     \* number of signals; the first one is compared
    Memory(_),   \* what the first signal holds of a number, its remainder for an integer
    NaNSets,     \* the memories whose 8 bytes may be a NaN when read as a float64
    Trips,       \* round trips of a test (500000 in the code)
    OldValues,   \* what the server may hold from an earlier test
    MaxFaults,   \* bound on the reads and writes that fail
    Nothing      \* an empty queue

ASSUME ConstantsAssumption ==
    /\ Signals \in Nat \ {0} /\ Trips \in Nat \ {0}
    /\ OldValues \subseteq Nat /\ MaxFaults \in Nat
    /\ Nothing \notin Nat

\* No type of the signals is so narrow that two numbers in a row are one in memory.
ASSUME MemoryAssumption == \A n \in 0 .. Trips : Memory(n) # Memory(n + 1)

VARIABLES
    mode, nans,
    pc,        \* what the real-time thread does next
    check, counter, numCycles,
    timeUp,    \* two minutes have passed since statCpuCount
    output,    \* the number in the output signals
    input,     \* of each signal
    r,         \* next signal to read
    queued,    \* outputs that wait for the writing thread
    writing,   \* outputs that it is writing
    w,         \* next signal that it writes
    server,    \* what the server holds for each signal
    faults,    \* history: reads and writes that failed
    torn,      \* history: of these, the ones after the first signal
    arrived,   \* history: the last output that reached the first signal
    heldFirst  \* history: the server held the first output from the start

test == <<check, counter, numCycles, timeUp, output>>
reader == <<input, r>>
writer == <<writing, w>>
history == <<torn, arrived, heldFirst>>
vars == <<mode, nans, pc, test, reader, queued, writer, server, faults, history>>

SignalIndexes == 1 .. Signals

Init ==
    /\ mode \in {0, 1, 3} /\ nans \in NaNSets
    /\ pc = "Read" /\ check = 0 /\ counter = 0 /\ numCycles = 0 /\ timeUp = FALSE
    /\ output = 0 /\ input = [s \in SignalIndexes |-> 0] /\ r = 1
    /\ queued = Nothing /\ writing = Nothing /\ w = 1
    /\ \E v \in OldValues : server = [s \in SignalIndexes |-> v]
    /\ faults = 0 /\ torn = 0 /\ arrived = 0
    /\ heldFirst = (Memory(server[1]) = Memory(1))
-----------------------------------------------------------------------------
(* OPCUAIn reads the signals in their order *)

ReadSignal ==
    /\ pc = "Read" /\ r <= Signals
    /\ input' = [input EXCEPT ![r] = server[r]]
    /\ r' = r + 1
    /\ UNCHANGED <<mode, nans, pc, test, queued, writer, server, faults, history>>

\* The inputs that were not read keep their values.
ReadFails ==
    /\ pc = "Read" /\ r <= Signals /\ faults < MaxFaults
    /\ faults' = faults + 1
    /\ torn' = IF r > 1 THEN torn + 1 ELSE torn
    /\ r' = Signals + 1
    /\ UNCHANGED <<mode, nans, pc, test, input, queued, writer, server, arrived,
                   heldFirst>>

ReadEnds ==
    /\ pc = "Read" /\ r > Signals
    /\ pc' = "Execute" /\ r' = 1
    /\ UNCHANGED <<mode, nans, test, input, queued, writer, server, faults, history>>
-----------------------------------------------------------------------------
(* Execute *)

\* (faulty) The count goes on.
CountedOn(c) == c + 1

\* It matters only whether the counter, a float64, is 1: 2 stands for what is above.
Counted(c) == IF c < 2 THEN c + 1 ELSE 2

\* (faulty) The outputs are incremented twice for a trip.
SetOutputTwice(c) == IF c = 1 THEN 1 ELSE output + 2

SetOutput(c) == IF c = 1 THEN 1 ELSE output + 1

\* The first call in mode 0 writes, and the trip begins.
ExecuteFirst ==
    /\ pc = "Execute" /\ mode = 0 /\ check = 0
    /\ pc' = "Write"
    /\ counter' = Counted(counter)
    /\ output' = SetOutput(counter')
    /\ check' = 1
    /\ UNCHANGED <<mode, nans, numCycles, timeUp, reader, queued, writer, server,
                   faults, history>>

\* (faulty) Any other value than that of the trip before is taken for an answer.
AnsweredByAny == Memory(input[1]) # Memory(output - 1)

\* (faulty) The value is compared after it is incremented.
AnsweredByNext == Memory(input[1]) = Memory(output + 1) /\ Memory(output + 1) \notin nans

\* firstInputSignal[0] == firstOutputSignal[0], as float64.  The 8 bytes are taken to be
\* the first signal's: a lone one that is narrower, compared with the memory after it, is
\* left out.
Answered == Memory(input[1]) = Memory(output) /\ Memory(output) \notin nans

ExecuteWait ==
    /\ pc = "Execute" /\ mode = 0 /\ check = 1
    /\ ~Answered
    /\ pc' = "Write"
    /\ counter' = Counted(counter)
    /\ UNCHANGED <<mode, nans, check, numCycles, timeUp, output, reader, queued, writer,
                   server, faults, history>>

\* The trip is counted; the last one ends the program, any other begins the next.
ExecuteAnswered ==
    /\ pc = "Execute" /\ mode = 0 /\ check = 1
    /\ Answered
    /\ numCycles' = numCycles + 1
    /\ IF numCycles' = Trips
       THEN /\ pc' = "Exited"
            /\ counter' = Counted(counter)
            /\ UNCHANGED output
       ELSE /\ pc' = "Write"
            /\ counter' = Counted(Counted(counter))
            /\ output' = SetOutput(counter')
    /\ UNCHANGED <<mode, nans, check, timeUp, reader, queued, writer, server, faults,
                   history>>

\* Mode 1 ends the program after two minutes, and mode 3 does nothing.
ExecuteTimed ==
    /\ pc = "Execute" /\ mode # 0
    /\ counter' = Counted(counter)
    /\ check' = IF mode = 1 THEN 1 ELSE check
    /\ pc' = IF mode = 1 /\ check = 1 /\ timeUp THEN "Exited" ELSE "Write"
    /\ UNCHANGED <<mode, nans, numCycles, timeUp, output, reader, queued, writer, server,
                   faults, history>>

TwoMinutesPass ==
    /\ mode = 1 /\ check = 1 /\ ~timeUp
    /\ timeUp' = TRUE
    /\ UNCHANGED <<mode, nans, pc, check, counter, numCycles, output, reader, queued,
                   writer, server, faults, history>>
-----------------------------------------------------------------------------
(* OPCUAOut: a queue of one buffer, and the thread that writes to the server *)

\* What waits may be replaced, or be kept and what comes dropped.
Enqueue ==
    /\ pc = "Write" /\ pc' = "Read"
    /\ queued' \in (IF queued = Nothing THEN {output} ELSE {queued, output})
    /\ UNCHANGED <<mode, nans, test, reader, writer, server, faults, history>>

Dequeue ==
    /\ pc # "Exited" /\ writing = Nothing /\ queued # Nothing
    /\ writing' = queued /\ w' = 1
    /\ queued' = Nothing
    /\ UNCHANGED <<mode, nans, pc, test, reader, server, faults, history>>

WriteSignal ==
    /\ pc # "Exited" /\ writing # Nothing
    /\ server' = [server EXCEPT ![w] = writing]
    /\ arrived' = IF w = 1 THEN writing ELSE arrived
    /\ IF w < Signals
       THEN w' = w + 1 /\ UNCHANGED writing
       ELSE w' = 1 /\ writing' = Nothing
    /\ UNCHANGED <<mode, nans, pc, test, reader, queued, faults, torn, heldFirst>>

\* The signals that were not written keep their values in the server.
WriteFails ==
    /\ pc # "Exited" /\ writing # Nothing /\ faults < MaxFaults
    /\ faults' = faults + 1
    /\ torn' = IF w > 1 THEN torn + 1 ELSE torn
    /\ writing' = Nothing /\ w' = 1
    /\ UNCHANGED <<mode, nans, pc, test, reader, queued, server, arrived, heldFirst>>
-----------------------------------------------------------------------------
Execute == ExecuteFirst \/ ExecuteWait \/ ExecuteAnswered \/ ExecuteTimed

RealTimeThread == ReadSignal \/ ReadFails \/ ReadEnds \/ Execute \/ Enqueue

WritingThread == Dequeue \/ WriteSignal \/ WriteFails

Next == RealTimeThread \/ WritingThread \/ TwoMinutesPass

\* Both threads run and time passes; reads and writes do not fail for ever.
Fairness == WF_vars(RealTimeThread) /\ WF_vars(WritingThread) /\ WF_vars(TwoMinutesPass)

Spec == Init /\ [][Next]_vars /\ Fairness
-----------------------------------------------------------------------------
TypeOK ==
    /\ mode \in {0, 1, 3} /\ nans \in NaNSets
    /\ pc \in {"Read", "Execute", "Write", "Exited"}
    /\ check \in {0, 1} /\ counter \in 0 .. 2 /\ numCycles \in 0 .. Trips
    /\ timeUp \in BOOLEAN
    /\ output \in Nat /\ input \in [SignalIndexes -> Nat] /\ r \in 1 .. Signals + 1
    /\ queued \in Nat \cup {Nothing} /\ writing \in Nat \cup {Nothing}
    /\ w \in SignalIndexes
    /\ server \in [SignalIndexes -> Nat]
    /\ faults \in 0 .. MaxFaults /\ torn \in 0 .. MaxFaults
    /\ arrived \in Nat /\ heldFirst \in BOOLEAN

\* A trip is counted only for an output that did reach the server: writes that are
\* late, repeated, replaced or lost never count for one another, although only
\* remainders are compared.  The first trip is the exception when the server still
\* held the value of the first output from an earlier test.
TripsReal ==
    numCycles > (IF heldFirst THEN 1 ELSE 0) => arrived >= numCycles

\* Only the first signal is compared: when a trip is about to be counted the other
\* inputs may be those of the trip before, and of one more for each read or write
\* that failed half way, but never older.
OthersOneTripBehind ==
    pc = "Execute" /\ mode = 0 /\ numCycles >= 2 /\ Answered =>
        \A s \in SignalIndexes : input[s] >= output - 1 - torn

RoundTrip == INSTANCE RoundTrips
    WITH set <- output, there <- arrived, counted <- numCycles, held <- heldFirst

\* The outputs go to the server one at a time and none replaces a newer one there,
\* although they wait in a queue that may drop or repeat them and a late write of the
\* trip before may end in the next one: every step is one of RoundTrips' or none.
ImplementsRoundTrips == RoundTrip!Spec

ReachesNaN == \E n \in 1 .. Trips : Memory(n) \in nans

\* Whatever is lost on the way, the test ends if and only if no output of it is a
\* NaN when read as a float64 (a NaN never equals itself, so that its trip lasts for
\* ever: int8 arrays at 255, int16 arrays at 32752); mode 1 always ends.
TestCompletes ==
    /\ (mode = 0 /\ ~ReachesNaN) \/ mode = 1 => <>(pc = "Exited")
    /\ mode = 0 /\ ReachesNaN => [](pc # "Exited")
=============================================================================
