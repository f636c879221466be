------------------------- MODULE OPCUATestGAMProofs -------------------------
(***************************************************************************)
(* Proofs about OPCUATestGAM, for any number of signals, trips and faults, *)
(* any type of the signals and any values in the server.                   *)
(***************************************************************************)
EXTENDS OPCUATestGAM, TLAPS

Trip == numCycles + 1

\* What TypeOK needs: the last trip ends the program, and torn counts some faults.
CountInv ==
    /\ pc # "Exited" => numCycles < Trips
    /\ torn <= faults
    /\ mode # 0 => numCycles = 0

Before ==
    mode = 0 /\ check = 0 =>
        /\ output = 0 /\ counter = 0 /\ numCycles = 0 /\ arrived = 0
        /\ queued = Nothing /\ writing = Nothing /\ pc \in {"Read", "Execute"}

During == mode = 0 /\ check = 1 => counter > 0 /\ (pc # "Exited" => output = Trip)

\* What is on its way to the server is the output of this trip or of the one before,
\* and the older comes first.
OnTheWay(v) == v \in {numCycles, Trip} /\ v > 0 /\ v >= arrived

WayInv ==
    mode = 0 =>
        /\ arrived \in 0 .. Trip
        /\ writing # Nothing => OnTheWay(writing)
        /\ queued # Nothing => OnTheWay(queued)
        /\ queued # Nothing /\ writing # Nothing => queued >= writing

\* The first trip alone can be counted for a value that was in the server before.
ServerInv ==
    mode = 0 =>
        /\ arrived > 0 => server[1] = arrived
        /\ arrived = 0 => (Memory(server[1]) = Memory(1) <=> heldFirst)

InputInv ==
    mode = 0 =>
        \/ input[1] \in numCycles .. arrived /\ arrived > 0
        \/ numCycles = 0 /\ (Memory(input[1]) = Memory(1) => heldFirst)
        \/ numCycles = 1 /\ heldFirst /\ Memory(input[1]) = Memory(1)

IInv ==
    /\ TypeOK /\ CountInv /\ Before /\ During /\ WayInv /\ ServerInv /\ InputInv
    /\ TripsReal

\* The output of which every signal in the server is, or the one before it: what
\* arrived last, or a first output that was there from the start.
Base == IF arrived > 0 THEN arrived ELSE IF heldFirst THEN 1 ELSE 0

\* 1 for the signals that the write under way has not come to.
Lag(s) == IF w > 1 /\ s >= w THEN 1 ELSE 0

WritingInv == w > 1 => writing # Nothing /\ writing = arrived

\* A signal in the server is behind the first one by the write under way, and by those
\* that failed half way.
OthersServerInv == \A s \in SignalIndexes : server[s] >= Base - torn - Lag(s)

\* The signals that were read with, or since, the first one.
Fresh(s) == pc = "Read" /\ r > 1 => s < r

OthersInputInv ==
    \A s \in SignalIndexes :
        /\ input[s] >= numCycles - 1 - torn
        /\ input[1] = Trip /\ Fresh(s) => input[s] >= numCycles - torn

OthersInv == mode = 0 => WritingInv /\ OthersServerInv /\ OthersInputInv

LEMMA TypeStep == ASSUME TypeOK, CountInv, [Next]_vars PROVE TypeOK' /\ CountInv'
<1> USE ConstantsAssumption
    DEF ConstantsAssumption, TypeOK, CountInv, SignalIndexes, test, reader, writer, history
<1>1. CASE ReadSignal
  BY <1>1 DEF ReadSignal
<1>2. CASE ReadFails
  BY <1>2 DEF ReadFails
<1>3. CASE ReadEnds
  BY <1>3 DEF ReadEnds
<1>4. CASE ExecuteFirst
  BY <1>4 DEF ExecuteFirst, Counted, SetOutput
<1>5. CASE ExecuteWait
  BY <1>5 DEF ExecuteWait, Counted
<1>6. CASE ExecuteAnswered
  BY <1>6 DEF ExecuteAnswered, Counted, SetOutput
<1>7. CASE ExecuteTimed
  BY <1>7 DEF ExecuteTimed, Counted
<1>8. CASE TwoMinutesPass
  BY <1>8 DEF TwoMinutesPass
<1>9. CASE Enqueue
  BY <1>9 DEF Enqueue
<1>10. CASE Dequeue
  BY <1>10 DEF Dequeue
<1>11. CASE WriteSignal
  <2>1. server' \in [SignalIndexes -> Nat] /\ arrived' \in Nat
    BY <1>11 DEF WriteSignal
  <2>2. w' \in SignalIndexes /\ writing' \in Nat \cup {Nothing}
    BY <1>11 DEF WriteSignal
  <2> QED BY <1>11, <2>1, <2>2, SMTT(30) DEF WriteSignal
<1>12. CASE WriteFails
  BY <1>12 DEF WriteFails
<1>13. CASE UNCHANGED vars
  BY <1>13 DEF vars
<1> QED
  BY <1>1, <1>2, <1>3, <1>4, <1>5, <1>6, <1>7, <1>8, <1>9, <1>10, <1>11, <1>12, <1>13
  DEF Next, RealTimeThread, WritingThread, Execute

LEMMA InitIInv == Init => IInv
<1> SUFFICES ASSUME Init PROVE IInv
  OBVIOUS
<1> USE ConstantsAssumption DEF ConstantsAssumption, Init, SignalIndexes
<1>1. TypeOK
  <2>1. PICK v \in OldValues : server = [s \in SignalIndexes |-> v]
    OBVIOUS
  <2>2. server \in [SignalIndexes -> Nat] /\ 1 \in SignalIndexes
    BY <2>1
  <2>3. heldFirst \in BOOLEAN
    OBVIOUS
  <2>4. faults \in 0 .. MaxFaults /\ torn \in 0 .. MaxFaults /\ numCycles \in 0 .. Trips
    OBVIOUS
  <2>5. input \in [SignalIndexes -> Nat] /\ r \in 1 .. Signals + 1 /\ w \in SignalIndexes
    OBVIOUS
  <2>6. /\ mode \in {0, 1, 3} /\ nans \in NaNSets /\ pc = "Read" /\ check = 0 /\ counter = 0
        /\ timeUp = FALSE /\ output = 0 /\ queued = Nothing /\ writing = Nothing
        /\ arrived = 0
    OBVIOUS
  <2>7. /\ check \in {0, 1} /\ counter \in 0 .. 2 /\ output \in Nat /\ arrived \in Nat
        /\ queued \in Nat \cup {Nothing} /\ writing \in Nat \cup {Nothing}
    BY ONLY <2>6
  <2> QED BY ONLY <2>2, <2>3, <2>4, <2>5, <2>6, <2>7 DEF TypeOK
<1>4. CountInv
  BY DEF CountInv
<1>2. Before /\ During /\ WayInv /\ TripsReal
  BY DEF Before, During, WayInv, TripsReal, Trip
<1>3. ServerInv /\ InputInv
  <2>1. Memory(0) # Memory(1)
    BY MemoryAssumption
  <2>2. input[1] = 0 /\ numCycles = 0 /\ arrived = 0
    OBVIOUS
  <2>3. Memory(server[1]) = Memory(1) <=> heldFirst
    OBVIOUS
  <2> QED BY <2>1, <2>2, <2>3 DEF ServerInv, InputInv
<1> QED BY <1>1, <1>2, <1>3, <1>4 DEF IInv

\* What is counted is the output of this trip, which did arrive, or in the first trip what
\* the server held.
LEMMA AnsweredTrip ==
    ASSUME IInv, pc = "Execute", mode = 0, check = 1, Answered
    PROVE  \/ input[1] = Trip /\ arrived = Trip
           \/ numCycles = 0 /\ heldFirst /\ Memory(input[1]) = Memory(1)
<1>1. 1 \in SignalIndexes
  BY ConstantsAssumption DEF ConstantsAssumption, SignalIndexes
<1>2. output = Trip /\ numCycles \in Nat /\ arrived \in Nat /\ input[1] \in Nat
  BY <1>1 DEF IInv, TypeOK, During
<1>3. Memory(input[1]) = Memory(Trip)
  BY <1>2 DEF Answered
<1>4. Memory(numCycles) # Memory(Trip)
  BY MemoryAssumption, ConstantsAssumption
  DEF ConstantsAssumption, IInv, TypeOK, Trip
<1>5. arrived <= Trip
  BY DEF IInv, WayInv
<1>6. CASE input[1] \in numCycles .. arrived /\ arrived > 0
  BY <1>2, <1>3, <1>4, <1>5, <1>6 DEF Trip
<1>7. CASE numCycles = 0 /\ (Memory(input[1]) = Memory(1) => heldFirst)
  BY <1>2, <1>3, <1>7 DEF Trip
<1>8. CASE numCycles = 1 /\ heldFirst /\ Memory(input[1]) = Memory(1)
  BY <1>2, <1>3, <1>4, <1>8 DEF Trip
<1> QED BY <1>6, <1>7, <1>8 DEF IInv, InputInv

LEMMA StepIInv == ASSUME IInv, [Next]_vars PROVE IInv'
<1>1. TypeOK' /\ CountInv'
  BY TypeStep DEF IInv
<1> DEFINE Inv == Before /\ During /\ WayInv /\ ServerInv /\ InputInv /\ TripsReal
<1>2. TypeOK /\ CountInv /\ Inv
  BY DEF IInv
<1>3. 1 \in SignalIndexes
  BY ConstantsAssumption DEF ConstantsAssumption, SignalIndexes
<1> SUFFICES Inv'
  BY <1>1 DEF IInv
<1> USE DEF Before, During, OnTheWay, WayInv, ServerInv, InputInv, TripsReal, Trip,
        test, reader, writer, history
<1>4. CASE ReadSignal
  <2>1. /\ input' = [input EXCEPT ![r] = server[r]]
        /\ UNCHANGED <<mode, pc, check, counter, numCycles, output, queued, writing, server,
                       arrived, heldFirst>>
    BY <1>4 DEF ReadSignal
  <2>2. Before' /\ During' /\ WayInv' /\ ServerInv' /\ TripsReal'
    BY <1>2, <2>1
  <2>3. CASE r # 1
    <3>1. input'[1] = input[1]
      BY <1>2, <1>3, <2>1, <2>3 DEF TypeOK
    <3> QED BY <1>2, <2>1, <2>2, <3>1
  <2>4. CASE r = 1
    <3>1. input'[1] = server[1]
      BY <1>2, <1>3, <2>1, <2>4 DEF TypeOK
    <3>2. CASE arrived > 0
      BY <1>2, <2>1, <3>1, <3>2 DEF TypeOK
    <3>3. CASE arrived = 0
      BY <1>2, <2>1, <3>1, <3>3 DEF TypeOK
    <3> QED BY <1>2, <3>2, <3>3 DEF TypeOK
  <2> QED BY <2>3, <2>4
<1>5. CASE ReadFails \/ ReadEnds
  BY <1>2, <1>5 DEF ReadFails, ReadEnds
<1>6. CASE ExecuteFirst
  BY <1>2, <1>6 DEF ExecuteFirst, Counted, SetOutput, TypeOK
<1>7. CASE ExecuteWait
  BY <1>2, <1>7 DEF ExecuteWait, Counted, TypeOK
<1>8. CASE ExecuteAnswered
  <2>1. /\ pc = "Execute" /\ mode = 0 /\ check = 1 /\ Memory(input[1]) = Memory(output)
        /\ numCycles' = numCycles + 1
        /\ UNCHANGED <<mode, check, input, queued, writing, server, arrived, heldFirst>>
    BY <1>8 DEF ExecuteAnswered, Answered
  <2>2. output = Trip /\ numCycles \in Nat /\ arrived \in Nat /\ input[1] \in Nat
    BY <1>2, <1>3, <2>1 DEF TypeOK
  <2>4. \/ input[1] = Trip /\ arrived = Trip
        \/ numCycles = 0 /\ heldFirst /\ Memory(input[1]) = Memory(1)
    BY <1>8, AnsweredTrip DEF ExecuteAnswered
  <2>5. TripsReal' /\ InputInv'
    <3>1. CASE input[1] = Trip /\ arrived = Trip
      BY <2>1, <2>2, <3>1
    <3>2. CASE numCycles = 0 /\ heldFirst /\ Memory(input[1]) = Memory(1)
      BY <2>1, <2>2, <3>2
    <3> QED BY <2>4, <3>1, <3>2
  <2>6. WayInv'
    BY <1>2, <2>1, <2>2, <2>4, ConstantsAssumption DEF ConstantsAssumption, TypeOK
  <2>7. counter' > 0 /\ (pc' # "Exited" => output' = Trip')
    BY <1>2, <1>8, <2>1, <2>2 DEF ExecuteAnswered, Counted, SetOutput, TypeOK
  <2>8. Before' /\ During' /\ ServerInv'
    BY <1>2, <2>1, <2>7
  <2> QED BY <2>5, <2>6, <2>8
<1>9. CASE ExecuteTimed \/ TwoMinutesPass
  BY <1>2, <1>9 DEF ExecuteTimed, TwoMinutesPass, TypeOK
<1>10. CASE Enqueue
  BY <1>2, <1>10, ConstantsAssumption DEF ConstantsAssumption, Enqueue, TypeOK
<1>11. CASE Dequeue
  BY <1>2, <1>11 DEF Dequeue, TypeOK
<1>12. CASE WriteSignal
  <2>1. /\ pc # "Exited" /\ writing # Nothing
        /\ server' = [server EXCEPT ![w] = writing]
        /\ arrived' = IF w = 1 THEN writing ELSE arrived
        /\ writing' \in {writing, Nothing}
        /\ UNCHANGED <<mode, pc, check, counter, numCycles, output, input, queued, heldFirst>>
    BY <1>12 DEF WriteSignal
  <2>2. Before' /\ During'
    BY <1>2, <2>1
  <2>3. CASE w # 1
    <3>1. arrived' = arrived /\ server'[1] = server[1]
      BY <1>2, <1>3, <2>1, <2>3 DEF TypeOK
    <3> QED BY <1>2, <2>1, <2>2, <3>1
  <2>4. CASE w = 1
    <3>1. arrived' = writing /\ server'[1] = writing
      BY <1>2, <1>3, <2>1, <2>4 DEF TypeOK
    <3>2. CASE mode = 0
      <4>1. writing \in {numCycles, Trip} /\ writing > 0 /\ writing >= arrived
        BY <1>2, <2>1, <3>2
      <4>2. arrived \in Nat /\ numCycles \in Nat
        BY <1>2 DEF TypeOK
      <4>3. WayInv'
        BY <1>2, <2>1, <3>1, <4>1, <4>2, ConstantsAssumption DEF ConstantsAssumption, TypeOK
      <4>4. ServerInv' /\ TripsReal'
        BY <1>2, <2>1, <3>1, <4>1, <4>2
      <4>5. InputInv'
        BY <1>2, <2>1, <3>1, <4>1, <4>2
      <4> QED BY <2>2, <4>3, <4>4, <4>5
    <3>3. CASE mode # 0
      <4>1. numCycles = 0
        BY <1>2, <3>3 DEF CountInv
      <4> QED BY <2>1, <2>2, <3>3, <4>1
    <3> QED BY <3>2, <3>3
  <2> QED BY <2>3, <2>4
<1>13. CASE WriteFails
  BY <1>2, <1>13 DEF WriteFails, TypeOK
<1>14. CASE UNCHANGED vars
  BY <1>2, <1>14 DEF vars
<1> QED
  BY <1>4, <1>5, <1>6, <1>7, <1>8, <1>9, <1>10, <1>11, <1>12, <1>13, <1>14
  DEF Next, RealTimeThread, WritingThread, Execute

LEMMA Inductive == Spec => []IInv
BY InitIInv, StepIInv, PTL DEF Spec

LEMMA InitOthersInv == Init => OthersInv
<1> SUFFICES ASSUME Init, mode = 0 PROVE WritingInv /\ OthersServerInv /\ OthersInputInv
  BY DEF OthersInv
<1> USE ConstantsAssumption DEF ConstantsAssumption, SignalIndexes
<1>1. WritingInv
  BY DEF Init, WritingInv
<1>2. OthersServerInv
  <2>1. PICK v \in OldValues : server = [s \in SignalIndexes |-> v]
    BY DEF Init
  <2>2. heldFirst => v # 0
    <3>1. Memory(0) # Memory(1)
      BY MemoryAssumption
    <3>2. server[1] = v
      BY <2>1
    <3>3. heldFirst <=> Memory(server[1]) = Memory(1)
      BY DEF Init
    <3> QED BY <3>1, <3>2, <3>3
  <2>3. v \in Nat /\ torn = 0 /\ arrived = 0 /\ w = 1 /\ heldFirst \in BOOLEAN
    BY DEF Init
  <2> QED BY <2>1, <2>2, <2>3 DEF OthersServerInv, Base, Lag
<1>3. OthersInputInv
  BY DEF Init, OthersInputInv, Trip
<1> QED BY <1>1, <1>2, <1>3

\* The first signal of this trip was read only if it had arrived in the server.
LEMMA ReadTrip ==
    ASSUME IInv, mode = 0, input[1] = Trip
    PROVE  numCycles = 0 \/ arrived = Trip
<1>1. numCycles \in Nat /\ arrived \in Nat /\ numCycles <= Trips
  BY ConstantsAssumption DEF ConstantsAssumption, IInv, TypeOK
<1>2. arrived <= Trip
  BY DEF IInv, WayInv
<1>3. CASE input[1] \in numCycles .. arrived /\ arrived > 0
  BY <1>1, <1>2, <1>3 DEF Trip
<1>4. CASE numCycles = 1 /\ Memory(input[1]) = Memory(1)
  <2>1. Memory(1) # Memory(2)
    BY <1>1, <1>4, MemoryAssumption, ConstantsAssumption DEF ConstantsAssumption
  <2> QED BY <1>4, <2>1 DEF Trip
<1> QED BY <1>3, <1>4 DEF IInv, InputInv

\* What is being written is at most one output after what has arrived.
LEMMA BaseFacts ==
    ASSUME IInv, mode = 0
    PROVE  /\ Base \in Nat /\ numCycles <= Base
           /\ writing # Nothing => writing \in Nat /\ writing > 0 /\ writing <= Base + 1
           /\ arrived > 0 => Base = arrived
<1>1. numCycles \in Nat /\ arrived \in Nat /\ heldFirst \in BOOLEAN
  BY DEF IInv, TypeOK
<1>2. Base \in Nat /\ numCycles <= Base
  BY <1>1 DEF IInv, TripsReal, Base
<1>3. writing # Nothing => writing \in {numCycles, numCycles + 1} /\ writing > 0
  BY DEF IInv, WayInv, OnTheWay, Trip
<1> QED BY <1>1, <1>2, <1>3 DEF Base

LEMMA StepOthersInv == ASSUME IInv, OthersInv, [Next]_vars PROVE OthersInv'
<1> USE DEF SignalIndexes
<1>1. /\ numCycles \in Nat /\ torn \in Nat /\ r \in 1 .. Signals + 1 /\ w \in SignalIndexes
      /\ input \in [SignalIndexes -> Nat] /\ server \in [SignalIndexes -> Nat]
      /\ 1 \in SignalIndexes /\ Signals \in Nat
  BY ConstantsAssumption DEF ConstantsAssumption, IInv, TypeOK
<1>2. mode' = mode
  BY DEF Next, RealTimeThread, WritingThread, Execute, vars, ReadSignal, ReadFails, ReadEnds,
         ExecuteFirst, ExecuteWait, ExecuteAnswered, ExecuteTimed, TwoMinutesPass, Enqueue,
         Dequeue, WriteSignal, WriteFails
<1> SUFFICES ASSUME mode = 0 PROVE (WritingInv /\ OthersServerInv /\ OthersInputInv)'
  BY <1>2 DEF OthersInv
<1>3. WritingInv /\ OthersServerInv /\ OthersInputInv
  BY DEF OthersInv
<1>4. Base \in Nat /\ numCycles <= Base
  BY BaseFacts
<1>5. CASE ReadSignal
  <2>1. /\ pc = "Read" /\ pc' = "Read" /\ r \in SignalIndexes
        /\ input' = [input EXCEPT ![r] = server[r]] /\ r' = r + 1
        /\ UNCHANGED <<numCycles, server, writing, w, torn, arrived, heldFirst>>
    BY <1>1, <1>5 DEF ReadSignal, test, writer, history
  <2>2. WritingInv' /\ OthersServerInv'
    BY <1>3, <2>1 DEF WritingInv, OthersServerInv, Base, Lag
  <2>3. server[r] >= Base - torn - 1
    BY <1>1, <1>3, <1>4, <2>1 DEF OthersServerInv, Lag
  <2>4. ASSUME NEW s \in SignalIndexes
        PROVE  /\ input'[s] >= numCycles - 1 - torn
               /\ input'[1] = Trip /\ s < r + 1 => input'[s] >= numCycles - torn
    <3>1. CASE r = 1
      <4>1. input'[1] = server[1] /\ (s # 1 => input'[s] = input[s])
        BY <1>1, <2>1, <3>1
      <4>2. s < r + 1 => s = 1
        BY <1>1, <3>1
      <4> QED BY <1>1, <1>3, <1>4, <2>3, <3>1, <4>1, <4>2 DEF OthersInputInv, Trip
    <3>2. CASE r # 1 /\ s # r
      <4>1. input'[1] = input[1] /\ input'[s] = input[s]
        BY <1>1, <2>1, <3>2
      <4>2. s < r + 1 => Fresh(s)
        BY <1>1, <3>2 DEF Fresh
      <4> QED BY <1>3, <4>1, <4>2 DEF OthersInputInv
    <3>3. CASE r # 1 /\ s = r
      <4>1. input'[1] = input[1] /\ input'[s] = server[r] /\ input[s] \in Nat
        BY <1>1, <2>1, <3>3
      <4>2. input[1] = Trip => numCycles = 0 \/ Base = numCycles + 1
        BY <1>1, ReadTrip, BaseFacts DEF Trip
      <4>3. server[r] \in Nat
        BY <1>1, <2>1
      <4> QED BY <1>1, <1>4, <2>3, <4>1, <4>2, <4>3
    <3> QED BY <3>1, <3>2, <3>3
  <2>5. OthersInputInv'
    BY <1>1, <2>1, <2>4 DEF OthersInputInv, Trip, Fresh
  <2> QED BY <2>2, <2>5
<1>6. CASE ReadFails
  <2>1. /\ pc = "Read" /\ pc' = "Read" /\ r' = Signals + 1
        /\ torn' = IF r > 1 THEN torn + 1 ELSE torn
        /\ UNCHANGED <<numCycles, input, server, writing, w, arrived, heldFirst>>
    BY <1>6 DEF ReadFails, test, writer
  <2>2. WritingInv'
    BY <1>3, <2>1 DEF WritingInv
  <2>3. OthersServerInv'
    <3>1. Base' = Base /\ torn' \in Nat /\ torn' >= torn
      BY <1>1, <2>1 DEF Base
    <3>2. \A s \in SignalIndexes : Lag(s)' = Lag(s) /\ Lag(s) \in {0, 1} /\ server[s] \in Nat
      BY <1>1, <2>1 DEF Lag
    <3> QED BY <1>1, <1>3, <1>4, <2>1, <3>1, <3>2 DEF OthersServerInv
  <2>4. ASSUME NEW s \in SignalIndexes
        PROVE  /\ input'[s] >= numCycles - 1 - torn'
               /\ input'[1] = Trip => input'[s] >= numCycles - torn'
    <3>1. input'[s] \in Nat /\ input'[s] = input[s] /\ input[s] >= numCycles - 1 - torn
      BY <1>1, <1>3, <2>1 DEF OthersInputInv
    <3>2. CASE r > 1
      BY <1>1, <2>1, <3>1, <3>2
    <3>3. CASE r = 1
      <4>1. Fresh(s) /\ torn' = torn
        BY <2>1, <3>3 DEF Fresh
      <4> QED BY <1>3, <2>1, <3>1, <4>1 DEF OthersInputInv
    <3> QED BY <1>1, <3>2, <3>3
  <2>5. OthersInputInv'
    BY <2>1, <2>4 DEF OthersInputInv, Trip
  <2> QED BY <2>2, <2>3, <2>5
<1>7. CASE ReadEnds
  <2>1. /\ pc = "Read" /\ pc' = "Execute" /\ r = Signals + 1 /\ r' = 1
        /\ UNCHANGED <<numCycles, input, server, writing, w, torn, arrived, heldFirst>>
    BY <1>1, <1>7 DEF ReadEnds, test, writer, history
  <2>2. \A s \in SignalIndexes : Fresh(s)
    BY <1>1, <2>1 DEF Fresh
  <2> QED
    BY <1>3, <2>1, <2>2
    DEF WritingInv, OthersServerInv, OthersInputInv, Base, Lag, Trip
<1>8. CASE ExecuteFirst \/ ExecuteWait \/ ExecuteTimed \/ Enqueue
  <2>1. /\ UNCHANGED <<numCycles, input, r, server, writing, w, torn, arrived, heldFirst>>
        /\ pc # "Read" \/ (mode # 0)
    BY <1>8 DEF ExecuteFirst, ExecuteWait, ExecuteTimed, Enqueue, test, reader, writer, history
  <2>2. WritingInv' /\ OthersServerInv'
    BY <1>3, <2>1 DEF WritingInv, OthersServerInv, Base, Lag
  <2>3. \A s \in SignalIndexes : Fresh(s)
    BY <2>1 DEF Fresh
  <2>4. OthersInputInv'
    BY <1>3, <2>1, <2>3 DEF OthersInputInv, Trip
  <2> QED BY <2>2, <2>4
<1>9. CASE ExecuteAnswered
  <2>1. /\ pc = "Execute" /\ check = 1 /\ Answered
        /\ numCycles' = numCycles + 1
        /\ UNCHANGED <<input, r, server, writing, w, torn, arrived, heldFirst>>
    BY <1>9 DEF ExecuteAnswered, reader, writer, history
  <2>2. WritingInv' /\ OthersServerInv'
    BY <1>3, <2>1 DEF WritingInv, OthersServerInv, Base, Lag
  <2>3. \/ input[1] = Trip
        \/ numCycles = 0 /\ Memory(input[1]) = Memory(1)
    BY <2>1, AnsweredTrip
  <2>4. Memory(1) # Memory(2)
    BY MemoryAssumption, ConstantsAssumption DEF ConstantsAssumption
  <2>5. input[1] # numCycles + 2
    BY <1>1, <2>3, <2>4 DEF Trip
  <2>6. \A s \in SignalIndexes : input[s] >= numCycles - torn
    <3>1. \A s \in SignalIndexes : Fresh(s) /\ input[s] \in Nat
      BY <1>1, <2>1 DEF Fresh
    <3> QED BY <1>1, <1>3, <2>3, <3>1 DEF OthersInputInv
  <2>7. OthersInputInv'
    BY <1>1, <2>1, <2>5, <2>6 DEF OthersInputInv, Trip
  <2> QED BY <2>2, <2>7
<1>10. CASE Dequeue
  <2>1. /\ writing = Nothing /\ w' = 1
        /\ UNCHANGED <<pc, numCycles, input, r, server, torn, arrived, heldFirst>>
    BY <1>10 DEF Dequeue, test, reader, history
  <2>2. w = 1
    BY <1>1, <1>3, <2>1 DEF WritingInv
  <2> QED
    BY <1>3, <2>1, <2>2
    DEF WritingInv, OthersServerInv, OthersInputInv, Base, Lag, Trip, Fresh
<1>11. CASE WriteSignal
  <2>1. /\ writing # Nothing /\ server' = [server EXCEPT ![w] = writing]
        /\ arrived' = IF w = 1 THEN writing ELSE arrived
        /\ \/ w < Signals /\ w' = w + 1 /\ writing' = writing
           \/ w = Signals /\ w' = 1
        /\ UNCHANGED <<pc, numCycles, input, r, torn, heldFirst>>
    BY <1>1, <1>11 DEF WriteSignal, test, reader
  <2>2. writing \in Nat /\ writing > 0 /\ writing <= Base + 1
    BY <2>1, BaseFacts
  <2>3. arrived' = writing
    BY <1>1, <1>3, <2>1 DEF WritingInv
  <2>4. Base' = writing
    BY <2>2, <2>3 DEF Base
  <2>5. WritingInv'
    BY <2>1, <2>3 DEF WritingInv
  <2>6. ASSUME NEW s \in SignalIndexes PROVE server'[s] >= writing - torn - Lag(s)'
    <3>1. Lag(s)' \in {0, 1} /\ server[s] \in Nat /\ server[s] >= Base - torn - Lag(s)
      BY <1>1, <1>3 DEF Lag, OthersServerInv
    <3>2. CASE s = w
      BY <1>1, <2>1, <2>2, <3>1, <3>2
    <3>3. CASE s # w
      <4>1. server'[s] = server[s]
        BY <1>1, <2>1, <3>3
      <4>2. CASE w = 1
        <5>1. Lag(s) = 0 /\ Lag(s)' = 1
          BY <1>1, <2>1, <3>3, <4>2 DEF Lag
        <5> QED BY <1>1, <1>4, <2>2, <3>1, <4>1, <5>1
      <4>3. CASE w # 1
        <5>1. Base = writing
          BY <1>1, <1>3, <2>2, <4>3, BaseFacts DEF WritingInv
        <5>2. Lag(s)' = Lag(s)
          BY <1>1, <2>1, <3>3, <4>3 DEF Lag
        <5> QED BY <3>1, <4>1, <5>1, <5>2
      <4> QED BY <4>2, <4>3
    <3> QED BY <3>2, <3>3
  <2>7. OthersServerInv'
    BY <2>1, <2>4, <2>6 DEF OthersServerInv
  <2>8. OthersInputInv'
    BY <1>3, <2>1 DEF OthersInputInv, Trip, Fresh
  <2> QED BY <2>5, <2>7, <2>8
<1>12. CASE WriteFails
  <2>1. /\ torn' = IF w > 1 THEN torn + 1 ELSE torn
        /\ w' = 1
        /\ UNCHANGED <<pc, numCycles, input, r, server, arrived, heldFirst>>
    BY <1>12 DEF WriteFails, test, reader
  <2>2. WritingInv' /\ Base' = Base
    BY <2>1 DEF WritingInv, Base
  <2>3. ASSUME NEW s \in SignalIndexes
        PROVE  Lag(s)' = 0 /\ torn' \in Nat /\ torn' >= torn /\ torn' >= torn + Lag(s)
    BY <1>1, <2>1 DEF Lag
  <2>4. ASSUME NEW s \in SignalIndexes PROVE server'[s] >= Base - torn' - Lag(s)'
    <3>1. /\ Lag(s) \in {0, 1} /\ server'[s] \in Nat
          /\ server'[s] >= Base - torn - Lag(s)
      BY <1>1, <1>3, <2>1 DEF Lag, OthersServerInv
    <3> QED BY <1>1, <1>4, <2>3, <3>1
  <2>5. OthersInputInv'
    BY <1>1, <1>3, <2>1, <2>3 DEF OthersInputInv, Trip, Fresh
  <2>6. OthersServerInv'
    BY <2>2, <2>4 DEF OthersServerInv
  <2> QED BY <2>2, <2>5, <2>6
<1>13. CASE TwoMinutesPass
  BY <1>13 DEF TwoMinutesPass
<1>14. CASE UNCHANGED vars
  BY <1>3, <1>14
  DEF WritingInv, OthersServerInv, OthersInputInv, Base, Lag, Trip, Fresh, vars, test, reader,
      writer, history
<1> QED
  BY <1>5, <1>6, <1>7, <1>8, <1>9, <1>10, <1>11, <1>12, <1>13, <1>14
  DEF Next, RealTimeThread, WritingThread, Execute

\* Every variable keeps its type, and no more trips are counted than the test has
\* (OPCUATestGAM.cpp:80-129).
THEOREM TypeCorrect == Spec => []TypeOK
<1>1. IInv => TypeOK
  BY DEF IInv
<1> QED BY Inductive, <1>1, PTL

\* Whatever is late, replaced, repeated or lost on the way, a trip is counted only for
\* an output that reached the server, although only what the memory holds of it is
\* compared (OPCUATestGAM.cpp:92).
THEOREM TripsCorrect == Spec => []TripsReal
<1>1. IInv => TripsReal
  BY DEF IInv
<1> QED BY Inductive, <1>1, PTL

\* When a trip is about to be counted, only the first signal being compared, the others
\* are those of this trip or of the one before, and of one more for each read or write
\* that failed half way (OPCUATestGAM.cpp:92-106).
THEOREM OthersCorrect == Spec => []OthersOneTripBehind
<1>1. IInv /\ OthersInv => OthersOneTripBehind
  <2> SUFFICES ASSUME IInv, OthersInv, pc = "Execute", mode = 0, numCycles >= 2, Answered,
                      NEW s \in SignalIndexes
               PROVE  input[s] >= output - 1 - torn
    BY DEF OthersOneTripBehind
  <2>1. numCycles \in Nat /\ check = 1
    BY DEF IInv, TypeOK, Before
  <2>2. output = Trip
    BY <2>1 DEF IInv, During
  <2>3. input[1] = Trip
    BY <2>1, AnsweredTrip
  <2>4. Fresh(s)
    BY DEF Fresh
  <2>5. input[s] >= numCycles - torn
    BY <2>3, <2>4 DEF OthersInv, OthersInputInv
  <2> QED BY <2>1, <2>2, <2>5 DEF Trip
<1>2. Init => OthersInv
  BY InitOthersInv
<1>3. IInv /\ OthersInv /\ [Next]_vars => OthersInv'
  BY StepOthersInv
<1> QED BY Inductive, <1>1, <1>2, <1>3, PTL DEF Spec
-----------------------------------------------------------------------------
\* The trips that were counted, none of which was for a NaN, and the only way to end.
NaNInv ==
    mode = 0 =>
        /\ \A n \in 1 .. numCycles : Memory(n) \notin nans
        /\ pc = "Exited" => numCycles = Trips

\* The values of the inputs, whether these are late or not, never end a test whose output
\* reaches a NaN: it waits for ever (OPCUATestGAM.cpp:92, 99-102).  This is the part of
\* TestCompletes that is no liveness.
THEOREM NaNNeverEnds == Spec => (mode = 0 /\ ReachesNaN => [](pc # "Exited"))
<1>1. Init => NaNInv
  BY DEF Init, NaNInv
<1>2. ASSUME IInv, NaNInv, [Next]_vars PROVE NaNInv' /\ UNCHANGED <<mode, nans>>
  <2> USE <1>2
  <2>1. numCycles \in 0 .. Trips
    BY DEF IInv, TypeOK
  <2>2. CASE ExecuteAnswered
    <3>1. /\ pc # "Exited" /\ mode = 0 /\ check = 1 /\ Memory(output) \notin nans
          /\ UNCHANGED <<mode, nans>> /\ numCycles' = numCycles + 1
          /\ pc' = "Exited" => numCycles' = Trips
      BY <2>2 DEF ExecuteAnswered, Answered
    <3>2. output = numCycles + 1
      BY <3>1 DEF IInv, During, Trip
    <3>3. \A n \in 1 .. numCycles + 1 : n \in 1 .. numCycles \/ n = numCycles + 1
      BY <2>1
    <3> QED BY <3>1, <3>2, <3>3 DEF NaNInv
  <2>3. CASE ~ExecuteAnswered
    <3>1. UNCHANGED <<mode, nans, numCycles>> /\ (mode = 0 /\ pc' = "Exited" => pc = "Exited")
      BY <2>3
      DEF Next, RealTimeThread, WritingThread, Execute, vars, test, ReadSignal, ReadFails,
          ReadEnds, ExecuteFirst, ExecuteWait, ExecuteTimed, TwoMinutesPass, Enqueue, Dequeue,
          WriteSignal, WriteFails
    <3> QED BY <3>1 DEF NaNInv
  <2> QED BY <2>2, <2>3
<1>3. ASSUME IInv, NaNInv, mode = 0, ReachesNaN PROVE pc # "Exited"
  BY <1>3 DEF NaNInv, ReachesNaN
<1>4. ASSUME IInv, NaNInv, [Next]_vars, mode = 0 /\ ReachesNaN
      PROVE  (mode = 0 /\ ReachesNaN)'
  BY <1>2, <1>4 DEF ReachesNaN
<1>5. ASSUME IInv, NaNInv, [Next]_vars PROVE NaNInv'
  BY <1>2, <1>5
<1> QED BY Inductive, <1>1, <1>3, <1>4, <1>5, PTL DEF Spec
-----------------------------------------------------------------------------
\* The other modes write the initial outputs only.
OtherModesInv ==
    mode # 0 =>
        /\ output = 0 /\ arrived = 0
        /\ queued \in {0, Nothing} /\ writing \in {0, Nothing}

LEMMA OtherModesStep ==
    ASSUME TypeOK, OtherModesInv, [Next]_vars PROVE OtherModesInv'
<1> USE DEF TypeOK, OtherModesInv, test, reader, writer, history
<1>1. CASE ReadSignal \/ ReadFails \/ ReadEnds
  BY <1>1 DEF ReadSignal, ReadFails, ReadEnds
<1>2. CASE Execute \/ TwoMinutesPass
  BY <1>2 DEF Execute, ExecuteFirst, ExecuteWait, ExecuteAnswered, ExecuteTimed, TwoMinutesPass
<1>3. CASE Enqueue
  BY <1>3 DEF Enqueue
<1>4. CASE WritingThread
  BY <1>4 DEF WritingThread, Dequeue, WriteSignal, WriteFails
<1>5. CASE UNCHANGED vars
  BY <1>5 DEF vars
<1> QED BY <1>1, <1>2, <1>3, <1>4, <1>5 DEF Next, RealTimeThread

\* Execute begins the trips and counts them, and the write of the first signal is an
\* arrival unless the same output arrived before.
LEMMA RoundTripStep ==
    ASSUME IInv, OtherModesInv, [Next]_vars
    PROVE  [RoundTrip!Next]_<<output, arrived, numCycles, heldFirst>>
<1> USE DEF test, reader, writer, history
<1>1. numCycles \in Nat /\ arrived \in Nat /\ output \in Nat /\ Trips \in Nat \ {0}
      /\ check \in {0, 1} /\ counter \in Nat
  BY ConstantsAssumption DEF ConstantsAssumption, IInv, TypeOK
<1>2. CASE ReadSignal \/ ReadFails \/ ReadEnds \/ ExecuteWait \/ ExecuteTimed \/ TwoMinutesPass
           \/ Enqueue \/ Dequeue \/ WriteFails \/ UNCHANGED vars
  BY <1>2
  DEF ReadSignal, ReadFails, ReadEnds, ExecuteWait, ExecuteTimed, TwoMinutesPass, Enqueue,
      Dequeue, WriteFails, vars
<1>3. CASE ExecuteFirst
  <2>1. /\ mode = 0 /\ check = 0 /\ counter' = Counted(counter) /\ output' = SetOutput(counter')
        /\ UNCHANGED <<numCycles, arrived, heldFirst>>
    BY <1>3 DEF ExecuteFirst
  <2>2. output = 0 /\ counter = 0 /\ numCycles = 0
    BY <2>1 DEF IInv, Before
  <2>3. output' = 1
    BY <2>1, <2>2 DEF Counted, SetOutput
  <2> QED BY <1>1, <2>1, <2>2, <2>3 DEF RoundTrip!Next, RoundTrip!Begin
<1>4. CASE ExecuteAnswered
  <2>1. /\ pc = "Execute" /\ mode = 0 /\ check = 1 /\ Answered /\ numCycles' = numCycles + 1
        /\ UNCHANGED <<arrived, heldFirst>>
    BY <1>4 DEF ExecuteAnswered
  <2>2. output = numCycles + 1 /\ counter > 0
    BY <2>1 DEF IInv, During, Trip
  <2>3. arrived = output \/ (heldFirst /\ numCycles = 0)
    BY <2>1, <2>2, AnsweredTrip DEF Trip
  <2>4. output' = IF numCycles' = Trips THEN output ELSE output + 1
    BY <1>1, <1>4, <2>2 DEF ExecuteAnswered, Counted, SetOutput
  <2> QED BY <2>1, <2>2, <2>3, <2>4 DEF RoundTrip!Next, RoundTrip!Count
<1>5. CASE WriteSignal
  <2>1. /\ writing # Nothing /\ arrived' = IF w = 1 THEN writing ELSE arrived
        /\ UNCHANGED <<output, numCycles, heldFirst, mode>> /\ pc # "Exited"
    BY <1>5 DEF WriteSignal
  <2>2. CASE mode # 0
    BY <2>1, <2>2 DEF OtherModesInv
  <2>3. CASE mode = 0
    <3>1. writing \in {numCycles, numCycles + 1} /\ writing > 0 /\ writing >= arrived
      BY <2>1, <2>3 DEF IInv, WayInv, OnTheWay, Trip
    <3>2. output = numCycles + 1
      BY <1>1, <2>1, <2>3 DEF IInv, Before, During, Trip
    <3>3. arrived' = arrived \/ arrived' \in arrived + 1 .. output
      BY <1>1, <2>1, <3>1, <3>2
    <3> QED BY <2>1, <3>3 DEF RoundTrip!Next, RoundTrip!Arrive
  <2> QED BY <2>2, <2>3
<1> QED
  BY <1>2, <1>3, <1>4, <1>5 DEF Next, RealTimeThread, WritingThread, Execute

\* The outputs go to the server one at a time, none replaces a newer one there, and a
\* trip is counted once its output is there (OPCUATestGAM.cpp:86-106).
THEOREM RefinesRoundTrips == Spec => ImplementsRoundTrips
<1>1. Init => RoundTrip!Init /\ OtherModesInv
  <2> SUFFICES ASSUME Init PROVE RoundTrip!Init /\ OtherModesInv
    OBVIOUS
  <2>1. heldFirst \in BOOLEAN
    BY DEF Init
  <2>2. output = 0 /\ arrived = 0 /\ numCycles = 0 /\ queued = Nothing /\ writing = Nothing
    BY DEF Init
  <2> QED BY <2>1, <2>2 DEF RoundTrip!Init, OtherModesInv
<1>2. IInv /\ OtherModesInv /\ [Next]_vars => OtherModesInv'
  BY OtherModesStep DEF IInv
<1>3. IInv /\ OtherModesInv /\ [Next]_vars
      => [RoundTrip!Next]_<<output, arrived, numCycles, heldFirst>>
  BY RoundTripStep
<1> QED
  BY Inductive, <1>1, <1>2, <1>3, PTL DEF Spec, ImplementsRoundTrips, RoundTrip!Spec
=============================================================================
