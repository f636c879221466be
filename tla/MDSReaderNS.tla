---------------------------- MODULE MDSReaderNS ----------------------------
(***************************************************************************)
(* The MDSReaderNS data source replays signals of an MDSplus tree: once    *)
(* per cycle Synchronise picks, for every node, the sample (or the two     *)
(* samples) that stand for the current time, and notifies the end of the   *)
(* signals when all nodes have ended.                                      *)
(*                                                                         *)
(* Time is an integer number of ticks.  A value is represented by the      *)
(* samples it comes from: <<k, k>> is sample k, <<k, k + 1>> a value       *)
(* interpolated between two samples, << >> the value 0 that fills a node   *)
(* without data.  The configuration and the tree are inputs.               *)
(***************************************************************************)
EXTENDS Integers, Sequences, FiniteSets

CONSTANTS
    Nodes,           \* the signals read from the tree
    Configurations,  \* the configurations and the data the class may be given
    NotSet,          \* a parameter that is absent
    StartTime, Period,
    Printed,         \* values printed of each node (20 in the code)
    MaxCycles        \* bound on the cycles of a run

\* The timebases increase: the documentation takes nodes to be signals.
ASSUME ConstantsAssumption ==
    /\ Nodes # {} /\ IsFiniteSet(Nodes)
    /\ StartTime \in Int /\ Period \in Nat \ {0}
    /\ Printed \in Nat /\ MaxCycles \in Nat
    /\ \A c \in Configurations : \A n \in Nodes :
          LET data == c.nodes[n].data
          IN  data = NotSet \/
                /\ data.timebase \in Seq(Int) \ {<< >>} /\ data.rows \in Nat \ {0}
                /\ \A i, j \in 1 .. Len(data.timebase) :
                      i < j => data.timebase[i] < data.timebase[j]

VARIABLES
    phase, config,
    lastSignalSample,  \* cursor of each node
    endNode,
    out,               \* the value copied to the signal memory of each node
    numCycles,
    signalsEndedNotified,
    notified,          \* history: how many times the messages were sent
    armed              \* history: the flag was clear, or some cycle had data

cycle == <<lastSignalSample, endNode, out, numCycles>>
notification == <<signalsEndedNotified, notified, armed>>
vars == <<phase, config, cycle, notification>>

dataManagement(n) == config.nodes[n].management
signalTimebase(n) == config.nodes[n].data.timebase

Zero == << >>
AsIs(k) == <<k, k>>
Between(k) == <<k, k + 1>>

\* The shorter of the data and of its timebase.
NumSamples(n) ==
    LET rows == config.nodes[n].data.rows
    IN  IF Len(signalTimebase(n)) < rows THEN Len(signalTimebase(n)) ELSE rows

\* Samples are numbered from 0, as in the code.
LastSample(n) == NumSamples(n) - 1
Time(n, k) == signalTimebase(n)[k + 1]

currentTime(c) == StartTime + c * Period

\* Of the last Synchronise.
Now == currentTime(numCycles - 1)

\* The constructor leaves signalsEndedNotified uninitialised.
Init ==
    /\ phase = "Created" /\ config \in Configurations
    /\ lastSignalSample = [n \in Nodes |-> 0]
    /\ endNode = [n \in Nodes |-> FALSE]
    /\ out = [n \in Nodes |-> Zero]
    /\ numCycles = 0
    /\ signalsEndedNotified \in BOOLEAN
    /\ notified = 0
    /\ armed = ~signalsEndedNotified
-----------------------------------------------------------------------------
(* Initialise and SetConfiguredDatabase *)

\* The parameters are there and right, the tree opens and all messages are valid.
InitialiseAccepts(c) ==
    /\ c.parameters
    /\ c.messages # NotSet => \A m \in DOMAIN c.messages : c.messages[m] = "valid"

Initialise ==
    /\ phase = "Created"
    /\ phase' = IF InitialiseAccepts(config) THEN "Initialised" ELSE "Failed"
    /\ UNCHANGED <<config, cycle, notification>>

\* The number of samples is asked of the function for every signal: it must have
\* them all, and the exception for the time, just before, is of no use.
FunctionAccepted(c) ==
    LET signals == Cardinality(Nodes) + 1
    IN  /\ c.functions = 1
        /\ c.functionSignals > 1
        /\ c.functionSignals \in {signals, signals - 1}
        /\ signals <= c.functionSignals
        /\ c.samples = 1

TimeTypes == {"uint64", "uint32", "int32", "int64"}

SignalsAccepted(c) ==
    /\ \A n \in Nodes :
          /\ c.nodes[n].expressions
          /\ c.nodes[n].columnOrder \in {0, 1, NotSet}
          /\ c.nodes[n].type # "invalid"
          /\ c.nodes[n].elements # 0
    /\ c.timeType \in TimeTypes
    /\ c.timeElements = 1

NodeRead(node) == node.management \in 0 .. 2 /\ node.data # NotSet

NodeMatches(node) == node.data.elements = node.elements

\* How many numbers the data of a node has.
DataSize(node) == node.data.rows * node.data.elements

\* The data of a node is printed even if it was not read, or has fewer values, and
\* samplingTime, which nothing allocates, is read for the raw nodes.
NodesOutcomes(c) ==
    LET node == c.nodes
        read == {n \in Nodes : NodeRead(node[n])}
    IN  (IF read = Nodes /\ \A n \in Nodes : NodeMatches(node[n])
         THEN {"Running"} ELSE {"Failed"})
        \cup (IF read # Nodes \/ \E n \in read : DataSize(node[n]) < Printed
              THEN {"Crashed"} ELSE {})
        \cup (IF \E n \in read : NodeMatches(node[n]) /\ node[n].management = 0
              THEN {"Failed", "Crashed"} ELSE {})

SetConfiguredDatabase ==
    /\ phase = "Initialised"
    /\ IF FunctionAccepted(config) /\ SignalsAccepted(config)
       THEN phase' \in NodesOutcomes(config)
       ELSE phase' = "Failed"
    /\ UNCHANGED <<config, cycle, notification>>
-----------------------------------------------------------------------------
(* GetDataNode: what one cycle does to a node, by its data management *)

NodeResult(cursor, value, found) == [cursor |-> cursor, value |-> value, found |-> found]

\* (faulty) A node without data rewinds.
KeepsRewound(n, value, found) == NodeResult(0, value, found)

Keeps(n, value, found) == NodeResult(lastSignalSample[n], value, found)

\* (faulty) One sample past the end is read.
HasSampleInclusive(n, k) == k <= NumSamples(n)

HasSample(n, k) == k < NumSamples(n)

ReadAsIs(n) ==
    LET k == lastSignalSample[n]
    IN  IF HasSample(n, k) THEN NodeResult(k + 1, AsIs(k), TRUE)
        ELSE Keeps(n, Zero, FALSE)

\* (faulty) A sample after the current time is passed.
InterpolationPassedLoose(n, i, now) == Time(n, i) <= now + 1

InterpolationPassed(n, i, now) == Time(n, i) < now

ClosestPassed(n, i, now) == Time(n, i) <= now

\* The cursor advances while the next sample is passed, up to the last sample.
Advance(n, now) ==
    LET Passed(i) == \/ dataManagement(n) = 1 /\ InterpolationPassed(n, i, now)
                     \/ dataManagement(n) = 2 /\ ClosestPassed(n, i, now)
    IN  CHOOSE k \in lastSignalSample[n] .. LastSample(n) :
            /\ k = LastSample(n) \/ ~Passed(k + 1)
            /\ \A i \in lastSignalSample[n] + 1 .. k : Passed(i)

Interpolate(n, now) ==
    LET k == Advance(n, now)
    IN  IF Time(n, 0) > now THEN Keeps(n, Zero, TRUE)
        ELSE IF Time(n, LastSample(n)) < now THEN Keeps(n, Zero, FALSE)
        ELSE NodeResult(k, Between(k), TRUE)

\* (faulty) The farther of the two samples is taken.
NearerThanNextInverted(n, k, now) == now - Time(n, k) > Time(n, k + 1) - now

NearerThanNext(n, k, now) == now - Time(n, k) < Time(n, k + 1) - now

\* At the last sample the next one, past the array, is compared but not copied.
ClosestSample(n, now) ==
    LET cursor == lastSignalSample[n]
        k == Advance(n, now)
        chosen == IF k = LastSample(n) \/ NearerThanNext(n, k, now) THEN k ELSE k + 1
    IN  IF cursor = 0 /\ Time(n, 0) > now THEN Keeps(n, Zero, TRUE)
        ELSE IF cursor >= LastSample(n) /\ Time(n, cursor) < now
             THEN Keeps(n, Zero, FALSE)
        ELSE NodeResult(k, AsIs(chosen), TRUE)

GetDataNode(n, now) ==
    CASE dataManagement(n) = 0 -> ReadAsIs(n)
      [] dataManagement(n) = 1 -> Interpolate(n, now)
      [] dataManagement(n) = 2 -> ClosestSample(n, now)
-----------------------------------------------------------------------------
AllNodesEnd == \A n \in Nodes : endNode[n]

\* (faulty) Nothing remembers that the end was notified.
FlagAfterNotForgotten(allEnd) == FALSE

\* Set with the notification, cleared by a cycle in which some node has data.
FlagAfter(allEnd) == allEnd

\* Without messages, their number is uninitialised.
NotifyOutcomes == IF config.messages = NotSet THEN {"Running", "Crashed"} ELSE {"Running"}

Synchronise ==
    /\ phase = "Running"
    /\ numCycles < MaxCycles
    /\ LET read == [n \in Nodes |-> GetDataNode(n, currentTime(numCycles))]
       IN  /\ lastSignalSample' = [n \in Nodes |-> read[n].cursor]
           /\ out' = [n \in Nodes |-> read[n].value]
           /\ endNode' = [n \in Nodes |-> ~read[n].found]
    /\ IF AllNodesEnd' /\ ~signalsEndedNotified
       THEN notified' = notified + 1 /\ phase' \in NotifyOutcomes
       ELSE UNCHANGED <<notified, phase>>
    /\ signalsEndedNotified' = FlagAfter(AllNodesEnd')
    /\ armed' = (armed \/ ~AllNodesEnd')
    /\ numCycles' = numCycles + 1
    /\ UNCHANGED config

\* The destructor deletes samplingTime, which the constructor leaves uninitialised.
Destroy ==
    /\ phase \in {"Created", "Initialised", "Running", "Failed"}
    /\ phase' \in {"Destroyed", "Crashed"}
    /\ UNCHANGED <<config, cycle, notification>>

Next == Initialise \/ SetConfiguredDatabase \/ Synchronise \/ Destroy

Spec == Init /\ [][Next]_vars
-----------------------------------------------------------------------------
TypeOK ==
    /\ phase \in {"Created", "Initialised", "Running", "Failed", "Destroyed", "Crashed"}
    /\ config \in Configurations
    /\ numCycles \in 0 .. MaxCycles
    /\ notified \in Nat
    /\ signalsEndedNotified \in BOOLEAN /\ armed \in BOOLEAN
    /\ endNode \in [Nodes -> BOOLEAN]
    /\ numCycles > 0 => \A n \in Nodes :
          /\ lastSignalSample[n] \in 0 .. NumSamples(n)
          /\ out[n] \in Seq(0 .. NumSamples(n))

Inside(n) == Time(n, 0) <= Now /\ Now <= Time(n, LastSample(n))

\* "Interpolates the signal taking as a reference the two nearest data values":
\* although the scan restarts from the cursor of the previous cycle, the two
\* samples enclose the current time, and outside the timebase the value is 0.
InterpolationEncloses ==
    \A n \in Nodes :
        (numCycles > 0 /\ dataManagement(n) = 1 /\ NumSamples(n) > 1) =>
            IF Inside(n)
            THEN \E k \in 0 .. LastSample(n) - 1 :
                    /\ out[n] = Between(k)
                    /\ Time(n, k) <= Now /\ Now <= Time(n, k + 1)
            ELSE out[n] = Zero

\* "Holds the value following the criteria of the nearest value": inside the
\* timebase no sample is nearer to the current time than the one that is held.
ClosestSampleHeld ==
    \A n \in Nodes :
        (numCycles > 0 /\ dataManagement(n) = 2 /\ Inside(n)) =>
            LET Distance(k) == IF Time(n, k) < Now THEN Now - Time(n, k)
                               ELSE Time(n, k) - Now
            IN  \E k \in 0 .. LastSample(n) :
                   /\ out[n] = AsIs(k)
                   /\ \A i \in 0 .. LastSample(n) : Distance(k) <= Distance(i)

\* A node that ended stays ended, and holds 0: the scan never finds data again.
EndIsFinal ==
    [][\A n \in Nodes : endNode[n] => endNode'[n] /\ out'[n] = Zero]_vars

\* The messages are sent exactly once, in the first cycle in which all nodes have
\* ended (if the uninitialised flag was clear, or some earlier cycle had data).
EndNotifiedOnce ==
    /\ notified <= 1
    /\ armed => (notified = 1 <=> AllNodesEnd)

\* "When a node does not have more data to retrieve the dataSourceMemory is filled
\* with 0" (MDSReaderNS.h).
ZeroAfterLastSample ==
    \A n \in Nodes :
        (numCycles > 0 /\ dataManagement(n) # 0 /\ Now > Time(n, LastSample(n)))
            => out[n] = Zero
=============================================================================
