-------------------------- MODULE MDSReaderNSProofs --------------------------
(***************************************************************************)
(* Proofs about MDSReaderNS, for any number of nodes and any timebases     *)
(* that increase.                                                          *)
(***************************************************************************)
EXTENDS MDSReaderNS, WellFoundedInduction, TLAPS

\* What SetConfiguredDatabase makes sure of.
GoodNode(n) == dataManagement(n) \in 0 .. 2 /\ config.nodes[n].data # NotSet

LEMMA NodeData ==
    ASSUME config \in Configurations, NEW n \in Nodes, GoodNode(n)
    PROVE  /\ NumSamples(n) \in Nat \ {0} /\ LastSample(n) = NumSamples(n) - 1
           /\ \A k \in 0 .. LastSample(n) : Time(n, k) \in Int
           /\ \A i, j \in 0 .. LastSample(n) : i < j => Time(n, i) < Time(n, j)
<1> DEFINE base == signalTimebase(n)
<1>1. /\ base \in Seq(Int) \ {<< >>} /\ config.nodes[n].data.rows \in Nat \ {0}
      /\ \A i, j \in 1 .. Len(base) : i < j => base[i] < base[j]
  BY ConstantsAssumption DEF GoodNode, signalTimebase, ConstantsAssumption
<1>2. Len(base) \in Nat \ {0}
  BY <1>1
<1>3. /\ NumSamples(n) \in Nat \ {0} /\ NumSamples(n) <= Len(base)
  BY <1>1, <1>2 DEF NumSamples
<1>4. \A k \in 0 .. LastSample(n) : k + 1 \in 1 .. Len(base)
  BY <1>2, <1>3 DEF LastSample
<1>5. \A k \in 0 .. LastSample(n) : Time(n, k) = base[k + 1] /\ base[k + 1] \in Int
  BY <1>1, <1>4 DEF Time
<1>6. ASSUME NEW i \in 0 .. LastSample(n), NEW j \in 0 .. LastSample(n), i < j
      PROVE  Time(n, i) < Time(n, j)
  <2>1. i + 1 \in 1 .. Len(base) /\ j + 1 \in 1 .. Len(base) /\ i + 1 < j + 1
    BY <1>3, <1>4, <1>6 DEF LastSample
  <2>2. base[i + 1] < base[j + 1]
    BY <1>1, <2>1
  <2> QED BY <1>5, <2>2
<1> QED BY <1>3, <1>5, <1>6 DEF LastSample

\* Least element of a set of naturals.
LEMMA Least ==
    ASSUME NEW T, T \subseteq Nat, T # {} PROVE \E k \in T : \A i \in T : k <= i
<1> DEFINE R == OpToRel(<, Nat)
<1>1. \A i, k \in Nat : i < k => <<i, k>> \in R
  BY DEF OpToRel
<1>2. IsWellFoundedOn(R, Nat)
  BY NatLessThanWellFounded
<1> HIDE DEF R
<1>3. PICK k \in T : \A i \in T : ~ (<<i, k>> \in R)
  BY <1>2, WFMin
<1>4. ASSUME NEW i \in T PROVE k <= i
  <2>1. ~ (i < k)
    BY <1>1, <1>3
  <2> QED BY <2>1
<1> QED BY <1>4

\* The scan is at a sample that it has passed, and the next one is not passed.
LEMMA AdvanceStops ==
    ASSUME config \in Configurations, NEW n \in Nodes, GoodNode(n), dataManagement(n) # 0,
           lastSignalSample[n] \in 0 .. LastSample(n), NEW now \in Int
    PROVE  LET k == Advance(n, now)
           IN  /\ k \in lastSignalSample[n] .. LastSample(n)
               /\ k # LastSample(n) =>
                     Time(n, k + 1) > now \/ (dataManagement(n) = 1 /\ Time(n, k + 1) = now)
               /\ k # lastSignalSample[n] =>
                     Time(n, k) < now \/ (dataManagement(n) = 2 /\ Time(n, k) = now)
<1> DEFINE Passed(i) == \/ dataManagement(n) = 1 /\ InterpolationPassed(n, i, now)
                        \/ dataManagement(n) = 2 /\ ClosestPassed(n, i, now)
           cursor == lastSignalSample[n]
           last == LastSample(n)
           Stops(k) == k = last \/ ~Passed(k + 1)
           T == {k \in cursor .. last : Stops(k)}
<1>1. last \in Nat /\ cursor \in Nat /\ cursor <= last
  BY NodeData
<1> HIDE DEF cursor, last, Passed
<1>2. T \subseteq Nat /\ last \in T
  BY <1>1
<1>3. PICK k \in T : \A i \in T : k <= i
  BY <1>2, Least
<1>4. \A i \in cursor + 1 .. k : Passed(i)
  <2> SUFFICES ASSUME NEW i \in cursor + 1 .. k PROVE Passed(i)
    OBVIOUS
  <2>1. i - 1 \in cursor .. last /\ i - 1 < k /\ i - 1 # last
    BY <1>1, <1>3
  <2>2. ~ Stops(i - 1)
    BY <1>1, <1>3, <2>1
  <2>3. (i - 1) + 1 = i
    BY <1>1
  <2> QED BY <2>2, <2>3
<1>5. \E j \in cursor .. last : Stops(j) /\ \A i \in cursor + 1 .. j : Passed(i)
  BY <1>3, <1>4
<1>6. Advance(n, now) = CHOOSE j \in cursor .. last :
                          Stops(j) /\ \A i \in cursor + 1 .. j : Passed(i)
  BY DEF Advance, cursor, last, Passed
<1> DEFINE m == Advance(n, now)
<1>7. /\ m \in cursor .. last /\ Stops(m) /\ \A i \in cursor + 1 .. m : Passed(i)
  BY <1>5, <1>6
<1> HIDE DEF m
<1>8. m # cursor => Passed(m)
  BY <1>1, <1>7
<1>9. m # last => ~Passed(m + 1) /\ m + 1 \in 0 .. last
  BY <1>1, <1>7
<1>10. m \in 0 .. last
  BY <1>1, <1>7
<1>11. dataManagement(n) \in {1, 2}
  BY DEF GoodNode
<1>12. m # last => Time(n, m + 1) > now \/ (dataManagement(n) = 1 /\ Time(n, m + 1) = now)
  BY <1>9, <1>11, NodeData DEF Passed, InterpolationPassed, ClosestPassed, last
<1>13. m # cursor => Time(n, m) < now \/ (dataManagement(n) = 2 /\ Time(n, m) = now)
  BY <1>8, <1>10, <1>11, NodeData DEF Passed, InterpolationPassed, ClosestPassed, last
<1> QED BY <1>7, <1>12, <1>13 DEF m, cursor, last
-----------------------------------------------------------------------------
(* One node in one cycle *)

\* The cursor k of a node stands on a sample that is not after the time.
CursorAt(n, k, now) ==
    IF dataManagement(n) = 0 THEN k \in 0 .. NumSamples(n)
    ELSE k \in 0 .. LastSample(n) /\ (k = 0 \/ Time(n, k) <= now)

\* The node has no more data.
Over(n, k, now) ==
    IF dataManagement(n) = 0 THEN k = NumSamples(n)
    ELSE Time(n, LastSample(n)) < now /\ (dataManagement(n) = 2 => k = LastSample(n))

\* InterpolationEncloses and ClosestSampleHeld, of one value.
EnclosesAt(n, value, now) ==
    dataManagement(n) = 1 /\ NumSamples(n) > 1 =>
        IF Time(n, 0) <= now /\ now <= Time(n, LastSample(n))
        THEN \E k \in 0 .. LastSample(n) - 1 :
                /\ value = Between(k) /\ Time(n, k) <= now /\ now <= Time(n, k + 1)
        ELSE value = Zero

Distance(n, k, now) == IF Time(n, k) < now THEN now - Time(n, k) ELSE Time(n, k) - now

ClosestAt(n, value, now) ==
    dataManagement(n) = 2 /\ Time(n, 0) <= now /\ now <= Time(n, LastSample(n)) =>
        \E k \in 0 .. LastSample(n) :
            /\ value = AsIs(k)
            /\ \A i \in 0 .. LastSample(n) : Distance(n, k, now) <= Distance(n, i, now)

NodeAt(n, r, before, now) ==
    /\ r.found \in BOOLEAN
    /\ CursorAt(n, r.cursor, now)
    /\ ~r.found => r.value = Zero /\ Over(n, r.cursor, now)
    /\ Over(n, lastSignalSample[n], before) => ~r.found
    /\ r.value \in Seq(0 .. NumSamples(n))
    /\ EnclosesAt(n, r.value, now)
    /\ ClosestAt(n, r.value, now)

LEMMA ReadAsIsStep ==
    ASSUME config \in Configurations, NEW n \in Nodes, GoodNode(n), dataManagement(n) = 0,
           NEW before \in Int, NEW now \in Int, CursorAt(n, lastSignalSample[n], before)
    PROVE  NodeAt(n, ReadAsIs(n), before, now)
<1> DEFINE k == lastSignalSample[n]
           N == NumSamples(n)
<1>1. N \in Nat \ {0} /\ k \in 0 .. N
  BY NodeData DEF CursorAt
<1>2. CASE k < N
  <2>1. ReadAsIs(n) = [cursor |-> k + 1, value |-> <<k, k>>, found |-> TRUE]
    BY <1>2 DEF ReadAsIs, HasSample, NodeResult, AsIs
  <2>2. <<k, k>> \in Seq(0 .. N)
    BY <1>1
  <2> QED BY <1>1, <1>2, <2>1, <2>2 DEF NodeAt, CursorAt, Over, EnclosesAt, ClosestAt
<1>3. CASE ~(k < N)
  <2>1. ReadAsIs(n) = [cursor |-> k, value |-> << >>, found |-> FALSE]
    BY <1>3 DEF ReadAsIs, HasSample, Keeps, NodeResult, Zero
  <2> QED BY <1>1, <1>3, <2>1 DEF NodeAt, CursorAt, Over, EnclosesAt, ClosestAt, Zero
<1> QED BY <1>2, <1>3

LEMMA InterpolateStep ==
    ASSUME config \in Configurations, NEW n \in Nodes, GoodNode(n), dataManagement(n) = 1,
           NEW before \in Int, NEW now \in Int, before < now,
           CursorAt(n, lastSignalSample[n], before)
    PROVE  NodeAt(n, Interpolate(n, now), before, now)
<1> DEFINE c == lastSignalSample[n]
           N == NumSamples(n)
           L == LastSample(n)
           k == Advance(n, now)
<1>1. /\ N \in Nat \ {0} /\ L = N - 1 /\ c \in 0 .. L /\ (c = 0 \/ Time(n, c) <= before)
      /\ \A i \in 0 .. L : Time(n, i) \in Int
      /\ \A i, j \in 0 .. L : i < j => Time(n, i) < Time(n, j)
  BY NodeData DEF CursorAt
<1>2. /\ k \in c .. L
      /\ k # L => Time(n, k + 1) >= now
      /\ k # c => Time(n, k) < now
  <2>1. /\ k \in c .. L
        /\ k # L => Time(n, k + 1) > now \/ Time(n, k + 1) = now
        /\ k # c => Time(n, k) < now
    BY <1>1, AdvanceStops
  <2> HIDE DEF k, L, N
  <2>2. k + 1 \in 0 .. L \/ k = L
    BY <1>1, <2>1
  <2> QED BY <1>1, <2>1, <2>2
<1> HIDE DEF k, L, N
<1>3. CASE Time(n, 0) > now
  <2>1. Interpolate(n, now) = [cursor |-> c, value |-> << >>, found |-> TRUE]
    BY <1>3 DEF Interpolate, Keeps, NodeResult, Zero
  <2>2. CursorAt(n, c, now)
    BY <1>1 DEF CursorAt, L
  <2>3. ~Over(n, c, before)
    <3>1. Time(n, L) >= Time(n, 0)
      BY <1>1
    <3> QED BY <1>1, <1>3, <3>1 DEF Over, L
  <2>4. EnclosesAt(n, << >>, now) /\ ClosestAt(n, << >>, now)
    BY <1>1, <1>3 DEF EnclosesAt, ClosestAt, Zero
  <2> QED BY <2>1, <2>2, <2>3, <2>4 DEF NodeAt
<1>4. CASE ~(Time(n, 0) > now) /\ Time(n, L) < now
  <2>1. Interpolate(n, now) = [cursor |-> c, value |-> << >>, found |-> FALSE]
    BY <1>4 DEF Interpolate, Keeps, NodeResult, Zero, L
  <2>2. CursorAt(n, c, now)
    BY <1>1 DEF CursorAt, L
  <2>3. Over(n, c, now)
    BY <1>4 DEF Over, L
  <2>4. EnclosesAt(n, << >>, now) /\ ClosestAt(n, << >>, now)
    BY <1>1, <1>4 DEF EnclosesAt, ClosestAt, Zero, L
  <2> QED BY <2>1, <2>2, <2>3, <2>4 DEF NodeAt, Zero
<1>5. CASE ~(Time(n, 0) > now) /\ ~(Time(n, L) < now)
  <2>1. Interpolate(n, now) = [cursor |-> k, value |-> <<k, k + 1>>, found |-> TRUE]
    BY <1>5 DEF Interpolate, NodeResult, Between, L, k
  <2>2. CursorAt(n, k, now)
    BY <1>1, <1>2 DEF CursorAt, L
  <2>3. ~Over(n, c, before)
    BY <1>1, <1>5 DEF Over, L
  <2>4. k \in 0 .. N /\ k + 1 \in 0 .. N
    BY <1>1, <1>2
  <2>5. <<k, k + 1>> \in Seq(0 .. N)
    BY <2>4
  <2>6. EnclosesAt(n, <<k, k + 1>>, now)
    <3> SUFFICES ASSUME N > 1
        PROVE  k \in 0 .. L - 1 /\ Time(n, k) <= now /\ now <= Time(n, k + 1)
      <4>1. <<k, k + 1>> = Between(k)
        BY DEF Between
      <4>2. Time(n, 0) <= now /\ now <= Time(n, L)
        BY <1>1, <1>5
      <4> QED BY <4>1, <4>2 DEF EnclosesAt, N, L
    <3>1. Time(n, k) <= now
      BY <1>1, <1>2, <1>5
    <3>2. k # L
      BY <1>1, <1>2, <1>5
    <3> QED BY <1>1, <1>2, <3>1, <3>2
  <2>7. ClosestAt(n, <<k, k + 1>>, now)
    BY DEF ClosestAt
  <2> QED BY <2>1, <2>2, <2>3, <2>5, <2>6, <2>7 DEF NodeAt, N
<1> QED BY <1>3, <1>4, <1>5

LEMMA ClosestSampleStep ==
    ASSUME config \in Configurations, NEW n \in Nodes, GoodNode(n), dataManagement(n) = 2,
           NEW before \in Int, NEW now \in Int, before < now,
           CursorAt(n, lastSignalSample[n], before)
    PROVE  NodeAt(n, ClosestSample(n, now), before, now)
<1> DEFINE c == lastSignalSample[n]
           N == NumSamples(n)
           L == LastSample(n)
           k == Advance(n, now)
           chosen == IF k = L \/ NearerThanNext(n, k, now) THEN k ELSE k + 1
<1>1. /\ N \in Nat \ {0} /\ L = N - 1 /\ c \in 0 .. L /\ (c = 0 \/ Time(n, c) <= before)
      /\ \A i \in 0 .. L : Time(n, i) \in Int
      /\ \A i, j \in 0 .. L : i < j => Time(n, i) < Time(n, j)
  BY NodeData DEF CursorAt
<1>2. /\ k \in c .. L
      /\ k # L => Time(n, k + 1) > now
      /\ k # c => Time(n, k) <= now
  <2>1. k \in c .. L
    BY <1>1, AdvanceStops
  <2>2. k # L => Time(n, k + 1) > now
    BY <1>1, AdvanceStops
  <2>3. k # c => Time(n, k) <= now
    BY <1>1, AdvanceStops
  <2> QED BY <2>1, <2>2, <2>3
<1>3. /\ chosen \in 0 .. L
      /\ k = L => chosen = k
      /\ k # L => \/ chosen = k /\ now - Time(n, k) < Time(n, k + 1) - now
                  \/ chosen = k + 1 /\ ~(now - Time(n, k) < Time(n, k + 1) - now)
  BY <1>1, <1>2 DEF NearerThanNext
<1> HIDE DEF chosen, k, L, N
<1>4. CASE c = 0 /\ Time(n, 0) > now
  <2>1. ClosestSample(n, now) = [cursor |-> c, value |-> << >>, found |-> TRUE]
    BY <1>4 DEF ClosestSample, Keeps, NodeResult, Zero
  <2>2. CursorAt(n, c, now)
    BY <1>1 DEF CursorAt, L
  <2>3. ~Over(n, c, before)
    <3>1. Time(n, L) >= Time(n, 0)
      BY <1>1
    <3> QED BY <1>1, <1>4, <3>1 DEF Over, L
  <2>4. EnclosesAt(n, << >>, now) /\ ClosestAt(n, << >>, now)
    BY <1>1, <1>4 DEF EnclosesAt, ClosestAt, Zero
  <2> QED BY <2>1, <2>2, <2>3, <2>4 DEF NodeAt
<1>5. CASE ~(c = 0 /\ Time(n, 0) > now) /\ c >= L /\ Time(n, c) < now
  <2>1. ClosestSample(n, now) = [cursor |-> c, value |-> << >>, found |-> FALSE]
    BY <1>5 DEF ClosestSample, Keeps, NodeResult, Zero, L
  <2>2. CursorAt(n, c, now)
    BY <1>1 DEF CursorAt, L
  <2>3. c = L /\ Over(n, c, now)
    BY <1>1, <1>5 DEF Over, L
  <2>4. EnclosesAt(n, << >>, now) /\ ClosestAt(n, << >>, now)
    BY <1>1, <1>5, <2>3 DEF EnclosesAt, ClosestAt, Zero, L
  <2> QED BY <2>1, <2>2, <2>3, <2>4 DEF NodeAt, Zero
<1>6. CASE ~(c = 0 /\ Time(n, 0) > now) /\ ~(c >= L /\ Time(n, c) < now)
  <2>1. ClosestSample(n, now) = [cursor |-> k, value |-> <<chosen, chosen>>, found |-> TRUE]
    BY <1>6 DEF ClosestSample, NodeResult, AsIs, L, k, chosen
  <2>2. k \in 0 .. L /\ Time(n, k) <= now
    BY <1>1, <1>2, <1>6
  <2>3. CursorAt(n, k, now)
    BY <2>2 DEF CursorAt, L
  <2>4. ~Over(n, c, before)
    BY <1>1, <1>6 DEF Over, L
  <2>5. chosen \in 0 .. N
    BY <1>1, <1>3
  <2>6. <<chosen, chosen>> \in Seq(0 .. N)
    BY <2>5
  <2>7. EnclosesAt(n, <<chosen, chosen>>, now)
    BY DEF EnclosesAt
  <2>8. ClosestAt(n, <<chosen, chosen>>, now)
    <3> SUFFICES ASSUME Time(n, 0) <= now, now <= Time(n, L), NEW i \in 0 .. L
        PROVE  Distance(n, chosen, now) <= Distance(n, i, now)
      BY <1>3 DEF ClosestAt, AsIs, L
    <3>1. CASE k = L
      <4>1. chosen = L /\ Time(n, L) = now
        BY <1>1, <1>3, <2>2, <3>1
      <4>2. Distance(n, chosen, now) = 0 /\ Distance(n, i, now) >= 0
        BY <1>1, <4>1 DEF Distance
      <4> QED BY <1>1, <4>2 DEF Distance
    <3>2. CASE k # L
      <4>1. k + 1 \in 0 .. L /\ Time(n, k + 1) > now
        BY <1>1, <1>2, <2>2, <3>2
      <4>2. \/ i <= k /\ Time(n, i) <= Time(n, k)
            \/ i >= k + 1 /\ Time(n, i) >= Time(n, k + 1)
        BY <1>1, <2>2, <4>1
      <4>3. Time(n, k) \in Int /\ Time(n, k + 1) \in Int /\ Time(n, i) \in Int
        BY <1>1, <2>2, <4>1
      <4>4. \/ Distance(n, i, now) >= now - Time(n, k)
            \/ Distance(n, i, now) >= Time(n, k + 1) - now
        BY <2>2, <4>1, <4>2, <4>3 DEF Distance
      <4>5. /\ Distance(n, k, now) = now - Time(n, k)
            /\ Distance(n, k + 1, now) = Time(n, k + 1) - now
        BY <2>2, <4>1, <4>3 DEF Distance
      <4>6. /\ Distance(n, chosen, now) <= now - Time(n, k)
            /\ Distance(n, chosen, now) <= Time(n, k + 1) - now
        BY <1>3, <3>2, <4>3, <4>5
      <4>7. Distance(n, i, now) \in Int /\ Distance(n, chosen, now) \in Int
        BY <1>1, <1>3, <4>3 DEF Distance
      <4> QED BY <4>3, <4>4, <4>6, <4>7
    <3> QED BY <3>1, <3>2
  <2> QED BY <2>1, <2>3, <2>4, <2>6, <2>7, <2>8 DEF NodeAt, N
<1> QED BY <1>4, <1>5, <1>6

LEMMA NodeStep ==
    ASSUME config \in Configurations, NEW n \in Nodes, GoodNode(n),
           NEW before \in Int, NEW now \in Int, before < now,
           CursorAt(n, lastSignalSample[n], before)
    PROVE  NodeAt(n, GetDataNode(n, now), before, now)
<1>1. dataManagement(n) \in {0, 1, 2}
  BY DEF GoodNode
<1> QED
  BY <1>1, ReadAsIsStep, InterpolateStep, ClosestSampleStep DEF GetDataNode
-----------------------------------------------------------------------------
(* All nodes, from cycle to cycle *)

Typed ==
    /\ phase \in {"Created", "Initialised", "Running", "Failed", "Destroyed", "Crashed"}
    /\ config \in Configurations /\ numCycles \in 0 .. MaxCycles
    /\ phase \in {"Created", "Initialised"} => numCycles = 0
    /\ phase = "Running" \/ numCycles > 0 => \A n \in Nodes : GoodNode(n)
    /\ endNode \in [Nodes -> BOOLEAN]

\* Before the first cycle the cursors are at the first sample and no node has ended.
Cursors ==
    \A n \in Nodes :
        /\ numCycles = 0 => lastSignalSample[n] = 0 /\ ~endNode[n]
        /\ numCycles > 0 =>
              /\ CursorAt(n, lastSignalSample[n], Now)
              /\ endNode[n] => Over(n, lastSignalSample[n], Now) /\ out[n] = Zero

Values ==
    \A n \in Nodes :
        numCycles > 0 =>
            /\ out[n] \in Seq(0 .. NumSamples(n))
            /\ EnclosesAt(n, out[n], Now)
            /\ ClosestAt(n, out[n], Now)

\* The flag says that all nodes have ended, except, uninitialised, before the first cycle.
Notified ==
    /\ notified \in {0, 1} /\ signalsEndedNotified \in BOOLEAN /\ armed \in BOOLEAN
    /\ numCycles = 0 => armed = ~signalsEndedNotified
    /\ numCycles > 0 => (signalsEndedNotified <=> AllNodesEnd)
    /\ ~AllNodesEnd => notified = 0
    /\ armed /\ AllNodesEnd => notified = 1

IInv == Typed /\ Cursors /\ Values /\ Notified

LEMMA NowNext ==
    ASSUME Typed
    PROVE  Now \in Int /\ currentTime(numCycles) \in Int /\ Now < currentTime(numCycles)
<1>1. StartTime \in Int /\ Period \in Nat \ {0} /\ numCycles \in Nat
  BY ConstantsAssumption DEF ConstantsAssumption, Typed
<1>2. (numCycles - 1) * Period = numCycles * Period - Period
  BY <1>1
<1>3. numCycles * Period \in Int
  BY <1>1
<1> QED BY <1>1, <1>2, <1>3 DEF Now, currentTime

LEMMA InitIInv == Init => IInv
<1> SUFFICES ASSUME Init PROVE IInv
  OBVIOUS
<1>1. Typed /\ Cursors /\ Values
  BY ConstantsAssumption DEF ConstantsAssumption, Init, Typed, Cursors, Values
<1>2. ~AllNodesEnd
  BY ConstantsAssumption DEF ConstantsAssumption, Init, AllNodesEnd
<1>3. Notified
  BY <1>2 DEF Init, Notified
<1> QED BY <1>1, <1>3 DEF IInv

\* The steps between cycles.
LEMMA IdleStep ==
    ASSUME IInv, UNCHANGED <<config, cycle, notification>>,
           phase' \in {"Created", "Initialised", "Running", "Failed", "Destroyed", "Crashed"},
           phase' \in {"Created", "Initialised"} => numCycles = 0,
           phase' = "Running" => \A n \in Nodes : GoodNode(n)
    PROVE  IInv'
<1>1. Typed'
  BY DEF IInv, Typed, cycle, GoodNode, dataManagement
<1>2. Cursors'
  BY DEF IInv, Cursors, cycle, CursorAt, Over, NumSamples, LastSample, Time,
         signalTimebase, dataManagement, Now, currentTime, Zero
<1>3. Values'
  <2>1. \A n \in Nodes : NumSamples(n)' = NumSamples(n)
    BY DEF NumSamples, signalTimebase
  <2>2. \A n \in Nodes : EnclosesAt(n, out[n], Now)' <=> EnclosesAt(n, out[n], Now)
    BY DEF cycle, EnclosesAt, NumSamples, LastSample, Time, signalTimebase,
           dataManagement, Now, currentTime, Zero, Between
  <2>3. \A n \in Nodes : ClosestAt(n, out[n], Now)' <=> ClosestAt(n, out[n], Now)
    BY DEF cycle, ClosestAt, Distance, NumSamples, LastSample, Time, signalTimebase,
           dataManagement, Now, currentTime, AsIs
  <2> QED BY <2>1, <2>2, <2>3 DEF IInv, Values, cycle
<1>4. Notified'
  BY DEF IInv, Notified, cycle, notification, AllNodesEnd
<1> QED BY <1>1, <1>2, <1>3, <1>4 DEF IInv

LEMMA ConfiguredNodes ==
    ASSUME SetConfiguredDatabase, phase' = "Running" PROVE \A n \in Nodes : GoodNode(n)
<1>1. "Running" \in NodesOutcomes(config)
  BY DEF SetConfiguredDatabase
<1>2. {n \in Nodes : NodeRead(config.nodes[n])} = Nodes
  BY <1>1 DEF NodesOutcomes
<1>3. \A n \in Nodes : NodeRead(config.nodes[n])
  BY <1>2
<1> QED BY <1>3 DEF NodeRead, GoodNode, dataManagement

LEMMA SynchroniseStep ==
    ASSUME IInv, Synchronise
    PROVE  IInv' /\ \A n \in Nodes : endNode[n] => endNode'[n] /\ out'[n] = Zero
<1> DEFINE now == currentTime(numCycles)
           r(n) == GetDataNode(n, now)
<1>1. Now \in Int /\ now \in Int /\ Now < now
  BY NowNext DEF IInv
<1>2. /\ \A n \in Nodes : GoodNode(n)
      /\ config \in Configurations /\ config' = config
      /\ numCycles' = numCycles + 1 /\ numCycles \in Nat /\ numCycles + 1 \in 0 .. MaxCycles
      /\ phase' \in {"Running", "Crashed"}
  <2>1. phase' \in {"Running", "Crashed"} /\ config' = config
    BY DEF Synchronise, NotifyOutcomes
  <2>2. numCycles \in 0 .. MaxCycles /\ MaxCycles \in Nat
    BY ConstantsAssumption DEF ConstantsAssumption, IInv, Typed
  <2> QED BY <2>1, <2>2 DEF IInv, Typed, Synchronise
<1>3. \A n \in Nodes : lastSignalSample'[n] = r(n).cursor /\ out'[n] = r(n).value
  BY DEF Synchronise
<1>4. endNode' \in [Nodes -> BOOLEAN] /\ \A n \in Nodes : endNode'[n] = ~ r(n).found
  BY DEF Synchronise
<1>5. \A n \in Nodes : CursorAt(n, lastSignalSample[n], Now)
  <2> SUFFICES ASSUME NEW n \in Nodes PROVE CursorAt(n, lastSignalSample[n], Now)
    OBVIOUS
  <2>1. CASE numCycles = 0
    <3>1. lastSignalSample[n] = 0
      BY <2>1 DEF IInv, Cursors
    <3>2. 0 \in 0 .. NumSamples(n) /\ 0 \in 0 .. LastSample(n)
      BY <1>2, NodeData
    <3> QED BY <3>1, <3>2 DEF CursorAt
  <2>2. CASE numCycles > 0
    BY <2>2 DEF IInv, Cursors
  <2> QED BY <1>2, <2>1, <2>2
<1>6. \A n \in Nodes : NodeAt(n, r(n), Now, now)
  BY <1>1, <1>2, <1>5, NodeStep
<1>7. Now' = now
  BY <1>2 DEF Now, currentTime
<1>8. \A n \in Nodes : endNode[n] => endNode'[n] /\ out'[n] = Zero
  <2> SUFFICES ASSUME NEW n \in Nodes, endNode[n] PROVE endNode'[n] /\ out'[n] = Zero
    OBVIOUS
  <2>1. Over(n, lastSignalSample[n], Now)
    BY <1>2 DEF IInv, Cursors
  <2>2. ~ r(n).found
    BY <1>6, <2>1 DEF NodeAt
  <2> QED BY <1>3, <1>4, <1>6, <2>2 DEF NodeAt
<1> HIDE DEF r, now
<1>9. Typed'
  BY <1>2, <1>4 DEF Typed, GoodNode, dataManagement
<1>10. \A n \in Nodes :
          /\ CursorAt(n, r(n).cursor, now) /\ r(n).value \in Seq(0 .. NumSamples(n))
          /\ endNode'[n] => Over(n, r(n).cursor, now) /\ out'[n] = Zero
          /\ EnclosesAt(n, r(n).value, now) /\ ClosestAt(n, r(n).value, now)
  BY <1>3, <1>4, <1>6 DEF NodeAt
<1>11. \A n \in Nodes :
          /\ dataManagement(n)' = dataManagement(n) /\ NumSamples(n)' = NumSamples(n)
          /\ LastSample(n)' = LastSample(n) /\ \A k : Time(n, k)' = Time(n, k)
  BY <1>2 DEF NumSamples, LastSample, Time, signalTimebase, dataManagement
<1>12. Cursors'
  BY <1>2, <1>3, <1>7, <1>10, <1>11 DEF Cursors, CursorAt, Over, Zero
<1>13. Values'
  BY <1>2, <1>3, <1>7, <1>10, <1>11
     DEF Values, EnclosesAt, ClosestAt, Distance, Zero, Between, AsIs
<1>14. AllNodesEnd => AllNodesEnd'
  BY <1>8 DEF AllNodesEnd
<1>15. numCycles = 0 => ~AllNodesEnd
  BY ConstantsAssumption DEF ConstantsAssumption, IInv, Cursors, AllNodesEnd
<1>16. /\ signalsEndedNotified' = AllNodesEnd' /\ armed' = (armed \/ ~AllNodesEnd')
       /\ AllNodesEnd' /\ ~signalsEndedNotified => notified' = notified + 1
       /\ ~(AllNodesEnd' /\ ~signalsEndedNotified) => notified' = notified
       /\ AllNodesEnd' \in BOOLEAN
  BY DEF Synchronise, FlagAfter, AllNodesEnd
<1>17. numCycles' > 0 /\ numCycles' # 0
  BY <1>2
<1>18. /\ notified' \in {0, 1} /\ (~AllNodesEnd' => notified' = 0)
       /\ armed' /\ AllNodesEnd' => notified' = 1
  <2>1. /\ notified \in {0, 1} /\ (~AllNodesEnd => notified = 0)
        /\ numCycles = 0 => armed = ~signalsEndedNotified
        /\ numCycles > 0 => (signalsEndedNotified <=> AllNodesEnd)
        /\ armed /\ AllNodesEnd => notified = 1
        /\ signalsEndedNotified \in BOOLEAN /\ armed \in BOOLEAN
    BY DEF IInv, Notified
  <2> DEFINE all == AllNodesEnd
             allNext == AllNodesEnd'
  <2>2. numCycles = 0 \/ numCycles > 0
    BY <1>2
  <2>3. CASE ~allNext
    BY <1>14, <1>16, <2>1, <2>3
  <2>4. CASE allNext /\ signalsEndedNotified
    BY <1>15, <1>16, <2>1, <2>2, <2>4
  <2>5. CASE allNext /\ ~signalsEndedNotified
    <3>1. ~all
      BY <1>15, <2>1, <2>2, <2>5
    <3>2. notified = 0 /\ notified' = notified + 1
      BY <1>16, <2>1, <2>5, <3>1
    <3> QED BY <2>5, <3>2
  <2> QED BY <2>3, <2>4, <2>5
<1>19. signalsEndedNotified' \in BOOLEAN /\ armed' \in BOOLEAN
  BY <1>16
<1>20. Notified'
  BY <1>16, <1>17, <1>18, <1>19 DEF Notified
<1> QED BY <1>8, <1>9, <1>12, <1>13, <1>20 DEF IInv

EndKept == \A n \in Nodes : endNode[n] => endNode'[n] /\ out'[n] = Zero

LEMMA NextStep ==
    ASSUME IInv, [Next]_vars PROVE IInv' /\ EndKept
<1>1. ASSUME UNCHANGED <<config, cycle, notification>> PROVE EndKept
  <2>1. \A n \in Nodes : endNode[n] => out[n] = Zero
    <3>1. numCycles = 0 \/ numCycles > 0
      BY ConstantsAssumption DEF ConstantsAssumption, IInv, Typed
    <3> QED BY <3>1 DEF IInv, Cursors
  <2> QED BY <1>1, <2>1 DEF EndKept, cycle
<1>2. CASE Initialise
  <2>1. /\ UNCHANGED <<config, cycle, notification>>
        /\ phase' \in {"Initialised", "Failed"} /\ phase = "Created"
    BY <1>2 DEF Initialise
  <2>2. numCycles = 0
    BY <2>1 DEF IInv, Typed
  <2>3. IInv'
    BY <2>1, <2>2, IdleStep
  <2> QED BY <1>1, <2>1, <2>3
<1>3. CASE SetConfiguredDatabase
  <2>1. /\ UNCHANGED <<config, cycle, notification>>
        /\ phase' \in {"Running", "Failed", "Crashed"}
    BY <1>3 DEF SetConfiguredDatabase, NodesOutcomes
  <2>2. phase' = "Running" => \A n \in Nodes : GoodNode(n)
    BY <1>3, ConfiguredNodes
  <2>3. IInv'
    BY <2>1, <2>2, IdleStep
  <2> QED BY <1>1, <2>1, <2>3
<1>4. CASE Synchronise
  BY <1>4, SynchroniseStep DEF EndKept
<1>5. CASE Destroy
  <2>1. /\ UNCHANGED <<config, cycle, notification>>
        /\ phase' \in {"Destroyed", "Crashed"}
    BY <1>5 DEF Destroy
  <2>2. IInv'
    BY <2>1, IdleStep
  <2> QED BY <1>1, <2>1, <2>2
<1>6. CASE UNCHANGED vars
  <2>1. UNCHANGED <<config, cycle, notification>> /\ phase' = phase
    BY <1>6 DEF vars
  <2>2. /\ phase' \in {"Created", "Initialised", "Running", "Failed", "Destroyed", "Crashed"}
        /\ phase' \in {"Created", "Initialised"} => numCycles = 0
        /\ phase' = "Running" => \A n \in Nodes : GoodNode(n)
    BY <2>1 DEF IInv, Typed
  <2>3. IInv'
    BY <2>1, <2>2, IdleStep
  <2> QED BY <1>1, <2>1, <2>3
<1> QED BY <1>2, <1>3, <1>4, <1>5, <1>6 DEF Next

LEMMA Invariant == Spec => []IInv
<1>1. IInv /\ [Next]_vars => IInv'
  BY NextStep
<1> QED BY <1>1, InitIInv, PTL DEF Spec
-----------------------------------------------------------------------------
\* Every variable keeps its type; no cursor leaves the samples of its node.
THEOREM TypeCorrect == Spec => []TypeOK
<1>1. IInv => TypeOK
  <2> SUFFICES ASSUME IInv PROVE TypeOK
    OBVIOUS
  <2>1. \A n \in Nodes : numCycles > 0 =>
           lastSignalSample[n] \in 0 .. NumSamples(n) /\ out[n] \in Seq(0 .. NumSamples(n))
    <3> SUFFICES ASSUME NEW n \in Nodes, numCycles > 0
        PROVE  lastSignalSample[n] \in 0 .. NumSamples(n) /\ out[n] \in Seq(0 .. NumSamples(n))
      OBVIOUS
    <3>1. NumSamples(n) \in Nat \ {0} /\ LastSample(n) = NumSamples(n) - 1
      BY NodeData DEF IInv, Typed
    <3> QED BY <3>1 DEF IInv, Cursors, CursorAt, Values
  <2>2. notified \in Nat /\ signalsEndedNotified \in BOOLEAN /\ armed \in BOOLEAN
    BY DEF IInv, Notified
  <2> QED BY <2>1, <2>2 DEF TypeOK, IInv, Typed
<1> QED BY <1>1, Invariant, PTL

\* An interpolated value comes from the two samples around the current time.
THEOREM InterpolationCorrect == Spec => []InterpolationEncloses
<1>1. IInv => InterpolationEncloses
  BY DEF IInv, Values, EnclosesAt, InterpolationEncloses, Inside
<1> QED BY <1>1, Invariant, PTL

\* The sample held is a nearest one.
THEOREM ClosestCorrect == Spec => []ClosestSampleHeld
<1>1. IInv => ClosestSampleHeld
  BY DEF IInv, Values, ClosestAt, Distance, ClosestSampleHeld, Inside
<1> QED BY <1>1, Invariant, PTL

\* The end of all nodes is notified once.
THEOREM NotifiedCorrect == Spec => []EndNotifiedOnce
<1>1. IInv => EndNotifiedOnce
  BY DEF IInv, Notified, EndNotifiedOnce
<1> QED BY <1>1, Invariant, PTL

\* A node that has ended never has data again.
THEOREM EndCorrect == Spec => EndIsFinal
<1>1. IInv /\ [Next]_vars => [EndKept]_vars
  BY NextStep
<1>2. [EndKept]_vars => [\A n \in Nodes : endNode[n] => endNode'[n] /\ out'[n] = Zero]_vars
  BY DEF EndKept
<1> QED BY <1>1, <1>2, Invariant, PTL DEF Spec, EndIsFinal
-----------------------------------------------------------------------------
(* The order of the replay *)

\* The cursor of a node that is neither interpolated nor held counts the cycles.
RawInv ==
    numCycles > 0 => \A n \in Nodes : dataManagement(n) = 0 =>
        IF numCycles <= NumSamples(n)
        THEN lastSignalSample[n] = numCycles /\ out[n] = AsIs(numCycles - 1)
        ELSE lastSignalSample[n] = NumSamples(n) /\ out[n] = Zero

\* What one cycle does to the cursors, for a cycle that takes place or not.
CursorsAdvance == \A n \in Nodes : lastSignalSample'[n] >= lastSignalSample[n]

LEMMA ReplayStep ==
    ASSUME IInv, RawInv, Synchronise PROVE RawInv' /\ CursorsAdvance
<1> DEFINE now == currentTime(numCycles)
<1>1. /\ \A n \in Nodes : GoodNode(n) /\ NumSamples(n) \in Nat \ {0}
      /\ config \in Configurations /\ config' = config
      /\ numCycles' = numCycles + 1 /\ numCycles \in Nat /\ now \in Int
  BY NodeData, NowNext, ConstantsAssumption
  DEF ConstantsAssumption, IInv, Typed, Synchronise
<1>2. \A n \in Nodes :
         /\ lastSignalSample'[n] = GetDataNode(n, now).cursor
         /\ out'[n] = GetDataNode(n, now).value
  BY DEF Synchronise
<1>3. \A n \in Nodes :
         IF dataManagement(n) = 0 THEN lastSignalSample[n] \in 0 .. NumSamples(n)
         ELSE lastSignalSample[n] \in 0 .. LastSample(n)
  <2> SUFFICES ASSUME NEW n \in Nodes
               PROVE  IF dataManagement(n) = 0 THEN lastSignalSample[n] \in 0 .. NumSamples(n)
                      ELSE lastSignalSample[n] \in 0 .. LastSample(n)
    OBVIOUS
  <2>1. CASE numCycles = 0
    <3>1. lastSignalSample[n] = 0 /\ 0 \in 0 .. NumSamples(n) /\ 0 \in 0 .. LastSample(n)
      BY <1>1, <2>1, NodeData DEF IInv, Cursors
    <3> QED BY <3>1
  <2>2. CASE numCycles > 0
    BY <2>2 DEF IInv, Cursors, CursorAt
  <2> QED BY <1>1, <2>1, <2>2
<1>4. ASSUME NEW n \in Nodes PROVE lastSignalSample'[n] >= lastSignalSample[n]
  <2>1. CASE dataManagement(n) = 0
    BY <1>1, <1>2, <1>3, <2>1 DEF GetDataNode, ReadAsIs, Keeps, NodeResult
  <2>2. CASE dataManagement(n) # 0
    <3>1. lastSignalSample[n] \in 0 .. LastSample(n) /\ LastSample(n) \in Nat
      BY <1>1, <1>3, <2>2, NodeData
    <3>2. Advance(n, now) \in lastSignalSample[n] .. LastSample(n)
      BY <1>1, <2>2, <3>1, AdvanceStops
    <3>3. GetDataNode(n, now).cursor \in {lastSignalSample[n], Advance(n, now)}
      <4>1. dataManagement(n) \in {1, 2}
        BY <1>1, <2>2 DEF GoodNode
      <4>2. Interpolate(n, now).cursor \in {lastSignalSample[n], Advance(n, now)}
        BY DEF Interpolate, Keeps, NodeResult
      <4>3. ClosestSample(n, now).cursor \in {lastSignalSample[n], Advance(n, now)}
        BY DEF ClosestSample, Keeps, NodeResult
      <4> QED BY <4>1, <4>2, <4>3 DEF GetDataNode
    <3> QED BY <1>2, <3>1, <3>2, <3>3
  <2> QED BY <2>1, <2>2
<1>5. RawInv'
  <2> SUFFICES ASSUME NEW n \in Nodes, dataManagement(n) = 0
      PROVE  IF numCycles + 1 <= NumSamples(n)
             THEN lastSignalSample'[n] = numCycles + 1 /\ out'[n] = AsIs(numCycles)
             ELSE lastSignalSample'[n] = NumSamples(n) /\ out'[n] = Zero
    BY <1>1 DEF RawInv, dataManagement, NumSamples, signalTimebase, AsIs, Zero
  <2> DEFINE k == lastSignalSample[n]
  <2>1. k = IF numCycles <= NumSamples(n) THEN numCycles ELSE NumSamples(n)
    <3>1. CASE numCycles = 0
      BY <1>1, <3>1 DEF IInv, Cursors
    <3>2. CASE numCycles > 0
      BY <3>2 DEF RawInv
    <3> QED BY <1>1, <3>1, <3>2
  <2>2. lastSignalSample'[n] = ReadAsIs(n).cursor /\ out'[n] = ReadAsIs(n).value
    BY <1>2 DEF GetDataNode
  <2>3. CASE k < NumSamples(n)
    BY <1>1, <2>1, <2>2, <2>3 DEF ReadAsIs, HasSample, NodeResult
  <2>4. CASE ~(k < NumSamples(n))
    BY <1>1, <2>1, <2>2, <2>4 DEF ReadAsIs, HasSample, Keeps, NodeResult
  <2> QED BY <2>3, <2>4
<1> QED BY <1>4, <1>5 DEF CursorsAdvance

LEMMA ReplayNext == ASSUME IInv, RawInv, [Next]_vars PROVE RawInv' /\ [CursorsAdvance]_vars
<1>1. ASSUME UNCHANGED <<config, cycle>> PROVE RawInv' /\ [CursorsAdvance]_vars
  <2>1. RawInv'
    BY <1>1 DEF cycle, RawInv, dataManagement, NumSamples, signalTimebase
  <2>2. \A n \in Nodes : lastSignalSample[n] \in Int
    <3>1. numCycles = 0 \/ numCycles > 0
      BY ConstantsAssumption DEF ConstantsAssumption, IInv, Typed
    <3>2. numCycles > 0 =>
             \A n \in Nodes : GoodNode(n) /\ CursorAt(n, lastSignalSample[n], Now)
      BY DEF IInv, Typed, Cursors
    <3>3. numCycles > 0 => \A n \in Nodes : lastSignalSample[n] \in Int
      BY <3>2 DEF CursorAt
    <3> QED BY <3>1, <3>3 DEF IInv, Cursors
  <2>3. CursorsAdvance
    BY <1>1, <2>2 DEF cycle, CursorsAdvance
  <2> QED BY <2>1, <2>3
<1>2. CASE Initialise \/ SetConfiguredDatabase \/ Destroy
  BY <1>1, <1>2 DEF Initialise, SetConfiguredDatabase, Destroy
<1>3. CASE Synchronise
  BY <1>3, ReplayStep
<1>4. CASE UNCHANGED vars
  BY <1>1, <1>4 DEF vars
<1> QED BY <1>2, <1>3, <1>4 DEF Next

LEMMA RawInvariant == Spec => []RawInv
<1>1. Init => RawInv
  BY DEF Init, RawInv
<1>2. IInv /\ RawInv /\ [Next]_vars => RawInv'
  BY ReplayNext
<1> QED BY <1>1, <1>2, Invariant, PTL DEF Spec

\* A node with DataManagement 0 gives its samples in order, one per cycle and none
\* twice, and 0 once they are over (MDSReaderNS.cpp:685-700).
THEOREM RawInOrder ==
    Spec => [](numCycles > 0 => \A n \in Nodes : dataManagement(n) = 0 =>
                  out[n] = IF numCycles <= NumSamples(n) THEN AsIs(numCycles - 1) ELSE Zero)
<1>1. RawInv =>
         (numCycles > 0 => \A n \in Nodes : dataManagement(n) = 0 =>
             out[n] = IF numCycles <= NumSamples(n) THEN AsIs(numCycles - 1) ELSE Zero)
  BY DEF RawInv
<1> QED BY <1>1, RawInvariant, PTL

\* No cursor goes back: the samples before it are never read again, whatever the data
\* management (MDSReaderNS.cpp:692, 721-731, 753-778).
THEOREM NeverBack ==
    Spec => [][\A n \in Nodes : lastSignalSample'[n] >= lastSignalSample[n]]_vars
<1>1. IInv /\ RawInv /\ [Next]_vars => [CursorsAdvance]_vars
  BY ReplayNext
<1>2. [CursorsAdvance]_vars
         => [\A n \in Nodes : lastSignalSample'[n] >= lastSignalSample[n]]_vars
  BY DEF CursorsAdvance
<1> QED BY <1>1, <1>2, Invariant, RawInvariant, PTL DEF Spec
=============================================================================
