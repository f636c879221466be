-------------------------- MODULE StreamOutProofs --------------------------
(***************************************************************************)
(* Proofs about StreamOut, for any configuration, size of the blocks and   *)
(* number of cycles.                                                       *)
(***************************************************************************)
EXTENDS StreamOut, SequenceTheorems, WellFoundedInduction, TLAPS

\* Nothing is sampled before the data source runs, and then the time is a signal.
PhaseInv ==
    /\ phase \notin {"Running", "Destroyed"} => counter = 0 /\ sent = << >> /\ bufIdx = 0
    /\ phase \in {"Initialised", "Running"} => TimeIdx \in Signals

\* The events of each signal are those of whole numbers.
Event == [time : Int, value : Int]

SentInv == \A n \in DOMAIN sent : n \in Signals \ {TimeIdx} /\ sent[n] \in Seq(Event)

IInv == TypeOK /\ PhaseInv /\ SentInv /\ StreamedInOrder /\ PendingKept
-----------------------------------------------------------------------------
(* Rounding *)

\* There is a nearest float32, which is what NearestRatio chooses.
LEMMA NearestExists ==
    ASSUME NEW a \in Int, NEW b \in Nat \ {0}
    PROVE  /\ NearestRatio(a, b) \in Float32s
           /\ \A g \in Float32s : Distance(NearestRatio(a, b), a, b) <= Distance(g, a, b)
<1> DEFINE D == {Distance(f, a, b) : f \in Float32s}
           R == OpToRel(<, Nat)
           IsNearest(f) == \A g \in Float32s : Distance(f, a, b) <= Distance(g, a, b)
<1>1. ASSUME NEW f \in Float32s PROVE Distance(f, a, b) \in Nat
  <2>1. f \in Int /\ f * b \in Int
    BY Float32Assumption
  <2> QED BY <2>1 DEF Distance
<1>2. D \subseteq Nat /\ D # {}
  BY <1>1, Float32Assumption
<1>3. \A i1, k \in Nat : i1 < k => <<i1, k>> \in R
  BY DEF OpToRel
<1>4. IsWellFoundedOn(R, Nat)
  BY NatLessThanWellFounded
<1> HIDE DEF R, D
<1>5. PICK d \in D : \A e \in D : ~(<<e, d>> \in R)
  BY <1>2, <1>4, WFMin
<1>6. ASSUME NEW e \in D PROVE d <= e
  <2>1. d \in Nat /\ e \in Nat
    BY <1>2
  <2>2. ~(e < d)
    BY <1>3, <1>5, <2>1
  <2> QED BY <2>1, <2>2
<1>7. PICK f \in Float32s : d = Distance(f, a, b)
  BY <1>5 DEF D
<1>8. IsNearest(f)
  BY <1>6, <1>7 DEF D
<1>9. NearestRatio(a, b) = CHOOSE x \in Float32s : IsNearest(x)
  BY DEF NearestRatio
<1> HIDE DEF IsNearest
<1>10. (CHOOSE x \in Float32s : IsNearest(x)) \in Float32s
       /\ IsNearest(CHOOSE x \in Float32s : IsNearest(x))
  BY <1>8
<1> QED BY <1>9, <1>10 DEF IsNearest

\* A float32 is not changed by rounding.
LEMMA RoundingExact == ASSUME NEW g \in Float32s PROVE Nearest(g) = g
<1>1. g \in Int /\ 1 \in Nat \ {0} /\ Distance(g, g, 1) = 0
  BY Float32Assumption DEF Distance
<1>2. /\ NearestRatio(g, 1) \in Int
      /\ Distance(NearestRatio(g, 1), g, 1) <= Distance(g, g, 1)
  BY <1>1, NearestExists, Float32Assumption
<1>3. \A f \in Int : Distance(f, g, 1) <= 0 => f = g
  BY <1>1 DEF Distance
<1> QED BY <1>1, <1>2, <1>3 DEF Nearest

\* Rounding keeps the order.
LEMMA RoundingMonotone ==
    ASSUME NEW a \in Int, NEW c \in Int, a <= c, NEW b \in Nat \ {0}
    PROVE  NearestRatio(a, b) <= NearestRatio(c, b)
<1> DEFINE f == NearestRatio(a, b)
           g == NearestRatio(c, b)
<1>1. /\ f \in Int /\ g \in Int
      /\ Distance(f, a, b) <= Distance(g, a, b)
      /\ Distance(g, c, b) <= Distance(f, c, b)
  BY NearestExists, Float32Assumption
<1>2. a = c => f = g
  OBVIOUS
<1> HIDE DEF f, g
<1>3. f * b \in Int /\ g * b \in Int
  BY <1>1
<1>4. f > g => f * b > g * b
  BY <1>1
<1>5. a # c => f <= g
  BY <1>1, <1>3, <1>4 DEF Distance
<1>6. f <= g
  BY <1>1, <1>2, <1>5
<1> QED BY <1>6 DEF f, g

LEMMA NearestType == ASSUME NEW v \in Int PROVE Nearest(v) \in Int
<1>1. 1 \in Nat \ {0}
  OBVIOUS
<1>2. NearestRatio(v, 1) \in Float32s
  BY ONLY <1>1, v \in Int, NearestExists
<1> QED BY <1>2, Float32Assumption DEF Nearest

LEMMA SampleType ==
    ASSUME NEW n, NEW k \in Nat
    PROVE  StoredSample(n, k) \in Int /\ Sample(n, k) \in Nat
<1>1. Sample(n, k) \in Nat
  BY ConstantsAssumption DEF ConstantsAssumption, Sample
<1>2. ASSUME NEW v \in Nat PROVE ToInt32(v) \in Int
  BY <1>2, ConstantsAssumption DEF ConstantsAssumption, ToInt32
<1> QED BY <1>1, <1>2, NearestType DEF StoredSample, Stored

LEMMA SecondsType == ASSUME NEW t \in Int PROVE Seconds(t) \in Int
<1>1. t * UnitsPerSecond \in Int /\ MicrosPerSecond \in Nat \ {0}
  BY ConstantsAssumption DEF ConstantsAssumption
<1> QED BY <1>1, NearestExists, Float32Assumption DEF Seconds
-----------------------------------------------------------------------------
LEMMA SampleKept ==
    ASSUME NEW n, NEW k, config' = config
    PROVE  StoredSample(n, k)' = StoredSample(n, k) /\ Signals' = Signals /\ TimeIdx' = TimeIdx
BY DEF StoredSample, Stored, Sample, Type, TimeIdx, Signals

LEMMA NextIdxValue ==
    ASSUME TypeOK
    PROVE  NextIdx = IF bufIdx + 1 = bufSamples THEN 0 ELSE bufIdx + 1
<1>1. bufSamples \in Nat \ {0} /\ bufIdx \in 0 .. bufSamples - 1
  BY DEF TypeOK
<1> QED BY <1>1 DEF NextIdx

LEMMA InitIInv == Init => IInv
BY ConstantsAssumption
DEF ConstantsAssumption, Init, IInv, TypeOK, PhaseInv, SentInv, StreamedInOrder, PendingKept

LEMMA ConfigureStep ==
    ASSUME IInv, Initialise \/ SetConfiguredDatabase PROVE IInv'
<1> USE DEF IInv
<1>1. CASE Initialise
  <2>1. BufSamples(config.eventDivision) \in Nat \ {0}
    BY ConstantsAssumption DEF ConstantsAssumption, BufSamples, TypeOK
  <2>2. Signals' = Signals /\ TimeIdx' = TimeIdx
    BY <1>1 DEF Initialise, Signals, TimeIdx
  <2>3. TimeIdx # NotSet => TimeIdx \in Signals
    BY ConstantsAssumption DEF ConstantsAssumption, TypeOK, TimeIdx, Signals
  <2>4. sent = << >> /\ sent' = << >> /\ DOMAIN sent = {}
    BY <1>1 DEF Initialise, PhaseInv
  <2> QED BY <1>1, <2>1, <2>2, <2>3, <2>4
             DEF Initialise, TypeOK, PhaseInv, SentInv, StreamedInOrder, PendingKept
<1>2. CASE SetConfiguredDatabase
  <2>1. Signals' = Signals /\ TimeIdx' = TimeIdx /\ phase' # "Initialised" /\ phase' # "Created"
        /\ counter = 0 /\ counter' = 0 /\ bufIdx' = 0 /\ bufSamples' = bufSamples
        /\ config' = config /\ phase' \in {"Running", "Failed"} /\ TimeIdx \in Signals
        /\ sent = << >>
    BY <1>2 DEF SetConfiguredDatabase, Signals, TimeIdx, PhaseInv
  <2>2. CASE phase' = "Failed"
    <3>1. sent' = << >> /\ DOMAIN sent' = {}
      BY <1>2, <2>1, <2>2 DEF SetConfiguredDatabase
    <3> QED BY <2>1, <2>2, <3>1
               DEF TypeOK, PhaseInv, SentInv, StreamedInOrder, PendingKept
  <2>3. CASE phase' = "Running"
    <3>1. /\ streamBuffers' = [n \in Signals |-> [i \in 0 .. bufSamples - 1 |-> 0]]
          /\ sent' = [n \in Signals \ {TimeIdx} |-> << >>]
      BY <1>2, <2>3 DEF SetConfiguredDatabase
    <3>2. TypeOK'
      BY <2>1, <2>3, <3>1 DEF TypeOK
    <3>3. StreamedInOrder' /\ PendingKept' /\ SentInv'
      BY <2>1, <3>1 DEF StreamedInOrder, PendingKept, SentInv
    <3> QED BY <2>1, <2>3, <3>2, <3>3 DEF PhaseInv
  <2> QED BY <2>1, <2>2, <2>3
<1> QED BY <1>1, <1>2

\* The destructor sends nothing and forgets what was pending.
LEMMA DestroyStep == ASSUME IInv, Destroy PROVE IInv'
<1>1. /\ phase' = "Destroyed"
      /\ UNCHANGED <<config, bufSamples, bufIdx, counter, sent>>
  BY DEF Destroy
<1>2. Signals' = Signals /\ TimeIdx' = TimeIdx
  BY <1>1, SampleKept
<1>3. \A n, k : StoredSample(n, k)' = StoredSample(n, k)
  BY <1>1, SampleKept
<1>4. StreamedInOrder' /\ SentInv'
  BY <1>1, <1>2, <1>3 DEF IInv, StreamedInOrder, SentInv, Seconds
<1> QED BY <1>1, <1>2, <1>4 DEF IInv, TypeOK, PhaseInv, PendingKept

LEMMA SynchroniseStep == ASSUME IInv, Synchronise PROVE IInv'
<1> DEFINE new(n, i) == StoredSample(n, counter - bufIdx + i)
<1>1. /\ phase = "Running" /\ phase' = "Running" /\ counter' = counter + 1
      /\ counter < MaxCycles /\ counter \in Nat /\ config' = config /\ config \in Configurations
      /\ bufSamples' = bufSamples /\ bufSamples \in Nat \ {0} /\ bufIdx \in 0 .. bufSamples - 1
      /\ MaxCycles \in Nat /\ TimeIdx \in Signals
  BY ConstantsAssumption DEF ConstantsAssumption, Synchronise, IInv, TypeOK, PhaseInv
<1>2. bufIdx' = IF bufIdx + 1 = bufSamples THEN 0 ELSE bufIdx + 1
  BY NextIdxValue DEF Synchronise, IInv
<1>3. BlockComplete <=> bufIdx + 1 = bufSamples
  BY <1>1, NextIdxValue DEF BlockComplete, IInv
<1>4. Signals' = Signals /\ TimeIdx' = TimeIdx
  BY <1>1, SampleKept
<1>5. \A n, k : StoredSample(n, k)' = StoredSample(n, k)
  BY <1>1, SampleKept
<1>6. \A n \in Signals :
        /\ streamBuffers'[n] \in [0 .. bufSamples - 1 -> Int]
        /\ \A i \in 0 .. bufIdx : streamBuffers'[n][i] = new(n, i)
  <2> SUFFICES ASSUME NEW n \in Signals
      PROVE  /\ streamBuffers'[n] \in [0 .. bufSamples - 1 -> Int]
             /\ \A i \in 0 .. bufIdx : streamBuffers'[n][i] = new(n, i)
    OBVIOUS
  <2>1. streamBuffers[n] \in [0 .. bufSamples - 1 -> Int]
    BY <1>1 DEF IInv, TypeOK
  <2>2. streamBuffers'[n] = [streamBuffers[n] EXCEPT ![bufIdx] = StoredSample(n, counter)]
    BY DEF Synchronise, Slot, StoredSample
  <2>3. StoredSample(n, counter) \in Int
    BY <1>1, SampleType
  <2>4. \A i \in 0 .. bufIdx - 1 : streamBuffers[n][i] = new(n, i)
    BY <1>1 DEF IInv, PendingKept
  <2>5. counter - bufIdx + bufIdx = counter
    BY <1>1
  <2>6. new(n, bufIdx) = StoredSample(n, counter)
    BY <2>5
  <2> HIDE DEF new
  <2>7. streamBuffers'[n] \in [0 .. bufSamples - 1 -> Int]
    BY <1>1, <2>1, <2>2, <2>3
  <2>8. ASSUME NEW i \in 0 .. bufIdx PROVE streamBuffers'[n][i] = new(n, i)
    <3>1. CASE i = bufIdx
      BY <1>1, <2>1, <2>2, <2>6, <3>1
    <3>2. CASE i # bufIdx
      BY <1>1, <2>1, <2>2, <2>4, <3>2
    <3> QED BY <3>1, <3>2
  <2> QED BY <2>7, <2>8
<1>7. PendingKept'
  <2>1. \A i \in 0 .. bufIdx' - 1 : /\ i \in 0 .. bufIdx
                                   /\ counter' - bufIdx' + i = counter - bufIdx + i
    BY <1>1, <1>2
  <2>2. \A n \in Signals : \A i \in 0 .. bufIdx' - 1 :
            streamBuffers'[n][i] = StoredSample(n, counter' - bufIdx' + i)
    BY <1>6, <2>1
  <2>3. \A n \in Signals : \A i \in 0 .. bufIdx' - 1 :
            streamBuffers'[n][i] = StoredSample(n, counter - bufIdx + i)'
    BY <1>4, <1>5, <2>2
  <2> QED BY <1>4, <2>3 DEF PendingKept
<1>8. streamBuffers' \in [Signals -> [0 .. bufSamples - 1 -> Int]]
  BY <1>6 DEF Synchronise
<1> DEFINE event(n, k) == [time |-> Seconds(StoredSample(TimeIdx, k)),
                           value |-> StoredSample(n, k)]
<1>9. \A n \in Signals \ {TimeIdx} :
        /\ sent'[n] \in Seq(Event) /\ Len(sent'[n]) = counter' - bufIdx'
        /\ \A i \in 1 .. Len(sent'[n]) : sent'[n][i] = event(n, i - 1)
  <2> SUFFICES ASSUME NEW n \in Signals \ {TimeIdx}
      PROVE  /\ sent'[n] \in Seq(Event) /\ Len(sent'[n]) = counter' - bufIdx'
             /\ \A i \in 1 .. Len(sent'[n]) : sent'[n][i] = event(n, i - 1)
    OBVIOUS
  <2>1. /\ sent[n] \in Seq(Event) /\ Len(sent[n]) = counter - bufIdx
        /\ \A i \in 1 .. Len(sent[n]) : sent[n][i] = event(n, i - 1)
    BY <1>1 DEF IInv, TypeOK, SentInv, StreamedInOrder
  <2>2. CASE bufIdx + 1 # bufSamples
    <3>1. sent' = sent
      BY <1>3, <2>2 DEF Synchronise
    <3>2. counter' - bufIdx' = counter - bufIdx
      BY <1>1, <1>2, <2>2
    <3> HIDE DEF event
    <3> QED BY ONLY <2>1, <3>1, <3>2
  <2>3. CASE bufIdx + 1 = bufSamples
    <3> DEFINE block == Block(n, streamBuffers')
    <3>1. sent'[n] = sent[n] \o block
      BY <1>1, <1>3, <2>3 DEF Synchronise, IInv, TypeOK
    <3>2. \A k \in Nat : event(n, k) \in Event
      BY <1>1, SampleType, SecondsType DEF Event
    <3>3. /\ Len(block) = bufSamples /\ block \in Seq(Event)
          /\ \A i \in 1 .. bufSamples : block[i] = event(n, counter - bufIdx + i - 1)
      <4>1. \A i \in 1 .. bufSamples :
              [time |-> Seconds(streamBuffers'[TimeIdx][i - 1]),
               value |-> streamBuffers'[n][i - 1]]
              = event(n, counter - bufIdx + i - 1)
        <5> SUFFICES ASSUME NEW i \in 1 .. bufSamples
            PROVE  /\ streamBuffers'[TimeIdx][i - 1] =
                        StoredSample(TimeIdx, counter - bufIdx + i - 1)
                   /\ streamBuffers'[n][i - 1] = StoredSample(n, counter - bufIdx + i - 1)
          OBVIOUS
        <5>1. i - 1 \in 0 .. bufIdx /\ counter - bufIdx + (i - 1) = counter - bufIdx + i - 1
          BY <1>1, <2>3
        <5> QED BY <1>1, <1>6, <5>1
      <4>2. counter - bufIdx \in Nat
        BY <2>1
      <4> HIDE DEF event
      <4>3. block = [i \in 1 .. bufSamples |-> event(n, counter - bufIdx + i - 1)]
        BY <4>1 DEF Block
      <4> QED BY <1>1, <3>2, <4>2, <4>3
    <3> HIDE DEF event, block
    <3>4. sent'[n] \in Seq(Event) /\ Len(sent'[n]) = Len(sent[n]) + bufSamples
      <4>1. sent[n] \in Seq(Event) /\ block \in Seq(Event)
        BY <2>1, <3>3
      <4>2. sent[n] \o block \in Seq(Event) /\ Len(sent[n] \o block) = Len(sent[n]) + Len(block)
        BY ONLY <4>1, ConcatProperties
      <4> QED BY ONLY <3>1, <3>3, <4>2
    <3>5. Len(sent'[n]) = counter' - bufIdx'
      BY <1>1, <1>2, <2>1, <2>3, <3>4
    <3>6. ASSUME NEW i \in 1 .. Len(sent'[n]) PROVE sent'[n][i] = event(n, i - 1)
      <4>1. CASE i <= Len(sent[n])
        <5>1. sent[n] \in Seq(Event) /\ block \in Seq(Event)
          BY <2>1, <3>3
        <5>2. i \in 1 .. Len(sent[n]) /\ Len(block) \in Nat /\ Len(sent[n]) \in Nat
          BY <1>1, <2>1, <3>3, <4>1
        <5>3. (sent[n] \o block)[i] = sent[n][i]
          BY ONLY <5>1, <5>2, ConcatProperties
        <5> QED BY <2>1, <3>1, <5>2, <5>3
      <4>2. CASE i > Len(sent[n])
        <5>1. Len(sent[n]) \in Nat /\ bufSamples \in Nat
          BY <1>1, <2>1
        <5>2. i \in 1 .. Len(sent[n]) + bufSamples /\ i - Len(sent[n]) \in 1 .. bufSamples
          BY <3>4, <4>2, <5>1
        <5>3. sent[n] \in Seq(Event) /\ block \in Seq(Event) /\ Len(block) = bufSamples
          BY <2>1, <3>3
        <5>4. (sent[n] \o block)[i] =
                 IF i <= Len(sent[n]) THEN sent[n][i] ELSE block[i - Len(sent[n])]
          BY ONLY <5>2, <5>3, ConcatProperties
        <5>5. counter - bufIdx + (i - Len(sent[n])) - 1 = i - 1
          BY <1>1, <2>1
        <5> QED BY <3>1, <3>3, <4>2, <5>2, <5>4, <5>5
      <4> QED BY <2>1, <4>1, <4>2
    <3> QED BY <3>4, <3>5, <3>6
  <2> QED BY <2>2, <2>3
<1>10. DOMAIN sent' = Signals \ {TimeIdx} /\ sent' = [n \in DOMAIN sent' |-> sent'[n]]
  BY <1>1 DEF Synchronise, IInv, TypeOK
<1>11. StreamedInOrder' /\ SentInv'
  BY <1>1, <1>4, <1>5, <1>9, <1>10 DEF StreamedInOrder, SentInv, Seconds
<1>12. TypeOK'
  <2>1. sent' \in [Signals \ {TimeIdx} -> Seq(Event)]
    BY <1>9, <1>10
  <2> QED BY <1>1, <1>2, <1>4, <1>8, <2>1 DEF TypeOK, Event
<1>13. PhaseInv'
  BY <1>1, <1>4 DEF PhaseInv
<1> QED BY <1>7, <1>11, <1>12, <1>13 DEF IInv

LEMMA Inductive == Spec => []IInv
<1>1. IInv /\ [Next]_vars => IInv'
  <2> SUFFICES ASSUME IInv, [Next]_vars PROVE IInv'
    OBVIOUS
  <2>1. CASE UNCHANGED vars
    <3>1. UNCHANGED <<phase, config, bufSamples, bufIdx, streamBuffers, counter, sent>>
      BY <2>1 DEF vars
    <3>2. Signals' = Signals /\ TimeIdx' = TimeIdx
      BY <3>1, SampleKept
    <3>3. \A n, k : StoredSample(n, k)' = StoredSample(n, k)
      BY <3>1, SampleKept
    <3> QED BY <3>1, <3>2, <3>3 DEF IInv, TypeOK, PhaseInv, SentInv, StreamedInOrder,
                                    Seconds, PendingKept
  <2> QED BY <2>1, ConfigureStep, SynchroniseStep, DestroyStep DEF Next
<1> QED BY <1>1, InitIInv, PTL DEF Spec

\* Every variable keeps its type: the index never leaves the buffers
\* (StreamOut.cpp:130-165).
THEOREM TypeCorrect == Spec => []TypeOK
<1>1. IInv => TypeOK
  BY DEF IInv
<1> QED BY Inductive, <1>1, PTL

\* For any size of the blocks and any number of signals, what was sent is the samples
\* in order, each once and with its time, also after the destruction
\* (StreamOut.cpp:135-160).
THEOREM OrderCorrect == Spec => []StreamedInOrder
<1>1. IInv => StreamedInOrder
  BY DEF IInv
<1> QED BY Inductive, <1>1, PTL

\* A time that fits an int32 is not changed by the conversion to it.
LEMMA FittingTime ==
    ASSUME NEW n, NEW k \in Nat, Fits(Sample(n, k))
    PROVE  StoredSample(n, k) = Nearest(Sample(n, k))
<1>1. Sample(n, k) \in Nat
  BY SampleType
<1>2. Sample(n, k) \in 0 .. Word - 1
  BY <1>1, ConstantsAssumption DEF ConstantsAssumption, Fits
<1>3. Sample(n, k) % Word = Sample(n, k)
  BY <1>2, ConstantsAssumption DEF ConstantsAssumption
<1> QED BY <1>3 DEF StoredSample, Stored, ToInt32, Fits

\* Rounding the times and dividing them keeps their order.
LEMMA SecondsMonotone ==
    ASSUME NEW t \in Int, NEW u \in Int, t <= u PROVE Seconds(t) <= Seconds(u)
<1>1. UnitsPerSecond \in Nat \ {0} /\ MicrosPerSecond \in Nat \ {0}
  BY ConstantsAssumption DEF ConstantsAssumption
<1>2. /\ t * UnitsPerSecond \in Int /\ u * UnitsPerSecond \in Int
      /\ t * UnitsPerSecond <= u * UnitsPerSecond
  BY <1>1
<1> QED BY <1>1, <1>2, RoundingMonotone DEF Seconds

\* The times of the events never go back while they fit an int32, whatever is lost of
\* them in a float32 (StreamOut.cpp:144 and 153).
THEOREM TimesCorrect == Spec => []TimesFollowSamples
<1>1. IInv => TimesFollowSamples
  <2> DEFINE T(i) == Sample(TimeIdx, i - 1)
  <2> SUFFICES ASSUME IInv, NEW n \in DOMAIN sent, NEW i \in DOMAIN sent[n], Fits(T(i))
               PROVE  /\ \A j \in 1 .. i : sent[n][j].time <= sent[n][i].time
                      /\ T(i) \in Float32s => sent[n][i].time = Seconds(T(i))
    BY DEF TimesFollowSamples
  <2>1. /\ i \in 1 .. Len(sent[n]) /\ Len(sent[n]) \in Nat
    BY DEF IInv, SentInv
  <2>2. ASSUME NEW j \in 1 .. i
        PROVE  /\ T(j) \in Nat /\ T(j) <= T(i) /\ Fits(T(j))
               /\ sent[n][j].time = Seconds(Nearest(T(j)))
    <3>1. j \in 1 .. Len(sent[n]) /\ j - 1 \in Nat /\ i - 1 \in Nat /\ j - 1 <= i - 1
      BY <2>1
    <3>2. T(j) = (j - 1) * TimeStep /\ T(i) = (i - 1) * TimeStep /\ TimeStep \in Nat
      BY ConstantsAssumption DEF ConstantsAssumption, Sample
    <3>3. T(j) \in Nat /\ T(i) \in Nat
      BY <3>1, SampleType
    <3>4. T(j) <= T(i)
      <4>1. \A x, y, z \in Nat : x <= y => x * z <= y * z
        OBVIOUS
      <4> QED BY <3>1, <3>2, <4>1
    <3>5. Fits(T(j))
      <4> HIDE DEF T
      <4> QED BY <3>3, <3>4, ConstantsAssumption DEF ConstantsAssumption, Fits
    <3>6. sent[n][j].time = Seconds(StoredSample(TimeIdx, j - 1))
      <4>1. sent[n][j] = [time |-> Seconds(StoredSample(TimeIdx, j - 1)),
                          value |-> StoredSample(n, j - 1)]
        BY <3>1 DEF IInv, StreamedInOrder
      <4> QED BY <4>1
    <3> QED BY <3>1, <3>3, <3>4, <3>5, <3>6, FittingTime
  <2>3. i \in 1 .. i /\ i - 1 \in Nat
    BY <2>1
  <2>4. T(i) \in Nat /\ sent[n][i].time = Seconds(Nearest(T(i)))
    BY <2>2, <2>3
  <2>5. ASSUME NEW j \in 1 .. i PROVE sent[n][j].time <= sent[n][i].time
    <3>1. T(j) \in Nat /\ T(j) <= T(i) /\ sent[n][j].time = Seconds(Nearest(T(j)))
      BY <2>2
    <3> HIDE DEF T
    <3>2. Nearest(T(j)) \in Int /\ Nearest(T(i)) \in Int
      BY <2>4, <3>1, NearestType
    <3>3. 1 \in Nat \ {0} /\ T(j) \in Int /\ T(i) \in Int
      BY <2>4, <3>1
    <3>4. Nearest(T(j)) <= Nearest(T(i))
      BY <3>1, <3>3, RoundingMonotone DEF Nearest
    <3> QED BY <3>4, <2>4, <3>1, <3>2, SecondsMonotone
  <2>6. T(i) \in Float32s => sent[n][i].time = Seconds(T(i))
    BY <2>4, RoundingExact
  <2> QED BY <2>5, <2>6
<1> QED BY Inductive, <1>1, PTL

\* No sample is overwritten before it is sent (StreamOut.cpp:137-147).
THEOREM PendingCorrect == Spec => []PendingKept
<1>1. IInv => PendingKept
  BY DEF IInv
<1> QED BY Inductive, <1>1, PTL
-----------------------------------------------------------------------------
\* The cycles since the start are whole blocks and what the buffer holds.
BlocksInv == \E q \in Nat : counter = q * bufSamples + bufIdx

LEMMA BlocksStep == ASSUME IInv, BlocksInv, [Next]_vars PROVE BlocksInv'
<1>1. CASE Initialise \/ SetConfiguredDatabase
  <2>1. counter' = 0 /\ bufIdx' = 0
    BY <1>1 DEF Initialise, SetConfiguredDatabase, IInv, PhaseInv
  <2>2. bufSamples' \in Nat
    <3>1. IInv'
      BY <1>1, ConfigureStep
    <3> QED BY <3>1 DEF IInv, TypeOK
  <2>3. \A b \in Nat : 0 = 0 * b + 0
    OBVIOUS
  <2>4. counter' = 0 * bufSamples' + bufIdx'
    BY <2>1, <2>2, <2>3
  <2> QED BY <2>4 DEF BlocksInv
<1>2. CASE Synchronise
  <2>1. PICK q \in Nat : counter = q * bufSamples + bufIdx
    BY <1>2 DEF Synchronise, BlocksInv
  <2>2. /\ counter' = counter + 1 /\ bufSamples' = bufSamples /\ bufSamples \in Nat \ {0}
        /\ bufIdx \in Nat /\ bufIdx' = IF bufIdx + 1 = bufSamples THEN 0 ELSE bufIdx + 1
    BY <1>2, NextIdxValue DEF Synchronise, IInv, TypeOK
  <2>3. CASE bufIdx + 1 = bufSamples
    <3>1. (q + 1) * bufSamples = q * bufSamples + bufSamples
      BY <2>2
    <3>2. counter' = (q + 1) * bufSamples' + bufIdx'
      BY <2>1, <2>2, <2>3, <3>1
    <3> QED BY <3>2 DEF BlocksInv
  <2>4. CASE bufIdx + 1 # bufSamples
    <3>1. q * bufSamples \in Int
      BY <2>2
    <3>2. counter' = q * bufSamples' + bufIdx'
      BY <2>1, <2>2, <2>4, <3>1
    <3> QED BY <3>2 DEF BlocksInv
  <2> QED BY <2>3, <2>4
<1>3. CASE Destroy
  BY <1>3 DEF Destroy, BlocksInv
<1>4. CASE UNCHANGED vars
  BY <1>4 DEF vars, BlocksInv
<1> QED BY <1>1, <1>2, <1>3, <1>4 DEF Next

\* Only whole blocks are sent, and all those that are complete: in every cycle, and after
\* the destruction, what was sent of a signal is a multiple of the block, less than a block
\* behind the samples (StreamOut.cpp:147-164).
THEOREM WholeBlocks ==
    Spec => [](\A n \in DOMAIN sent :
                  /\ \E q \in Nat : Len(sent[n]) = q * bufSamples
                  /\ counter - Len(sent[n]) \in 0 .. bufSamples - 1)
<1>1. Init => BlocksInv
  <2>1. 0 = 0 * 1 + 0
    OBVIOUS
  <2> QED BY <2>1 DEF Init, BlocksInv
<1>2. IInv /\ BlocksInv /\ [Next]_vars => BlocksInv'
  BY BlocksStep
<1>3. IInv /\ BlocksInv =>
         \A n \in DOMAIN sent :
            /\ \E q \in Nat : Len(sent[n]) = q * bufSamples
            /\ counter - Len(sent[n]) \in 0 .. bufSamples - 1
  <2> SUFFICES ASSUME IInv, BlocksInv, NEW n \in DOMAIN sent
               PROVE  /\ \E q \in Nat : Len(sent[n]) = q * bufSamples
                      /\ counter - Len(sent[n]) \in 0 .. bufSamples - 1
    OBVIOUS
  <2>1. PICK q \in Nat : counter = q * bufSamples + bufIdx
    BY DEF BlocksInv
  <2>2. Len(sent[n]) = counter - bufIdx
    BY DEF IInv, StreamedInOrder
  <2>3. bufIdx \in 0 .. bufSamples - 1 /\ bufSamples \in Nat \ {0} /\ counter \in Nat
    BY ConstantsAssumption DEF ConstantsAssumption, IInv, TypeOK
  <2>4. q * bufSamples \in Int
    BY <2>3
  <2> QED BY <2>1, <2>2, <2>3, <2>4
<1> QED BY <1>1, <1>2, <1>3, Inductive, PTL DEF Spec
=============================================================================
