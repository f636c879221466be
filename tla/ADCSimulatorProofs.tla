------------------------- MODULE ADCSimulatorProofs -------------------------
(***************************************************************************)
(* Proofs about ADCSimulator, for every period, number of samples, width   *)
(* of the counters and bound of the model.                                 *)
(***************************************************************************)
EXTENDS ADCSimulator, TLAPS

\* What is taken modulo the width of a word fits the word.
LEMMA RemainderFits == \A a \in Int, m \in Nat \ {0} : a % m \in 0 .. m - 1
  OBVIOUS

\* What the integer division is.
LEMMA Quotient ==
    ASSUME NEW a \in Nat, NEW b \in Nat \ {0}
    PROVE  /\ a \div b \in Nat
           /\ (a \div b) * b <= a
           /\ a < (a \div b + 1) * b
  OBVIOUS

\* Two multiples of the period less than a period after the same time are one.
LEMMA OneMultiple ==
    ASSUME NEW m \in Nat, NEW n \in Nat, NEW t \in Nat,
           t <= m * Period, m * Period - Period < t,
           t <= n * Period, n * Period - Period < t
    PROVE  m * Period = n * Period
<1> Period \in Nat \ {0} /\ m * Period \in Nat /\ n * Period \in Nat
  BY ConstantsAssumption
<1>1. ASSUME NEW a \in Nat, NEW b \in Nat, a < b PROVE a * Period + Period <= b * Period
  <2>1. (b - a) * Period >= Period
    BY <1>1
  <2>2. (b - a) * Period = b * Period - a * Period
    OBVIOUS
  <2>3. a * Period \in Nat /\ b * Period \in Nat
    OBVIOUS
  <2> QED
    BY <2>1, <2>2, <2>3
<1>2. ~(m < n)
  BY <1>1
<1>3. ~(n < m)
  BY <1>1
<1> QED
  BY <1>2, <1>3

\* A cycle count leads to the period that a wake-up is for.
LEMMA NextPeriodOfCount ==
    ASSUME NEW start \in Nat, NEW n \in 0 .. start, IsCycleCount(n, start)
    PROVE  NextPeriod(start) = n * Period
<1> DEFINE Is(p) == p - Period < start /\ start <= p
           Multiples == {k * Period : k \in 0 .. start}
<1>1. Period \in Nat \ {0} /\ n * Period \in Nat
  BY ConstantsAssumption
<1>2. n * Period - Period < start /\ start <= n * Period
  <2>1. start <= n * Period
    BY <1>1 DEF IsCycleCount
  <2>2. CASE n = 0
    <3>1. n * Period = 0
      BY <1>1, <2>2
    <3> QED
      BY <1>1, <2>1, <3>1
  <2>3. CASE n > 0
    <3>1. (n - 1) * Period = n * Period - Period
      BY <1>1
    <3> QED
      BY <2>3, <3>1, <1>1 DEF IsCycleCount
  <2> QED
    BY <2>1, <2>2, <2>3
<1>3. n * Period \in Multiples /\ Is(n * Period)
  BY <1>2
<1>4. ASSUME NEW p \in Multiples, Is(p) PROVE p = n * Period
  <2>1. PICK m \in 0 .. start : p = m * Period
    OBVIOUS
  <2>2. m \in Nat /\ n \in Nat
    OBVIOUS
  <2> QED
    BY <1>2, <1>4, <2>1, <2>2, OneMultiple
<1>5. NextPeriod(start) = CHOOSE p \in Multiples : Is(p)
  BY DEF NextPeriod
<1> HIDE DEF Is, Multiples
<1>6. (CHOOSE p \in Multiples : Is(p)) \in Multiples /\ Is(CHOOSE p \in Multiples : Is(p))
  BY <1>3
<1> QED
  BY <1>4, <1>5, <1>6

\* Every time has a cycle count: the loop of Execute ends.
LEMMA CycleCountExists ==
    ASSUME NEW start \in Nat PROVE \E n \in 0 .. start : IsCycleCount(n, start)
<1> DEFINE n == (start + Period - 1) \div Period
<1>1. Period \in Nat \ {0}
  BY ConstantsAssumption
<1>2. /\ n \in Nat
      /\ n * Period <= start + Period - 1
      /\ start + Period - 1 < (n + 1) * Period
  BY <1>1, Quotient
<1>3. (n + 1) * Period = n * Period + Period /\ (n - 1) * Period = n * Period - Period
  BY <1>1, <1>2
<1>4. n * Period \in Nat
  BY <1>1, <1>2
<1> HIDE DEF n
<1>5. IsCycleCount(n, start)
  BY <1>1, <1>2, <1>3, <1>4 DEF IsCycleCount
<1>6. n <= start
  <2>1. CASE n = 0
    BY <2>1
  <2>2. CASE n > 0
    <3>1. (n - 1) * Period >= n - 1
      BY <1>1, <1>2, <2>2
    <3> QED
      BY <1>1, <1>2, <1>3, <1>4, <2>2, <3>1
  <2> QED
    BY <1>2, <2>1, <2>2
<1> QED
  BY <1>2, <1>5, <1>6

\* The wake-up is for a multiple of the period.
LEMMA NextPeriodOfStart == ASSUME NEW start \in Nat PROVE NextPeriod(start) \in Int
<1>1. PICK n \in 0 .. start : IsCycleCount(n, start)
  BY CycleCountExists
<1>2. NextPeriod(start) = n * Period
  BY <1>1, NextPeriodOfCount
<1> QED
  BY <1>2, ConstantsAssumption

\* Every variable keeps its type; in particular the index of the loop over the
\* samples never passes the last of them by more than one.
THEOREM TypeCorrect == Spec => []TypeOK
<1>1. Init => TypeOK
  <2> SUFFICES ASSUME Init PROVE TypeOK
    OBVIOUS
  <2> USE DEF Init
  <2>1. /\ tpc = "Off" /\ rpc = "Stopped" /\ spc = "Idle" /\ dpc = "Alive"
        /\ sample \in 1 .. Samples + 1 /\ 0 \in 0 .. Mod - 1 /\ 0 \in 0 .. MaxElapsed
    BY ConstantsAssumption
  <2>2. age \in [Words -> Nat] /\ behind \in Int
    OBVIOUS
  <2>3. /\ firstRun \in BOOLEAN /\ synchSem \in BOOLEAN /\ posted \in BOOLEAN
        /\ lostReset \in BOOLEAN /\ raced \in BOOLEAN
    OBVIOUS
  <2> QED
    BY <2>1, <2>2, <2>3 DEF TypeOK
<1>2. TypeOK /\ [Next]_vars => TypeOK'
  <2> SUFFICES ASSUME TypeOK, [Next]_vars PROVE TypeOK'
    OBVIOUS
  <2> USE ConstantsAssumption DEF TypeOK, clock, locals, signals, others, resets, history
  <2>1. CASE Tick
    BY <2>1 DEF Tick
  <2>2. CASE Begin
    <3> USE <2>2 DEF Begin
    <3>1. (elapsed \in 0 .. MaxElapsed)'
      OBVIOUS
    <3>2. (firstRun \in BOOLEAN)'
      OBVIOUS
    <3> QED
      BY <3>1, <3>2
  <2>3. CASE Rephase
    BY <2>3 DEF Rephase, Delta
  <2>4. CASE Wake
    <3> USE <2>4 DEF Wake
    <3>1. NextPeriod(startTicks) \in Int
      <4>1. startTicks \in Nat
        OBVIOUS
      <4> QED
        BY <4>1, NextPeriodOfStart
    <3>2. (behind \in Int)'
      BY <3>1
    <3> QED
      BY <3>2
  <2>5. CASE Post
    BY <2>5 DEF Post
  <2>6. CASE LoadCounter
    BY <2>6 DEF LoadCounter
  <2>7. CASE StoreCounter
    <3> USE <2>7 DEF StoreCounter
    <3>0. (behind \in Int)'
      <4>1. nCycles * Period \in Int
        OBVIOUS
      <4> QED
        BY <4>1
    <3>1. (counter \in 0 .. Mod - 1)'
      BY RemainderFits DEF Incremented
    <3>2. (sinceReset \in 0 .. Mod - 1)'
      BY RemainderFits
    <3>3. (age \in [Words -> Nat])'
      OBVIOUS
    <3> QED
      BY <3>0, <3>1, <3>2, <3>3
  <2>8. CASE StoreTimer
    <3> USE <2>8 DEF StoreTimer
    <3>1. ASSUME NEW c \in Int PROVE TimerOf(c) \in 0 .. Mod - 1
      <4>1. c * TimerPeriod \in Int
        OBVIOUS
      <4> QED
        BY <4>1, RemainderFits DEF TimerOf
    <3>2. (timer \in 0 .. Mod - 1)'
      BY <3>1
    <3>3. (sample \in 1 .. Samples + 1)'
      OBVIOUS
    <3>4. (age \in [Words -> Nat])'
      OBVIOUS
    <3> QED
      BY <3>2, <3>3, <3>4
  <2>9. CASE StoreAdc
    <3> USE <2>9 DEF StoreAdc
    <3>1. (sample \in 1 .. Samples + 1)'
      BY DEF MoreSamples
    <3>2. (age \in [Words -> Nat])'
      OBVIOUS
    <3> QED
      BY <3>1, <3>2
  <2>10. CASE Return
    BY <2>10 DEF Return
  <2>11. CASE PrepareNextState
    BY <2>11 DEF PrepareNextState
  <2>12. CASE ZeroCounter
    BY <2>12 DEF ZeroCounter, Updating
  <2>13. CASE ZeroTimer
    BY <2>13 DEF ZeroTimer, Updating
  <2>14. CASE StartCycling
    BY <2>14 DEF StartCycling
  <2>15. CASE StopCycling
    BY <2>15 DEF StopCycling
  <2>16. CASE SemReset
    BY <2>16 DEF SemReset
  <2>17. CASE SemWoken
    BY <2>17 DEF SemWoken
  <2>18. CASE DestroyPost
    BY <2>18 DEF DestroyPost
  <2>19. CASE DestroyStop
    BY <2>19 DEF DestroyStop
  <2>20. CASE DestroyDelete
    BY <2>20 DEF DestroyDelete
  <2>21. CASE UNCHANGED vars
    BY <2>21 DEF vars
  <2> QED
    BY <2>1, <2>2, <2>3, <2>4, <2>5, <2>6, <2>7, <2>8, <2>9, <2>10, <2>11, <2>12,
       <2>13, <2>14, <2>15, <2>16, <2>17, <2>18, <2>19, <2>20, <2>21 DEF Next, Execute
<1> QED
  BY <1>1, <1>2, PTL DEF Spec
-----------------------------------------------------------------------------
(* The sleep and the cycles that are counted *)

\* What Rephase computes: the sleep ends nCycles periods after lastTimeTicks.
SleepInv ==
    tpc = "Sleep" =>
        /\ nCycles \in 0 .. startTicks /\ IsCycleCount(nCycles, startTicks)
        /\ deltaTicks = Delta(nCycles, startTicks)

\* The cycles that Execute found, and has not added yet, are what the counter lacks
\* besides what passed since lastTimeTicks.
BehindInv ==
    /\ tpc \in {"Begin", "Rephase", "Sleep", "StoreTimer", "StoreAdc"} => behind = elapsed
    /\ tpc \in {"Post", "LoadCounter", "StoreCounter"} => behind = elapsed + nCycles * Period
    /\ tpc = "Off" /\ dpc = "Alive" => behind = elapsed
    /\ dpc = "Deleted" => tpc = "Off"

\* A cycle count gives a sleep between 0 and a period.
LEMMA CycleCountSleep ==
    ASSUME NEW n \in Nat, NEW start \in Nat, IsCycleCount(n, start)
    PROVE  Delta(n, start) \in 0 .. Period - 1
<1>1. n * Period \in Nat /\ Period \in Nat \ {0}
  BY ConstantsAssumption
<1>2. Delta(n, start) = n * Period - start
  BY <1>1 DEF Delta
<1>3. n * Period >= start
  BY DEF IsCycleCount
<1>4. n * Period - start < Period
  <2>1. CASE n = 0
    BY <2>1, <1>1
  <2>2. CASE n > 0
    <3>1. (n - 1) * Period = n * Period - Period
      BY <1>1
    <3> QED
      BY <2>2, <3>1, <1>1 DEF IsCycleCount
  <2> QED
    BY <2>1, <2>2
<1> QED
  BY <1>1, <1>2, <1>3, <1>4

\* Only Rephase finds a cycle count.
LEMMA SleepStep == ASSUME TypeOK, SleepInv, [Next]_vars PROVE SleepInv'
<1> USE DEF clock, locals, signals, others, resets, history
<1>1. CASE Rephase
  <2>1. PICK n \in 0 .. elapsed :
            /\ IsCycleCount(n, elapsed)
            /\ nCycles' = n
            /\ deltaTicks' = Delta(n, elapsed)
    BY <1>1 DEF Rephase
  <2>2. SleepInv' <=> (tpc' = "Sleep" => /\ nCycles' \in 0 .. startTicks'
                                         /\ IsCycleCount(nCycles', startTicks')
                                         /\ deltaTicks' = Delta(nCycles', startTicks'))
    BY DEF SleepInv, IsCycleCount, Delta
  <2> QED
    BY <1>1, <2>1, <2>2 DEF Rephase
<1>2. CASE Tick \/ Begin \/ Wake \/ Post \/ LoadCounter \/ StoreCounter \/ StoreTimer
           \/ StoreAdc \/ Return
  BY <1>2 DEF SleepInv, IsCycleCount, Delta, Tick, Begin, Wake, Post, LoadCounter,
              StoreCounter, StoreTimer, StoreAdc, Return
<1>3. CASE PrepareNextState \/ ZeroCounter \/ ZeroTimer
  BY <1>3 DEF SleepInv, IsCycleCount, Delta, PrepareNextState, ZeroCounter, ZeroTimer
<1>4. CASE StartCycling \/ StopCycling \/ SemReset \/ SemWoken
  BY <1>4 DEF SleepInv, IsCycleCount, Delta, StartCycling, StopCycling, SemReset, SemWoken
<1>5. CASE DestroyPost \/ DestroyStop \/ DestroyDelete
  BY <1>5 DEF SleepInv, IsCycleCount, Delta, DestroyPost, DestroyStop, DestroyDelete
<1>6. CASE UNCHANGED vars
  BY <1>6 DEF SleepInv, IsCycleCount, Delta, vars
<1> QED
  BY <1>1, <1>2, <1>3, <1>4, <1>5, <1>6 DEF Next, Execute

\* Only the wake-up and the increment of the counter take from what it lacks: the
\* first by what lastTimeTicks forgets, the second by the cycles it adds.
LEMMA BehindStep == ASSUME TypeOK, SleepInv, BehindInv, [Next]_vars PROVE BehindInv'
<1> USE DEF clock, locals, signals, others, resets, history, BehindInv
<1> behind \in Int /\ elapsed \in Nat /\ nCycles * Period \in Int
  BY ConstantsAssumption DEF TypeOK
<1>1. CASE Wake
  <2>1. NextPeriod(startTicks) = nCycles * Period
    <3>1. startTicks \in Nat
      BY DEF TypeOK
    <3> QED
      BY <1>1, <3>1, NextPeriodOfCount DEF Wake, SleepInv
  <2>2. behind' = nCycles * Period /\ elapsed' = 0
    BY <1>1, <2>1 DEF Wake
  <2>3. tpc' = "Post" /\ nCycles' = nCycles /\ dpc' = dpc /\ dpc # "Deleted"
    BY <1>1 DEF Wake
  <2> QED
    BY <2>2, <2>3
<1>2. CASE StoreCounter
  BY <1>2 DEF StoreCounter
<1>3. CASE Tick
  BY <1>3 DEF Tick
<1>4. CASE Begin
  BY <1>4 DEF Begin
<1>5. CASE Rephase
  BY <1>5 DEF Rephase
<1>6. CASE Post \/ LoadCounter \/ StoreTimer \/ StoreAdc \/ Return
  BY <1>6 DEF Post, LoadCounter, StoreTimer, StoreAdc, Return
<1>7. CASE PrepareNextState \/ ZeroCounter \/ ZeroTimer
  BY <1>7 DEF PrepareNextState, ZeroCounter, ZeroTimer
<1>8. CASE StartCycling \/ StopCycling \/ SemReset \/ SemWoken
  BY <1>8 DEF StartCycling, StopCycling, SemReset, SemWoken
<1>9. CASE DestroyPost \/ DestroyStop \/ DestroyDelete
  BY <1>9 DEF DestroyPost, DestroyStop, DestroyDelete
<1>10. CASE UNCHANGED vars
  BY <1>10 DEF vars
<1> QED
  BY <1>1, <1>2, <1>3, <1>4, <1>5, <1>6, <1>7, <1>8, <1>9, <1>10 DEF Next, Execute

\* However many periods the thread lost, it sleeps less than one period: the
\* unsigned difference in Execute does not wrap.
THEOREM SleepCorrect == Spec => []SleepShorterThanPeriod
<1>1. Init => SleepInv
  BY DEF Init, SleepInv
<1>2. TypeOK /\ SleepInv /\ [Next]_vars => SleepInv'
  BY SleepStep
<1>3. TypeOK /\ SleepInv => SleepShorterThanPeriod
  BY CycleCountSleep DEF TypeOK, SleepInv, SleepShorterThanPeriod
<1> QED
  BY <1>1, <1>2, <1>3, TypeCorrect, PTL DEF Spec

\* Whatever the period and however late Execute begins, what it adds to the counter is
\* every period since the last wake-up, once.
THEOREM CyclesCorrect == Spec => []CyclesCountedOnce
<1>1. Init => SleepInv /\ BehindInv
  BY DEF Init, SleepInv, BehindInv
<1>2. TypeOK /\ SleepInv /\ BehindInv /\ [Next]_vars => (SleepInv /\ BehindInv)'
  BY SleepStep, BehindStep
<1>3. BehindInv => CyclesCountedOnce
  BY DEF BehindInv, CyclesCountedOnce
<1> QED
  BY <1>1, <1>2, <1>3, TypeCorrect, PTL DEF Spec
-----------------------------------------------------------------------------
(* The age of the words in the shared memory *)

\* The words the service thread has not updated yet in its step.
Stale(w) ==
    \/ tpc \in {"LoadCounter", "StoreCounter"}
    \/ tpc = "StoreTimer" /\ w # Counter
    \/ tpc = "StoreAdc" /\ w >= sample + 2

\* Unless the thread was killed, only the words it has still to update are one post old.
AgeInv ==
    /\ dpc = "Deleted" => tpc = "Off"
    /\ \A w \in Words : age[w] <= 1 /\ (dpc # "Deleted" /\ ~Stale(w) => age[w] = 0)

LEMMA AgeStep == ASSUME TypeOK, AgeInv, [Next]_vars PROVE AgeInv'
<1> USE ConstantsAssumption
    DEF clock, locals, signals, others, resets, history, TypeOK, AgeInv, Stale, Words,
        Counter, Timer
<1>1. CASE Post
  BY <1>1 DEF Post
<1>2. CASE LoadCounter
  BY <1>2 DEF LoadCounter
<1>3. CASE StoreCounter
  BY <1>3 DEF StoreCounter
<1>4. CASE StoreTimer
  <2>1. \A w \in Words : age'[w] = IF w = Timer THEN 0 ELSE age[w]
    BY <1>4 DEF StoreTimer
  <2>2. tpc = "StoreTimer" /\ tpc' = "StoreAdc" /\ sample' = 1 /\ dpc' = dpc
    BY <1>4 DEF StoreTimer
  <2>3. \A w \in Words : Stale(w)' <=> w > 2
    BY <2>2
  <2>4. \A w \in Words : w <= 2 /\ dpc # "Deleted" => age'[w] = 0
    BY <2>1, <2>2
  <2>5. \A w \in Words : age'[w] <= 1
    BY <2>1
  <2> QED
    BY <2>2, <2>3, <2>4, <2>5
<1>5. CASE StoreAdc
  <2>1. \A w \in Words : age'[w] = IF w = sample + 2 THEN 0 ELSE age[w]
    BY <1>5 DEF StoreAdc
  <2>2. tpc = "StoreAdc" /\ tpc' = tpc /\ sample' = sample + 1 /\ dpc' = dpc
    BY <1>5 DEF StoreAdc
  <2>3. \A w \in Words : ~Stale(w)' => w = sample + 2 \/ ~Stale(w)
    BY <2>2
  <2>4. \A w \in Words : age'[w] <= 1
    BY <2>1
  <2> QED
    BY <2>1, <2>2, <2>3, <2>4
<1>6. CASE Return
  BY <1>6 DEF Return, MoreSamples
<1>7. CASE Tick \/ Begin \/ Rephase \/ Wake
  BY <1>7 DEF Tick, Begin, Rephase, Wake
<1>8. CASE PrepareNextState \/ ZeroCounter \/ ZeroTimer
  BY <1>8 DEF PrepareNextState, ZeroCounter, ZeroTimer
<1>9. CASE StartCycling \/ StopCycling \/ SemReset \/ SemWoken
  BY <1>9 DEF StartCycling, StopCycling, SemReset, SemWoken
<1>10. CASE DestroyPost \/ DestroyStop \/ DestroyDelete
  BY <1>10 DEF DestroyPost, DestroyStop, DestroyDelete
<1>11. CASE UNCHANGED vars
  BY <1>11 DEF vars
<1> QED
  BY <1>1, <1>2, <1>3, <1>4, <1>5, <1>6, <1>7, <1>8, <1>9, <1>10, <1>11 DEF Next, Execute

\* Although the semaphore is posted before the words are updated, nothing in the
\* shared memory is ever older than the cycle before the post.
THEOREM AgeCorrect == Spec => []WordsAtMostOneCycleOld
<1>1. Init => AgeInv
  BY DEF Init, AgeInv, Stale, Words
<1>2. TypeOK /\ AgeInv /\ [Next]_vars => AgeInv'
  BY AgeStep
<1>3. AgeInv => WordsAtMostOneCycleOld
  BY DEF AgeInv, WordsAtMostOneCycleOld
<1> QED
  BY <1>1, <1>2, <1>3, TypeCorrect, PTL DEF Spec
-----------------------------------------------------------------------------
(* The resets of PrepareNextState *)

\* Between the load and the store of the counter the register holds the counter,
\* or a reset fell in between.
ResetInv ==
    /\ ~lostReset => counter = sinceReset
    /\ tpc = "StoreCounter" /\ ~lostReset => tmp = counter

LEMMA ResetStep == ASSUME TypeOK, ResetInv, [Next]_vars PROVE ResetInv'
<1> USE DEF clock, locals, signals, others, resets, history, ResetInv
<1>1. CASE LoadCounter
  BY <1>1 DEF LoadCounter
<1>2. CASE StoreCounter
  BY <1>2 DEF StoreCounter, Incremented
<1>3. CASE ZeroCounter
  BY <1>3 DEF ZeroCounter
<1>4. CASE Tick \/ Begin \/ Rephase \/ Wake \/ Post \/ StoreTimer \/ StoreAdc \/ Return
  BY <1>4 DEF Tick, Begin, Rephase, Wake, Post, StoreTimer, StoreAdc, Return
<1>5. CASE PrepareNextState \/ ZeroTimer
  BY <1>5 DEF PrepareNextState, ZeroTimer
<1>6. CASE StartCycling \/ StopCycling \/ SemReset \/ SemWoken
  BY <1>6 DEF StartCycling, StopCycling, SemReset, SemWoken
<1>7. CASE DestroyPost \/ DestroyStop \/ DestroyDelete
  BY <1>7 DEF DestroyPost, DestroyStop, DestroyDelete
<1>8. CASE UNCHANGED vars
  BY <1>8 DEF vars
<1> QED
  BY <1>1, <1>2, <1>3, <1>4, <1>5, <1>6, <1>7, <1>8 DEF Next, Execute

\* The only way to lose a reset of the counter is inside `counter += nCycles'.
THEOREM ResetCorrect == Spec => []ResetUnlessLost
<1>1. Init => ResetInv
  BY DEF Init, ResetInv
<1>2. TypeOK /\ ResetInv /\ [Next]_vars => ResetInv'
  BY ResetStep
<1>3. ResetInv => ResetUnlessLost
  BY DEF ResetInv, ResetUnlessLost
<1> QED
  BY <1>1, <1>2, <1>3, TypeCorrect, PTL DEF Spec

\* An update that no reset has overlapped has the counter in the register; when
\* none is going on, the timer follows the counter, unless the reset is half done.
TimerInv ==
    /\ Updating /\ ~raced => spc # "ZeroTimer"
    /\ tpc = "StoreCounter" /\ ~raced => tmp = counter
    /\ tpc = "StoreTimer" /\ ~raced => tmp = counter
    /\ (~Updating /\ dpc # "Deleted" /\ spc # "ZeroTimer" /\ ~raced)
          => timer = TimerOf(counter)
    /\ dpc = "Deleted" => tpc = "Off"

LEMMA TimerStep == ASSUME TypeOK, TimerInv, [Next]_vars PROVE TimerInv'
<1> USE DEF clock, locals, signals, others, resets, history, TimerInv, Updating
<1>1. CASE LoadCounter
  BY <1>1 DEF LoadCounter
<1>2. CASE StoreCounter
  BY <1>2 DEF StoreCounter
<1>3. CASE StoreTimer
  BY <1>3 DEF StoreTimer
<1>4. CASE ZeroCounter
  BY <1>4 DEF ZeroCounter
<1>5. CASE ZeroTimer
  <2>1. TimerOf(0) = 0
    BY ConstantsAssumption DEF TimerOf
  <2> QED
    BY <1>5, <2>1 DEF ZeroTimer
<1>6. CASE PrepareNextState
  BY <1>6 DEF PrepareNextState
<1>7. CASE Tick \/ Begin \/ Rephase \/ Wake \/ Post \/ StoreAdc \/ Return
  BY <1>7 DEF Tick, Begin, Rephase, Wake, Post, StoreAdc, Return
<1>8. CASE StartCycling \/ StopCycling \/ SemReset \/ SemWoken
  BY <1>8 DEF StartCycling, StopCycling, SemReset, SemWoken
<1>9. CASE DestroyPost \/ DestroyStop \/ DestroyDelete
  BY <1>9 DEF DestroyPost, DestroyStop, DestroyDelete
<1>10. CASE UNCHANGED vars
  BY <1>10 DEF vars
<1> QED
  BY <1>1, <1>2, <1>3, <1>4, <1>5, <1>6, <1>7, <1>8, <1>9, <1>10 DEF Next, Execute

\* The timer and the counter agree between two updates that no reset overlapped.
THEOREM TimerCorrect == Spec => []TimerFollowsCounter
<1>1. Init => TimerInv
  BY ConstantsAssumption DEF Init, TimerInv, Updating, TimerOf
<1>2. TypeOK /\ TimerInv /\ [Next]_vars => TimerInv'
  BY TimerStep
<1>3. TimerInv => TimerFollowsCounter
  BY DEF TimerInv, TimerFollowsCounter, Updating, TimerOf
<1> QED
  BY <1>1, <1>2, <1>3, TypeCorrect, PTL DEF Spec
-----------------------------------------------------------------------------
(* The semaphore *)

\* While the real-time thread waits, a set semaphore was set after its last wake-up.
PostedInv == rpc = "Wait" /\ synchSem => posted

LEMMA PostedStep == ASSUME TypeOK, PostedInv, [Next]_vars PROVE PostedInv'
<1> USE DEF clock, locals, signals, others, resets, history, TypeOK, PostedInv
<1>1. CASE Post
  BY <1>1 DEF Post
<1>2. CASE SemReset
  BY <1>2 DEF SemReset
<1>3. CASE SemWoken
  BY <1>3 DEF SemWoken
<1>4. CASE DestroyPost
  BY <1>4 DEF DestroyPost
<1>5. CASE Tick \/ Begin \/ Rephase \/ Wake
  BY <1>5 DEF Tick, Begin, Rephase, Wake
<1>6. CASE LoadCounter \/ StoreCounter \/ StoreTimer \/ StoreAdc \/ Return
  BY <1>6 DEF LoadCounter, StoreCounter, StoreTimer, StoreAdc, Return
<1>7. CASE PrepareNextState \/ ZeroCounter \/ ZeroTimer
  BY <1>7 DEF PrepareNextState, ZeroCounter, ZeroTimer
<1>8. CASE StartCycling \/ StopCycling \/ DestroyStop \/ DestroyDelete
  BY <1>8 DEF StartCycling, StopCycling, DestroyStop, DestroyDelete
<1>9. CASE UNCHANGED vars
  BY <1>9 DEF vars
<1> QED
  BY <1>1, <1>2, <1>3, <1>4, <1>5, <1>6, <1>7, <1>8, <1>9 DEF Next, Execute

\* Only SemWoken ends a wait, and only with the semaphore set.
LEMMA WokenBySemaphore ==
    ASSUME [Next]_vars, rpc = "Wait", rpc' = "Cycle" PROVE synchSem
<1> USE DEF clock, locals, signals, others, resets, history
<1>1. CASE SemWoken
  BY <1>1 DEF SemWoken
<1>2. CASE StartCycling \/ StopCycling \/ SemReset
  BY <1>2 DEF StartCycling, StopCycling, SemReset
<1>3. CASE Tick \/ Begin \/ Rephase \/ Wake \/ Post
  BY <1>3 DEF Tick, Begin, Rephase, Wake, Post
<1>4. CASE LoadCounter \/ StoreCounter \/ StoreTimer \/ StoreAdc \/ Return
  BY <1>4 DEF LoadCounter, StoreCounter, StoreTimer, StoreAdc, Return
<1>5. CASE PrepareNextState \/ ZeroCounter \/ ZeroTimer
  BY <1>5 DEF PrepareNextState, ZeroCounter, ZeroTimer
<1>6. CASE DestroyPost \/ DestroyStop \/ DestroyDelete
  BY <1>6 DEF DestroyPost, DestroyStop, DestroyDelete
<1>7. CASE UNCHANGED vars
  BY <1>7 DEF vars
<1> QED
  BY <1>1, <1>2, <1>3, <1>4, <1>5, <1>6, <1>7 DEF Next, Execute

\* Two wake-ups of the real-time thread are separated by a post.
THEOREM WakeUpCorrect == Spec => NoCycleConsumedTwice
<1>1. Init => PostedInv
  BY DEF Init, PostedInv
<1>2. TypeOK /\ PostedInv /\ [Next]_vars => PostedInv'
  BY PostedStep
<1>3. PostedInv /\ [Next]_vars => [(rpc = "Wait" /\ rpc' = "Cycle") => posted]_vars
  BY WokenBySemaphore DEF PostedInv
<1> QED
  BY <1>1, <1>2, <1>3, TypeCorrect, PTL DEF Spec, NoCycleConsumedTwice
-----------------------------------------------------------------------------
(* The wait without a timeout *)

\* While the object lives the service thread runs whenever the real-time thread
\* cycles; the destructor leaves a semaphore behind for a thread that waits.
StrandedInv ==
    /\ rpc # "Stopped" /\ dpc = "Alive" => tpc # "Off"
    /\ rpc = "Wait" /\ dpc # "Alive" => synchSem

\* The service thread ends only after the destructor has begun.
LEMMA StrandedStep == ASSUME StrandedInv, [Next]_vars PROVE StrandedInv'
<1> USE DEF clock, locals, signals, others, resets, history, StrandedInv
<1>1. CASE Return
  BY <1>1 DEF Return
<1>2. CASE Tick \/ Begin \/ Rephase \/ Wake \/ Post
  BY <1>2 DEF Tick, Begin, Rephase, Wake, Post
<1>3. CASE LoadCounter \/ StoreCounter \/ StoreTimer \/ StoreAdc
  BY <1>3 DEF LoadCounter, StoreCounter, StoreTimer, StoreAdc
<1>4. CASE PrepareNextState \/ ZeroCounter \/ ZeroTimer
  BY <1>4 DEF PrepareNextState, ZeroCounter, ZeroTimer
<1>5. CASE StartCycling \/ StopCycling
  BY <1>5 DEF StartCycling, StopCycling
<1>6. CASE SemReset \/ SemWoken
  BY <1>6 DEF SemReset, SemWoken
<1>7. CASE DestroyPost
  BY <1>7 DEF DestroyPost
<1>8. CASE DestroyStop \/ DestroyDelete
  BY <1>8 DEF DestroyStop, DestroyDelete
<1>9. CASE UNCHANGED vars
  BY <1>9 DEF vars
<1> QED
  BY <1>1, <1>2, <1>3, <1>4, <1>5, <1>6, <1>7, <1>8, <1>9 DEF Next, Execute

\* A thread blocked in Synchronise is never left with nobody to wake it: the
\* semaphore is set, or the service thread that sets it every period is alive.
THEOREM NeverStranded ==
    Spec => [](rpc = "Wait" => synchSem \/ (dpc = "Alive" /\ tpc # "Off"))
<1>1. Init => StrandedInv
  BY DEF Init, StrandedInv
<1>2. StrandedInv /\ [Next]_vars => StrandedInv'
  BY StrandedStep
<1>3. StrandedInv => (rpc = "Wait" => synchSem \/ (dpc = "Alive" /\ tpc # "Off"))
  BY DEF StrandedInv
<1> QED
  BY <1>1, <1>2, <1>3, PTL DEF Spec
=============================================================================
