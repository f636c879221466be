---------------------------- MODULE ADCSimulator ----------------------------
(***************************************************************************)
(* The ADCSimulator data source: a service thread sleeps for a period,     *)
(* posts an EventSem and then updates the signals; a real-time thread      *)
(* waits for the EventSem; the state machine resets the counter and the    *)
(* timer; the destructor stops the service thread and frees the samples.   *)
(*                                                                         *)
(* Time is relative to lastTimeTicks: `elapsed' is                         *)
(* HighResolutionTimer::Counter() - lastTimeTicks.  The real-time thread,  *)
(* the SingleThreadService and the EventSem belong to MARTe2 and are       *)
(* modelled from how this class uses them.                                 *)
(***************************************************************************)
EXTENDS Integers

CONSTANTS
    Period,       \* sleepTimeTicks
    TimerPeriod,  \* timerPeriodUsecTime
    Mod,          \* number of values of a uint32 (2^32 in the code)
    Samples,      \* number of ADC words written in a cycle
    Early,        \* a sleep may end this many ticks before what was asked
    MaxElapsed    \* bound: the service thread is never later than this

ASSUME ConstantsAssumption ==
    /\ Period \in Nat \ {0} /\ Mod \in Nat \ {0} /\ TimerPeriod \in Nat
    /\ Samples \in Nat /\ Early \in Nat /\ MaxElapsed \in Nat

VARIABLES
    tpc,        \* next step of the service thread in Execute
    firstRun,   \* lastTimeTicks = 0
    elapsed,    \* ticks since lastTimeTicks
    startTicks, nCycles, deltaTicks,
    tmp,        \* the register holding counterAndTimer[0]
    sample,     \* next ADC word to write
    counter,    \* counterAndTimer[0]
    timer,      \* counterAndTimer[1]
    synchSem,   \* the EventSem
    rpc,        \* what the real-time thread is doing
    spc,        \* next step of PrepareNextState
    dpc,        \* next step of the destructor
    age,        \* history: how many posts ago each word was written
    posted,     \* history: there was a post after the last wake-up
    behind,     \* history: real time that is not in the counter yet, in ticks,
                \* without that by which wake-ups missed their period
    sinceReset, \* history: cycles added since the last reset (a uint32)
    lostReset,  \* history: the last reset fell inside `counter += nCycles'
    raced       \* history: a reset overlapped the last update

clock == <<firstRun, elapsed>>
locals == <<startTicks, nCycles, deltaTicks, tmp, sample>>
signals == <<counter, timer>>
others == <<rpc, spc, dpc>>
resets == <<sinceReset, lostReset, raced>>
history == <<age, posted, behind, resets>>
vars == <<tpc, clock, locals, signals, synchSem, others, history>>

\* The words of the shared memory, in the order of the signals.
Counter == 1
Timer == 2
Words == 1 .. Samples + 2

\* The service thread is between its load of the counter and its last store.
Updating == tpc \in {"StoreCounter", "StoreTimer"}

Init ==
    /\ tpc = "Off" /\ rpc = "Stopped" /\ spc = "Idle" /\ dpc = "Alive"
    /\ firstRun = TRUE /\ elapsed = 0
    /\ startTicks = 0 /\ nCycles = 0 /\ deltaTicks = 0 /\ tmp = 0 /\ sample = 1
    /\ counter = 0 /\ timer = 0 /\ synchSem = FALSE
    /\ age = [w \in Words |-> 0] /\ posted = FALSE /\ behind = 0
    /\ sinceReset = 0 /\ lostReset = FALSE /\ raced = FALSE
-----------------------------------------------------------------------------
(* The service thread: ADCSimulator::Execute *)

Tick ==
    /\ tpc # "Off" /\ elapsed < MaxElapsed
    /\ elapsed' = elapsed + 1
    /\ behind' = behind + 1
    /\ UNCHANGED <<tpc, firstRun, locals, signals, synchSem, others, age, posted, resets>>

\* lastTimeTicks is taken from the clock on the first run only.
Begin ==
    /\ tpc = "Begin" /\ tpc' = "Rephase"
    /\ elapsed' = IF firstRun THEN 0 ELSE elapsed
    /\ behind' = IF firstRun THEN 0 ELSE behind
    /\ firstRun' = FALSE
    /\ UNCHANGED <<locals, signals, synchSem, others, age, posted, resets>>

\* (faulty) while (lastTimeTicks <= startTicks).
IsCycleCountInclusive(n, start) ==
    n * Period > start /\ (n > 0 => (n - 1) * Period <= start)

\* (faulty) A lost cycle is looked for with "if" in place of "while".
IsCycleCountOnce(n, start) == n = IF start > 0 THEN 1 ELSE 0

\* The first multiple of the period after lastTimeTicks that is not before start.
IsCycleCount(n, start) ==
    n * Period >= start /\ (n > 0 => (n - 1) * Period < start)

\* What is left of the period once lastTimeTicks is rephased to n - 1 periods.
Delta(n, start) == Period - (start - (n * Period - Period))

Rephase ==
    /\ tpc = "Rephase" /\ tpc' = "Sleep"
    /\ startTicks' = elapsed
    /\ \E n \in 0 .. elapsed :
          /\ IsCycleCount(n, elapsed)
          /\ nCycles' = n
          /\ deltaTicks' = Delta(n, elapsed)
    /\ UNCHANGED <<clock, tmp, sample, signals, synchSem, others, history>>

\* What the history `behind' takes for the period that a wake-up is for: the
\* multiple of the period on which t falls, or the next one.
NextPeriod(t) == CHOOSE p \in {n * Period : n \in 0 .. t} : p - Period < t /\ t <= p

\* The sleep lasts deltaTicks or more; only Sleep::NoMore, whose argument is rounded
\* to a float32, may fall short.  lastTimeTicks is read from the clock, which
\* forgets by how much the wake-up was late.
Wake ==
    /\ tpc = "Sleep" /\ tpc' = "Post"
    /\ elapsed + Early >= startTicks + deltaTicks
    /\ elapsed' = 0
    /\ behind' = behind - (elapsed - NextPeriod(startTicks))
    /\ UNCHANGED <<firstRun, locals, signals, synchSem, others, age, posted, resets>>

\* The EventSem is posted before any of the signals is updated.
Post ==
    /\ tpc = "Post" /\ tpc' = "LoadCounter"
    /\ synchSem' = TRUE
    /\ posted' = TRUE /\ age' = [w \in Words |-> age[w] + 1]
    /\ UNCHANGED <<clock, locals, signals, others, behind, resets>>

\* counterAndTimer[0] += nCycles is a load and a store, and nothing locks it.
LoadCounter ==
    /\ tpc = "LoadCounter" /\ tpc' = "StoreCounter"
    /\ tmp' = counter
    /\ raced' = (spc = "ZeroTimer")
    /\ UNCHANGED <<clock, startTicks, nCycles, deltaTicks, sample, signals,
                   synchSem, others, age, posted, behind, sinceReset, lostReset>>

\* (faulty) Lost cycles are not counted.
IncrementedByOne(c) == (c + 1) % Mod

Incremented(c) == (c + nCycles) % Mod

StoreCounter ==
    /\ tpc = "StoreCounter" /\ tpc' = "StoreTimer"
    /\ counter' = Incremented(tmp) /\ tmp' = counter'
    /\ age' = [age EXCEPT ![Counter] = 0]
    /\ behind' = behind - nCycles * Period
    /\ sinceReset' = (sinceReset + nCycles) % Mod
    /\ UNCHANGED <<clock, startTicks, nCycles, deltaTicks, sample, timer, synchSem,
                   others, posted, lostReset, raced>>

\* (faulty) The timer is computed from the counter before its increment.
TimerOfPreviousCount(c) == ((c - nCycles) * TimerPeriod) % Mod

TimerOf(c) == (c * TimerPeriod) % Mod

\* The counter is read again, or its register is reused.  What l.415 reads of the
\* timer for the samples is not distinguished from what is stored here.
StoreTimer ==
    /\ tpc = "StoreTimer" /\ tpc' = "StoreAdc"
    /\ \E c \in {counter, tmp} : timer' = TimerOf(c)
    /\ sample' = 1
    /\ age' = [age EXCEPT ![Timer] = 0]
    /\ UNCHANGED <<clock, startTicks, nCycles, deltaTicks, tmp, counter, synchSem,
                   others, posted, behind, resets>>

\* (faulty) One sample too many, or one too few.
MoreSamplesOver == sample <= Samples + 1
MoreSamplesUnder == sample < Samples

MoreSamples == sample <= Samples

\* The samples, functions of the timer, are written one by one.
StoreAdc ==
    /\ tpc = "StoreAdc" /\ MoreSamples
    /\ sample' = sample + 1
    /\ age' = [age EXCEPT ![sample + 2] = 0]
    /\ UNCHANGED <<tpc, clock, startTicks, nCycles, deltaTicks, tmp, signals,
                   synchSem, others, posted, behind, resets>>

\* Execute returns: the service calls it again, or ends if Stop was called.
Return ==
    /\ tpc = "StoreAdc" /\ ~MoreSamples
    /\ tpc' = IF dpc = "Stopping" THEN "Off" ELSE "Begin"
    /\ UNCHANGED <<clock, locals, signals, synchSem, others, history>>

Execute ==
    \/ Begin \/ Rephase \/ Wake \/ Post \/ LoadCounter \/ StoreCounter
    \/ StoreTimer \/ StoreAdc \/ Return
-----------------------------------------------------------------------------
(* The state machine: ADCSimulator::PrepareNextState *)

PrepareNextState ==
    /\ spc = "Idle" /\ dpc = "Alive" /\ spc' = "ZeroCounter"
    /\ \/ tpc = "Off" /\ tpc' = "Begin"  \* executor.Start()
       \/ tpc' = tpc                     \* already running, or Start fails
    /\ UNCHANGED <<clock, locals, signals, synchSem, rpc, dpc, history>>

ZeroCounter ==
    /\ spc = "ZeroCounter" /\ spc' = "ZeroTimer"
    /\ counter' = 0
    /\ sinceReset' = 0
    /\ lostReset' = (tpc = "StoreCounter")
    /\ raced' = (raced \/ Updating)
    /\ UNCHANGED <<tpc, clock, locals, timer, synchSem, rpc, dpc, age, posted, behind>>

ZeroTimer ==
    /\ spc = "ZeroTimer" /\ spc' = "Idle"
    /\ timer' = 0
    /\ raced' = (raced \/ Updating \/ counter # 0)
    /\ UNCHANGED <<tpc, clock, locals, counter, synchSem, rpc, dpc, age, posted,
                   behind, sinceReset, lostReset>>
-----------------------------------------------------------------------------
(* The real-time thread: ADCSimulator::Synchronise, once per cycle *)

\* The framework starts and stops the cycle, after PrepareNextState succeeded.
StartCycling ==
    /\ rpc = "Stopped" /\ spc = "Idle" /\ tpc # "Off" /\ dpc = "Alive"
    /\ rpc' = "Cycle"
    /\ UNCHANGED <<tpc, clock, locals, signals, synchSem, spc, dpc, history>>

StopCycling ==
    /\ rpc = "Cycle" /\ rpc' = "Stopped"
    /\ UNCHANGED <<tpc, clock, locals, signals, synchSem, spc, dpc, history>>

\* (faulty) Wait without Reset.
SemWaitOnly ==
    /\ rpc = "Cycle" /\ dpc = "Alive" /\ rpc' = "Wait"
    /\ UNCHANGED <<tpc, clock, locals, signals, synchSem, spc, dpc, history>>

\* synchSem.ResetWait(TTInfiniteWait): reset, then wait.
SemReset ==
    /\ rpc = "Cycle" /\ dpc = "Alive" /\ rpc' = "Wait"
    /\ synchSem' = FALSE
    /\ UNCHANGED <<tpc, clock, locals, signals, spc, dpc, history>>

SemWoken ==
    /\ rpc = "Wait" /\ synchSem /\ rpc' = "Cycle"
    /\ posted' = FALSE
    /\ UNCHANGED <<tpc, clock, locals, signals, synchSem, spc, dpc, age, behind, resets>>
-----------------------------------------------------------------------------
(* The destructor: Post, Stop, Stop again if that timed out, delete *)

\* (faulty) Nothing is posted before the thread is stopped.
DestroyWithoutPost ==
    /\ dpc = "Alive" /\ spc = "Idle" /\ rpc # "Cycle"
    /\ dpc' = "Stop"
    /\ UNCHANGED <<tpc, clock, locals, signals, synchSem, rpc, spc, history>>

DestroyPost ==
    /\ dpc = "Alive" /\ spc = "Idle" /\ rpc # "Cycle"
    /\ dpc' = "Stop"
    /\ synchSem' = TRUE
    /\ posted' = TRUE
    /\ UNCHANGED <<tpc, clock, locals, signals, rpc, spc, age, behind, resets>>

\* executor.Stop() asks the thread to end after Execute, and waits for it.
DestroyStop ==
    /\ dpc = "Stop" /\ dpc' = "Stopping"
    /\ UNCHANGED <<tpc, clock, locals, signals, synchSem, rpc, spc, history>>

\* The thread has ended, or the wait timed out and a second Stop kills it.
DestroyDelete ==
    /\ dpc = "Stopping" /\ dpc' = "Deleted"
    /\ tpc' = "Off"
    /\ UNCHANGED <<clock, locals, signals, synchSem, rpc, spc, history>>
-----------------------------------------------------------------------------
Next ==
    \/ Tick \/ Execute
    \/ PrepareNextState \/ ZeroCounter \/ ZeroTimer
    \/ StartCycling \/ StopCycling \/ SemReset \/ SemWoken
    \/ DestroyPost \/ DestroyStop \/ DestroyDelete

\* The operating system schedules both threads and the clock advances; a reset
\* or a destruction that has begun runs to its end.
Fairness ==
    /\ WF_vars(Tick) /\ WF_vars(Execute) /\ WF_vars(SemWoken)
    /\ WF_vars(ZeroCounter) /\ WF_vars(ZeroTimer)
    /\ WF_vars(DestroyStop) /\ WF_vars(DestroyDelete)

Spec == Init /\ [][Next]_vars /\ Fairness
-----------------------------------------------------------------------------
TypeOK ==
    /\ tpc \in {"Off", "Begin", "Rephase", "Sleep", "Post", "LoadCounter",
                "StoreCounter", "StoreTimer", "StoreAdc"}
    /\ rpc \in {"Stopped", "Cycle", "Wait"}
    /\ spc \in {"Idle", "ZeroCounter", "ZeroTimer"}
    /\ dpc \in {"Alive", "Stop", "Stopping", "Deleted"}
    /\ elapsed \in 0 .. MaxElapsed /\ startTicks \in 0 .. MaxElapsed
    /\ nCycles \in 0 .. MaxElapsed /\ deltaTicks \in Int
    /\ sample \in 1 .. Samples + 1
    /\ counter \in 0 .. Mod - 1 /\ timer \in 0 .. Mod - 1
    /\ tmp \in 0 .. Mod - 1 /\ sinceReset \in 0 .. Mod - 1
    /\ age \in [Words -> Nat] /\ behind \in Int
    /\ firstRun \in BOOLEAN /\ synchSem \in BOOLEAN /\ posted \in BOOLEAN
    /\ lostReset \in BOOLEAN /\ raced \in BOOLEAN

\* "Sleep until the next period. Cannot be < 0": the unsigned difference does not
\* wrap, however many periods the thread lost, and never exceeds one period.
SleepShorterThanPeriod ==
    tpc = "Sleep" => deltaTicks \in 0 .. Period - 1

\* However late Execute begins, every period since the last wake-up is added to the
\* counter once, the lost ones included, and the rest of the time is kept for the next
\* cycle: between two updates the counter lacks what passed since lastTimeTicks and
\* nothing else.  The time by which a wake-up itself is late is lost with l.408.
CyclesCountedOnce ==
    tpc \in {"Begin", "Rephase", "StoreTimer", "StoreAdc"} => behind = elapsed

\* A real-time thread that reads the signals at any time after a wake-up finds no
\* word older than the cycle before the post: Execute finishes updating before it
\* posts again, although it posts before it updates.
WordsAtMostOneCycleOld == \A w \in Words : age[w] <= 1

\* Two wake-ups of the real-time thread are separated by a post: a semaphore left
\* set by a cycle that was already consumed wakes nobody.
NoCycleConsumedTwice == [][(rpc = "Wait" /\ rpc' = "Cycle") => posted]_vars

\* The counter is the number of cycles since PrepareNextState zeroed it, unless
\* that reset fell between the load and the store of the service thread.
ResetUnlessLost == ~lostReset => counter = sinceReset

\* Outside an update that no reset overlapped, the timer is the counter times the
\* period, modulo 2^32 for both.
TimerFollowsCounter ==
    (tpc \in {"Begin", "Rephase", "Sleep", "Post"} /\ spc = "Idle" /\ ~raced)
        => timer = (counter * TimerPeriod) % Mod

\* A real-time thread blocked in Synchronise, with no timeout, is always released,
\* by the service thread or by the destructor.
WaiterReleased == rpc = "Wait" ~> rpc # "Wait"

\* "Resets the counter and the timer to zero" (ADCSimulator.h): once reset, the
\* counter counts the cycles since the reset.
ResetsCounter == counter = sinceReset
=============================================================================
