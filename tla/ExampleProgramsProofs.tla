----------------------- MODULE ExampleProgramsProofs -----------------------
(***************************************************************************)
(* Proofs about the two example programs: DAC0Example, for any number of   *)
(* values and of interrupts, and SingleThreadServiceExample1, for any      *)
(* number of calls of the callback and any width of the shared integer.    *)
(***************************************************************************)
EXTENDS DAC0Example, SingleThreadServiceExample1, TLAPS
-----------------------------------------------------------------------------
(* DAC0Example *)

\* The steps of main before malloc, and those at which it has the buffer.
BeforeMalloc == {"Open", "TestOpen", "TestRun", "Run", "Malloc"}
WithBuffer == {"Memset", "TestStatus", "Write", "LastWrite", "Abort", "Close", "Free"}

HistoryInv ==
    /\ sinceOpen <= interrupts /\ sinceMalloc <= interrupts
    /\ pc \in BeforeMalloc \cup {"Memset", "TestStatus", "Write"} => cnt <= Repetitions

\* Only a SIGINT closes the session before main does, and frees the buffer with it.
SessionInv ==
    /\ pc = "Open" => session = "None"
    /\ pc = "TestOpen" /\ session = "Open" => status = "Success"
    /\ pFIFOBuf = "Freed" => session # "Open"
    /\ pc \in {"Free", "Return"} => session # "Open"
    /\ session = "Closed" /\ pc \in BeforeMalloc \cup (WithBuffer \ {"Free"}) => sinceOpen > 0
    /\ NoSessionLeft

MemoryInv ==
    /\ pc \in BeforeMalloc => pFIFOBuf = "NULL" /\ ~noMemory /\ sinceMalloc = 0
    /\ pc \in WithBuffer /\ noMemory => pc = "Memset" /\ pFIFOBuf = "NULL"
    /\ pc \in WithBuffer /\ ~noMemory =>
          pFIFOBuf = IF sinceMalloc = 0 THEN "Allocated" ELSE "Freed"
    /\ pc = "Return" => pFIFOBuf = "Freed" /\ ~noMemory /\ sinceMalloc = 0
    /\ CrashesIfInterrupted

OutputInv ==
    /\ pc \in BeforeMalloc \cup {"Memset", "TestStatus"} => lastValue = "Zero"
    /\ lastValue = "Sine" => session # "None"
    /\ pc \in {"Abort", "Close", "Free", "Return"} /\ lastValue = "Sine" => unwritten
    /\ OutputLeftAtZero

IInv == TypeOK /\ HistoryInv /\ SessionInv /\ MemoryInv /\ OutputInv

LEMMA InitIInv == Init => IInv
<1> SUFFICES ASSUME Init PROVE IInv
  OBVIOUS
<1> USE ConstantsAssumption DEF ConstantsAssumption, Init
<1>1. TypeOK
  <2>1. 0 \in 0 .. Repetitions + 1 /\ 0 \in 0 .. MaxInterrupts
    OBVIOUS
  <2> QED BY ONLY <2>1, Init DEF Init, TypeOK
<1>2. HistoryInv /\ SessionInv
  BY DEF HistoryInv, SessionInv, NoSessionLeft, Ended, BeforeMalloc, WithBuffer
<1>3. MemoryInv /\ OutputInv
  BY DEF MemoryInv, CrashesIfInterrupted, OutputInv, OutputLeftAtZero, Ended,
         BeforeMalloc, WithBuffer
<1> QED BY <1>1, <1>2, <1>3 DEF IInv

LEMMA StepIInv == ASSUME IInv, [Next]_vars PROVE IInv'
<1> USE ConstantsAssumption
    DEF ConstantsAssumption, IInv, TypeOK, HistoryInv, SessionInv, MemoryInv, OutputInv,
        NoSessionLeft, CrashesIfInterrupted, OutputLeftAtZero, Ended, BeforeMalloc,
        WithBuffer, memory, outputs, history, Results, MergeStatus, IsNotError
<1>1. CASE Open
  BY <1>1 DEF Open
<1>2. CASE TestOpen \/ TestRun \/ Run
  BY <1>2 DEF TestOpen, TestRun, Run
<1>3. CASE Malloc
  <2>1. /\ pc = "Malloc" /\ pc' = "Memset"
        /\ UNCHANGED <<status, session, cnt, sinceMalloc, lastValue, unwritten, interrupts,
                       sinceOpen>>
    BY <1>3 DEF Malloc
  <2>2. CASE pFIFOBuf' = "Allocated" /\ noMemory' = noMemory
    BY <2>1, <2>2
  <2>3. CASE noMemory' = TRUE /\ pFIFOBuf' = pFIFOBuf
    BY <2>1, <2>3
  <2> QED BY <1>3, <2>2, <2>3 DEF Malloc
<1>4. CASE Memset \/ TestStatus
  BY <1>4 DEF Memset, TestStatus
<1>5. CASE Write
  <2>1. cnt' \in 0 .. Repetitions
    BY <1>5 DEF Write, MoreValues
  <2>2. PICK result \in Results(session) :
            /\ status' = result
            /\ lastValue' = IF IsNotError(result) THEN "Sine" ELSE lastValue
    BY <1>5 DEF Write
  <2>3. pc = "Write" /\ UNCHANGED <<pc, session, pFIFOBuf, sinceMalloc, noMemory, unwritten,
                                  interrupts, sinceOpen>>
    BY <1>5 DEF Write
  <2>4. lastValue' = "Sine" => session # "None"
    BY <2>2
  <2>5. TypeOK' /\ HistoryInv'
    BY <2>1, <2>2, <2>3
  <2>6. SessionInv' /\ MemoryInv'
    BY <2>3
  <2>7. OutputInv'
    BY <2>3, <2>4
  <2> QED BY <2>5, <2>6, <2>7
<1>6. CASE WritesDone
  <2>1. cnt \in 0 .. Repetitions /\ cnt' = cnt + 1
    BY <1>6 DEF WritesDone
  <2>2. cnt' \in 0 .. Repetitions + 1
    BY <2>1
  <2>3. pc' = "LastWrite" /\ UNCHANGED <<status, session, pFIFOBuf, sinceMalloc, noMemory,
                                        lastValue, unwritten, interrupts, sinceOpen>>
    BY <1>6 DEF WritesDone
  <2> QED BY <1>6, <2>2, <2>3 DEF WritesDone
<1>7. CASE LastWrite
  <2>1. /\ pc = "LastWrite" /\ pc' = "Abort"
        /\ UNCHANGED <<session, cnt, pFIFOBuf, sinceMalloc, noMemory, interrupts, sinceOpen>>
    BY <1>7 DEF LastWrite
  <2>2. CASE status' = "Success" /\ lastValue' = "Zero" /\ unwritten' = FALSE
    BY <2>1, <2>2
  <2>3. CASE status' = "Error" /\ lastValue' = lastValue /\ unwritten' = TRUE
    BY <2>1, <2>3
  <2> QED BY <1>7, <2>2, <2>3 DEF LastWrite, FinalValue
<1>8. CASE Close
  <2>1. PICK result \in Results(session) : status' = MergeStatus(status, result)
    BY <1>8 DEF Close
  <2>2. /\ pc = "Close" /\ pc' = "Free"
        /\ session' = IF session = "Open" THEN "Closed" ELSE session
        /\ UNCHANGED <<cnt, pFIFOBuf, sinceMalloc, noMemory, lastValue, unwritten,
                       interrupts, sinceOpen>>
    BY <1>8 DEF Close, Closed
  <2>3. TypeOK' /\ HistoryInv'
    BY <2>1, <2>2
  <2>4. SessionInv' /\ MemoryInv' /\ OutputInv'
    BY <2>2
  <2> QED BY <2>3, <2>4
<1>9. CASE Free \/ Return
  BY <1>9 DEF Free, Freed, CrashesOnFree, Return
<1>10. CASE InterrHandler
  BY <1>10 DEF InterrHandler, Closed, HandlerFrees, Freed, CrashesOnFree
<1>11. CASE Abort
  BY <1>11 DEF Abort
<1>12. CASE UNCHANGED vars
  BY <1>12 DEF vars
<1> QED
  BY <1>1, <1>2, <1>3, <1>4, <1>5, <1>6, <1>7, <1>8, <1>9, <1>10, <1>11, <1>12
  DEF Next, Main

LEMMA Inductive == Spec => []IInv
BY InitIInv, StepIInv, PTL DEF Spec

\* Every variable of the program keeps its type, for any number of values written and
\* of interrupts (Example.c:36-97).
THEOREM TypeCorrect == Spec => []TypeOK
<1>1. IInv => TypeOK
  BY DEF IInv
<1> QED BY Inductive, <1>1, PTL

\* However the program ends, and wherever interrupts come, no session is left open to
\* the FPGA, unless malloc failed (Example.c:24-34, 86-88).
THEOREM SessionCorrect == Spec => []NoSessionLeft
<1>1. IInv => NoSessionLeft
  BY DEF IInv, SessionInv
<1> QED BY Inductive, <1>1, PTL

\* The program crashes if and only if an interrupt found the buffer allocated, or there
\* was none to allocate (Example.c:31-32, 59-61, 90-92).
THEOREM CrashCorrect == Spec => []CrashesIfInterrupted
<1>1. IInv => CrashesIfInterrupted
  BY DEF IInv, MemoryInv
<1> QED BY Inductive, <1>1, PTL

\* The output is left at 0 unless an interrupt closed the session, or the last write
\* failed (Example.c:67-83).
THEOREM OutputCorrect == Spec => []OutputLeftAtZero
<1>1. IInv => OutputLeftAtZero
  BY DEF IInv, OutputInv
<1> QED BY Inductive, <1>1, PTL
-----------------------------------------------------------------------------
(* SingleThreadServiceExample1 *)

Other(t) == IF t = MainThread THEN Callback ELSE MainThread

\* A thread has loaded the resource and not yet stored it.
Loaded(t) == step[t] \in {"Increment", "Decrement"}

\* As Near, with any number of wraps.
CloseTo(v, h, n) == \E x \in -n .. n, k \in Int : v = h + x + k * Word

StartInv == step[MainThread] = "Start" => step[Callback] = "None" /\ service = "Off"

\* What a thread has loaded is the resource until the other one stores, and it is then
\* what the resource was when the other one may have held it or not.
LoadedInv ==
    \A t \in Threads : Loaded(t) =>
        /\ ~stale[t] => tmp[t] = sharedResource
        /\ \E g \in {0, 1} : CloseTo(tmp[t], Holds(t) + g, overlaps)

DriftInv == CloseTo(sharedResource, Holds(MainThread) + Holds(Callback), overlaps)

ServiceInv == ServiceTypeOK /\ StartInv /\ LoadedInv /\ DriftInv

\* What is off by n at the most is off by m at the most.
LEMMA CloserTo ==
    ASSUME NEW v \in Int, NEW h \in Int, NEW n \in Nat, NEW m \in Nat, n <= m, CloseTo(v, h, n)
    PROVE  CloseTo(v, h, m)
<1>1. PICK x \in -n .. n, k \in Int : v = h + x + k * Word
  BY DEF CloseTo
<1>2. x \in -m .. m
  OBVIOUS
<1> QED BY <1>1, <1>2 DEF CloseTo

\* What was loaded while the other thread may have held the resource is off by one more
\* when this one may not.
LEMMA CloseToOther ==
    ASSUME NEW v \in Int, NEW h \in Int, NEW n \in Nat, NEW g \in {0, 1}, NEW f \in {0, 1},
           CloseTo(v, h + g, n)
    PROVE  CloseTo(v, h + f, n + 1)
<1>1. PICK x \in -n .. n, k \in Int : v = h + g + x + k * Word
  BY DEF CloseTo
<1>2. x + g - f \in -(n + 1) .. n + 1 /\ v = h + f + (x + g - f) + k * Word
  BY <1>1
<1> QED BY <1>2 DEF CloseTo

\* An increment takes the value one up, or one up and a word down.
LEMMA CloseToStored ==
    ASSUME NEW v \in 0 .. Word - 1, NEW h \in Int, NEW n \in Nat, CloseTo(v, h, n)
    PROVE  CloseTo(Incremented(v), h + 1, n) /\ CloseTo(Decremented(v), h - 1, n)
<1>1. PICK x \in -n .. n, k \in Int : v = h + x + k * Word
  BY DEF CloseTo
<1>2. Word \in Int /\ (k - 1) * Word = k * Word - Word /\ (k + 1) * Word = k * Word + Word
  BY ServiceAssumption DEF ServiceAssumption
<1>3. \E j \in Int : Incremented(v) = h + 1 + x + j * Word
  <2>1. CASE v = Word - 1
    <3>1. Incremented(v) = h + 1 + x + (k - 1) * Word
      BY <1>1, <1>2, <2>1 DEF Incremented
    <3> QED BY <3>1
  <2>2. CASE v # Word - 1
    <3>1. Incremented(v) = h + 1 + x + k * Word
      BY <1>1, <1>2, <2>2 DEF Incremented
    <3> QED BY <3>1
  <2> QED BY <2>1, <2>2
<1>4. \E j \in Int : Decremented(v) = h - 1 + x + j * Word
  <2>1. CASE v = 0
    <3>1. Decremented(v) = h - 1 + x + (k + 1) * Word
      BY <1>1, <1>2, <2>1 DEF Decremented
    <3> QED BY <3>1
  <2>2. CASE v # 0
    <3>1. Decremented(v) = h - 1 + x + k * Word
      BY <1>1, <1>2, <2>2 DEF Decremented
    <3> QED BY <3>1
  <2> QED BY <2>1, <2>2
<1> QED BY <1>3, <1>4 DEF CloseTo

\* There are never more wraps than Near counts.
LEMMA CloseToNear ==
    ASSUME NEW v \in 0 .. Word - 1, NEW h \in 0 .. 2, NEW n \in Nat, CloseTo(v, h, n)
    PROVE  Near(v, h, n)
<1>1. PICK x \in -n .. n, k \in Int : v = h + x + k * Word
  BY DEF CloseTo
<1>2. Word \in Nat /\ Word >= 2
  BY ServiceAssumption DEF ServiceAssumption
<1>3. \A a, b \in Nat : a * b >= 0
  OBVIOUS
<1>4. k <= n + 1
  <2> SUFFICES ASSUME k >= n + 2 PROVE FALSE
    BY <1>1
  <2>1. (k - 1) * (Word - 2) >= 0
    BY <1>2, <1>3
  <2>2. (k - 1) * (Word - 2) = k * Word - Word - 2 * k + 2
    BY <1>2
  <2>3. k * Word \in Int
    BY <1>2
  <2> QED BY <1>1, <1>2, <2>1, <2>2, <2>3
<1>5. k >= -(n + 1)
  <2> SUFFICES ASSUME k <= -(n + 2) PROVE FALSE
    BY <1>1
  <2>1. (-k) * (Word - 2) >= 0
    BY <1>2, <1>3
  <2>2. (-k) * (Word - 2) = 2 * k - k * Word
    BY <1>2
  <2>3. k * Word \in Int
    BY <1>2
  <2> QED BY <1>1, <1>2, <2>1, <2>2, <2>3
<1>6. k \in -(n + 1) .. n + 1
  BY <1>4, <1>5
<1> QED BY <1>1, <1>6 DEF Near

LEMMA ServiceInitInv == ServiceInit => ServiceInv
<1> SUFFICES ASSUME ServiceInit PROVE ServiceInv
  OBVIOUS
<1> USE ServiceAssumption DEF ServiceAssumption, Threads, MainThread, Callback
<1>1. step \in [Threads -> Labels] /\ step["main"] = "Start" /\ step["callback"] = "None"
  BY DEF ServiceInit, Labels
<1>2. ServiceTypeOK
  BY <1>1 DEF ServiceInit, ServiceTypeOK
<1>3. StartInv
  BY <1>1 DEF ServiceInit, StartInv
<1>4. LoadedInv
  BY <1>1 DEF LoadedInv, Loaded
<1>5. DriftInv
  <2>1. sharedResource = 0 /\ Holds(MainThread) + Holds(Callback) = 0 /\ overlaps = 0
    BY <1>1 DEF ServiceInit, Holds
  <2>2. 0 = 0 + 0 + 0 * Word
    OBVIOUS
  <2> QED BY <2>1, <2>2 DEF DriftInv, CloseTo
<1> QED BY <1>2, <1>3, <1>4, <1>5 DEF ServiceInv

LEMMA TwoThreads ==
    ASSUME NEW t \in Threads
    PROVE  /\ Other(t) \in Threads /\ Other(t) # t /\ Threads = {t, Other(t)}
           /\ Holds(t) \in {0, 1} /\ Holds(Other(t)) \in {0, 1}
           /\ Holds(MainThread) + Holds(Callback) = Holds(t) + Holds(Other(t))
           /\ (Holds(MainThread) + Holds(Callback))' = Holds(t)' + Holds(Other(t))'
BY DEF Threads, Other, MainThread, Callback, Holds

\* A step that neither loads nor stores.
LEMMA ServiceStutter ==
    ASSUME ServiceInv, UNCHANGED resource, ServiceTypeOK', StartInv',
           \A t \in Threads : Holds(t)' = Holds(t) /\ (Loaded(t)' => Loaded(t))
    PROVE  ServiceInv'
<1>1. UNCHANGED <<sharedResource, tmp, stale, overlaps>>
  BY DEF resource
<1>2. LoadedInv'
  BY <1>1 DEF ServiceInv, LoadedInv, CloseTo
<1>3. DriftInv'
  BY <1>1 DEF ServiceInv, DriftInv, CloseTo, Threads
<1> QED BY <1>2, <1>3 DEF ServiceInv

LEMMA LoadStep ==
    ASSUME ServiceInv, NEW t \in Threads,
           \/ LoadToIncrement(t) \/ LoadToDecrement(t)
    PROVE  ServiceInv'
<1>1. PICK to \in {"Increment", "Decrement"} :
         /\ step' = [step EXCEPT ![t] = to]
         /\ tmp' = [tmp EXCEPT ![t] = sharedResource]
         /\ stale' = [stale EXCEPT ![t] = FALSE]
         /\ UNCHANGED <<service, counter, sharedResource, overlaps>>
         /\ to = "Increment" => step[t] = "LoadToIncrement"
         /\ to = "Decrement" => step[t] = "LoadToDecrement"
  BY DEF LoadToIncrement, LoadToDecrement, Load, Goto
<1>2. step \in [Threads -> Labels] /\ tmp \in [Threads -> 0 .. Word - 1]
      /\ stale \in [Threads -> BOOLEAN]
  BY DEF ServiceInv, ServiceTypeOK
<1>3. ServiceTypeOK'
  BY <1>1, <1>2 DEF ServiceInv, ServiceTypeOK, Labels
<1>4. step'[t] = to /\ tmp'[t] = sharedResource /\ stale'[t] = FALSE
  BY <1>1, <1>2
<1>5. ASSUME NEW u \in Threads \ {t}
      PROVE  step'[u] = step[u] /\ tmp'[u] = tmp[u] /\ stale'[u] = stale[u]
  BY <1>1, <1>2
<1>6. StartInv'
  <2>1. MainThread \in Threads /\ Callback \in Threads /\ step[t] \notin {"Start", "None"}
    BY <1>1 DEF Threads
  <2>2. step'[MainThread] = "Start" => step[MainThread] = "Start" /\ Callback # t
    BY <1>1, <1>4, <1>5, <2>1 DEF ServiceInv, StartInv
  <2> QED BY <1>1, <1>5, <2>1, <2>2 DEF ServiceInv, StartInv
<1>7. \A u \in Threads : Holds(u)' = Holds(u)
  BY <1>1, <1>4, <1>5 DEF Holds
<1>8. DriftInv'
  BY <1>1, <1>7 DEF ServiceInv, DriftInv, CloseTo, Threads
<1>9. ASSUME NEW u \in Threads, Loaded(u)'
      PROVE  /\ ~stale'[u] => tmp'[u] = sharedResource'
             /\ \E g \in {0, 1} : CloseTo(tmp'[u], Holds(u) + g, overlaps)
  <2>1. CASE u = t
    <3>1. CloseTo(sharedResource, Holds(t) + Holds(Other(t)), overlaps)
      BY TwoThreads DEF ServiceInv, DriftInv
    <3> QED BY <1>1, <1>4, <2>1, <3>1, TwoThreads
  <2>2. CASE u # t
    BY <1>1, <1>5, <1>9, <2>2 DEF ServiceInv, LoadedInv, Loaded
  <2> QED BY <2>1, <2>2
<1>10. LoadedInv'
  BY <1>1, <1>7, <1>9 DEF LoadedInv, CloseTo
<1> QED BY <1>3, <1>6, <1>8, <1>10 DEF ServiceInv

\* A store is exact if the other thread did not store since the load, and one more off
\* if it did.
LEMMA StoreStep ==
    ASSUME ServiceInv, NEW t \in Threads, Increment(t) \/ Decrement(t)
    PROVE  ServiceInv'
<1> DEFINE d == IF step[t] = "Increment" THEN 1 ELSE -1
<1>1. /\ step[t] \in {"Increment", "Decrement"}
      /\ step' = [step EXCEPT ![t] = IF step[t] = "Increment" THEN "Sleep" ELSE "Done"]
      /\ sharedResource' = IF step[t] = "Increment" THEN Incremented(tmp[t])
                           ELSE Decremented(tmp[t])
      /\ stale' = [u \in Threads |-> u # t]
      /\ overlaps' = IF stale[t] THEN overlaps + 1 ELSE overlaps
      /\ UNCHANGED <<service, counter, tmp>>
  BY DEF Increment, Decrement, Store, Goto
<1>2. /\ step \in [Threads -> Labels] /\ tmp[t] \in 0 .. Word - 1 /\ overlaps \in Nat
      /\ Word \in Nat /\ Word >= 2 /\ stale[t] \in BOOLEAN /\ sharedResource \in 0 .. Word - 1
  BY ServiceAssumption DEF ServiceAssumption, ServiceInv, ServiceTypeOK
<1>3. sharedResource' \in 0 .. Word - 1
  BY <1>1, <1>2 DEF Incremented, Decremented
<1>4. /\ step' \in [Threads -> Labels] /\ step'[Other(t)] = step[Other(t)]
      /\ step'[t] = (IF step[t] = "Increment" THEN "Sleep" ELSE "Done")
  BY <1>1, <1>2, TwoThreads DEF Labels
<1>5. ServiceTypeOK'
  <2>1. overlaps' \in Nat /\ stale' \in [Threads -> BOOLEAN]
    BY <1>1, <1>2
  <2> QED BY <1>1, <1>3, <1>4, <2>1 DEF ServiceInv, ServiceTypeOK
<1>6. StartInv'
  <2>1. MainThread \in Threads /\ Callback \in Threads /\ MainThread # Callback
    BY DEF Threads, MainThread, Callback
  <2>2. CASE t = MainThread
    BY <1>4, <2>2 DEF StartInv
  <2>3. CASE t = Callback
    BY <1>1, <1>4, <2>1, <2>3 DEF ServiceInv, StartInv, Other
  <2> QED BY <2>2, <2>3 DEF Threads
<1>7. Holds(t)' = Holds(t) + d /\ Holds(Other(t))' = Holds(Other(t)) /\ Holds(t) + d \in {0, 1}
  BY <1>1, <1>4 DEF Holds
<1>8. CloseTo(tmp[t], Holds(t) + Holds(Other(t)), overlaps')
  <2>1. CASE stale[t]
    <3>1. PICK g \in {0, 1} : CloseTo(tmp[t], Holds(t) + g, overlaps)
      BY <1>1 DEF ServiceInv, LoadedInv, Loaded
    <3>2. overlaps' = overlaps + 1 /\ Holds(t) \in Int /\ tmp[t] \in Int
      BY <1>1, <1>2, <2>1, TwoThreads
    <3> QED BY <1>2, <3>1, <3>2, CloseToOther, TwoThreads
  <2>2. CASE ~stale[t]
    <3>1. tmp[t] = sharedResource /\ overlaps' = overlaps
      BY <1>1, <2>2 DEF ServiceInv, LoadedInv, Loaded
    <3> QED BY <3>1, TwoThreads DEF ServiceInv, DriftInv
  <2> QED BY <2>1, <2>2
<1>9. CloseTo(sharedResource', Holds(t) + Holds(Other(t)) + d, overlaps')
  <2>1. PICK h \in Int, n \in Nat : h = Holds(t) + Holds(Other(t)) /\ n = overlaps'
    BY <1>1, <1>2, TwoThreads
  <2>2. CloseTo(tmp[t], h, n)
    BY <1>8, <2>1
  <2>3. CloseTo(Incremented(tmp[t]), h + 1, n) /\ CloseTo(Decremented(tmp[t]), h - 1, n)
    BY <1>2, <2>2, CloseToStored
  <2>4. CASE step[t] = "Increment"
    BY <1>1, <2>1, <2>3, <2>4
  <2>5. CASE step[t] = "Decrement"
    <3>1. d = -1 /\ h + d = h - 1
      BY <2>1, <2>5
    <3>2. sharedResource' = Decremented(tmp[t])
      BY <1>1, <2>5
    <3> QED BY <2>1, <2>3, <3>1, <3>2
  <2> QED BY <1>1, <2>4, <2>5
<1>10. DriftInv'
  <2>1. (Holds(MainThread) + Holds(Callback))' = Holds(t) + Holds(Other(t)) + d
    BY <1>7, TwoThreads
  <2> QED BY <1>9, <2>1 DEF DriftInv, CloseTo
<1>11. LoadedInv'
  <2> SUFFICES ASSUME NEW u \in Threads, Loaded(u)'
               PROVE  /\ ~stale'[u] => tmp'[u] = sharedResource'
                      /\ \E g \in {0, 1} : CloseTo(tmp'[u], Holds(u)' + g, overlaps')
    BY DEF LoadedInv, CloseTo
  <2>1. u = Other(t) /\ u # t
    BY <1>4, TwoThreads DEF Loaded
  <2>2. stale'[u] = TRUE /\ Loaded(u)
    BY <1>1, <1>4, <2>1 DEF Loaded
  <2>3. PICK g \in {0, 1} : CloseTo(tmp[u], Holds(u) + g, overlaps)
    BY <2>2 DEF ServiceInv, LoadedInv
  <2>4. tmp[u] \in Int /\ Holds(u) + g \in Int /\ overlaps' \in Nat /\ overlaps <= overlaps'
    BY <1>1, <1>2, <2>1, TwoThreads, ServiceAssumption
    DEF ServiceAssumption, ServiceInv, ServiceTypeOK
  <2>5. CloseTo(tmp[u], Holds(u) + g, overlaps')
    BY <1>2, <2>3, <2>4, CloserTo
  <2> QED BY <1>1, <1>7, <2>1, <2>2, <2>5
<1> QED BY <1>5, <1>6, <1>10, <1>11 DEF ServiceInv

LEMMA ServiceStep == ASSUME ServiceInv, [ServiceNext]_serviceVars PROVE ServiceInv'
<1> USE DEF Threads, MainThread, Callback
<1>1. /\ step \in [Threads -> Labels] /\ counter \in 0 .. MaxCalls /\ MaxCalls \in Nat
      /\ service \in {"Off", "Running", "Stopping", "Stopped", "Killed"}
  BY ServiceAssumption DEF ServiceAssumption, ServiceInv, ServiceTypeOK
<1>2. ASSUME NEW t \in Threads, LoadToIncrement(t) \/ LoadToDecrement(t) PROVE ServiceInv'
  BY <1>2, LoadStep
<1>3. ASSUME NEW t \in Threads, Increment(t) \/ Decrement(t) PROVE ServiceInv'
  BY <1>3, StoreStep
<1>4. ASSUME UNCHANGED <<service, counter, resource>>,
             NEW t \in Threads, NEW to \in Labels, step' = [step EXCEPT ![t] = to],
             to \notin {"Start", "Increment", "Decrement"}, step[t] # "None",
             step[t] \in {"Sleep", "LoadToDecrement", "Decrement"}
                <=> to \in {"Sleep", "LoadToDecrement", "Decrement"}
      PROVE  ServiceInv'
  <2>1. ServiceTypeOK'
    BY <1>1, <1>4 DEF ServiceInv, ServiceTypeOK, resource
  <2>2. StartInv'
    BY <1>1, <1>4 DEF ServiceInv, StartInv
  <2>3. \A u \in Threads : Holds(u)' = Holds(u) /\ (Loaded(u)' => Loaded(u))
    BY <1>1, <1>4 DEF Holds, Loaded
  <2> QED BY <1>4, <2>1, <2>2, <2>3, ServiceStutter
<1>5. ASSUME NEW t \in Threads, Sleep(t) PROVE ServiceInv'
  <2>1. "LoadToDecrement" \in Labels
    BY DEF Labels
  <2> QED BY <1>4, <1>5, <2>1 DEF Sleep, Goto
<1>6. CASE CallbackBegins
  <2>1. /\ step' = [step EXCEPT !["callback"] = "LoadToIncrement"] /\ counter' = counter + 1
        /\ step["callback"] = "Done" /\ counter < MaxCalls /\ UNCHANGED <<service, resource>>
    BY <1>6 DEF CallbackBegins, Goto, CounterAfter
  <2>2. ServiceTypeOK'
    BY <1>1, <2>1 DEF ServiceInv, ServiceTypeOK, resource, Labels
  <2>3. StartInv' /\ \A u \in Threads : Holds(u)' = Holds(u) /\ (Loaded(u)' => Loaded(u))
    BY <1>1, <2>1 DEF ServiceInv, StartInv, Holds, Loaded
  <2> QED BY <2>1, <2>2, <2>3, ServiceStutter
<1>7. CASE CallbackEnds
  <2>1. service' = "Stopped" /\ service = "Stopping" /\ UNCHANGED <<step, counter, resource>>
    BY <1>7 DEF CallbackEnds
  <2>2. ServiceTypeOK' /\ StartInv'
    BY <2>1 DEF ServiceInv, ServiceTypeOK, StartInv, resource
  <2> QED BY <2>1, <2>2, ServiceStutter DEF Holds, Loaded
<1>8. CASE Start
  <2>1. /\ step["main"] = "Start" /\ step["callback"] = "None"
        /\ service' \in {service, "Running"} /\ UNCHANGED <<counter, resource>>
        /\ step'["main"] = "Test" /\ step'["callback"] \in {"None", "Done"}
        /\ step' \in [Threads -> Labels]
    BY <1>1, <1>8 DEF Start, Goto, ServiceInv, StartInv, Labels
  <2>2. ServiceTypeOK' /\ StartInv'
    BY <1>1, <2>1 DEF ServiceInv, ServiceTypeOK, StartInv, resource
  <2>3. \A u \in Threads : Holds(u)' = Holds(u) /\ (Loaded(u)' => Loaded(u))
    BY <2>1 DEF Holds, Loaded
  <2> QED BY <2>1, <2>2, <2>3, ServiceStutter
<1>9. CASE Test
  <2>1. PICK to \in {"LoadToIncrement", "Stop"} : step' = [step EXCEPT !["main"] = to]
    BY <1>9 DEF Test, Goto
  <2>2. to \in Labels
    BY DEF Labels
  <2> QED BY <1>4, <1>9, <2>1, <2>2 DEF Test
<1>10. CASE SleepASecond \/ Purge
  <2>1. "Test" \in Labels /\ "Ended" \in Labels
    BY DEF Labels
  <2> QED BY <1>4, <1>10, <2>1 DEF SleepASecond, Purge, Goto
<1>11. CASE Stop \/ StopAgain
  <2>1. /\ step["main"] \in {"Stop", "StopAgain"}
        /\ step' \in [Threads -> Labels] /\ step'["main"] \in {"StopAgain", "Purge"}
        /\ step'["callback"] = step["callback"]
        /\ service' \in {service, "Stopping", "Killed"} /\ UNCHANGED <<counter, resource>>
    BY <1>1, <1>11 DEF Stop, StopAgain, AfterStopAgain, Goto, Labels
  <2>2. ServiceTypeOK' /\ StartInv'
    BY <1>1, <2>1 DEF ServiceInv, ServiceTypeOK, StartInv, resource
  <2>3. \A u \in Threads : Holds(u)' = Holds(u) /\ (Loaded(u)' => Loaded(u))
    BY <2>1 DEF Holds, Loaded
  <2> QED BY <2>1, <2>2, <2>3, ServiceStutter
<1>12. CASE UNCHANGED serviceVars
  <2>1. UNCHANGED <<step, service, counter, resource>>
    BY <1>12 DEF serviceVars
  <2>2. ServiceTypeOK' /\ StartInv'
    BY <2>1 DEF ServiceInv, ServiceTypeOK, StartInv, resource
  <2> QED BY <2>1, <2>2, ServiceStutter DEF Holds, Loaded
<1> QED
  BY <1>2, <1>3, <1>5, <1>6, <1>7, <1>8, <1>9, <1>10, <1>11, <1>12
  DEF ServiceNext, MainStep, CallbackStep, UseResource

LEMMA ServiceInductive == ServiceSpec => []ServiceInv
BY ServiceInitInv, ServiceStep, PTL DEF ServiceSpec

\* Every variable keeps its type, for any number of calls and any width of the shared
\* integer (SingleThreadServiceExample1.cpp:79-159).
THEOREM ServiceTypeCorrect == ServiceSpec => []ServiceTypeOK
<1>1. ServiceInv => ServiceTypeOK
  BY DEF ServiceInv
<1> QED BY ServiceInductive, <1>1, PTL

\* However the two threads interleave, and wherever the callback is killed, the shared
\* integer is the number of threads that hold it, but for one for each store of a value
\* that was stale (SingleThreadServiceExample1.cpp:87-89, 146-148).
THEOREM DriftCorrect == ServiceSpec => []DriftBounded
<1>1. ServiceInv => DriftBounded
  <2> SUFFICES ASSUME ServiceInv PROVE DriftBounded
    OBVIOUS
  <2>1. sharedResource \in 0 .. Word - 1 /\ overlaps \in Nat
    BY DEF ServiceInv, ServiceTypeOK
  <2>2. Holds(MainThread) + Holds(Callback) \in 0 .. 2
    BY DEF Holds
  <2> QED BY <2>1, <2>2, CloseToNear DEF ServiceInv, DriftInv, DriftBounded
<1> QED BY ServiceInductive, <1>1, PTL
-----------------------------------------------------------------------------
(* The end of main *)

\* Two calls of Stop leave no thread; a thread that was not killed has ended between
\* two calls of the callback, with the resource given back.
EndInv ==
    /\ step[MainThread] = "StopAgain" => service # "Running"
    /\ step[MainThread] \in {"Purge", "Ended"} => ~Alive(Callback)
    /\ service = "Off" => step[Callback] = "None"
    /\ service = "Stopped" => step[Callback] = "Done"

LEMMA EndStep == ASSUME ServiceInv, EndInv, [ServiceNext]_serviceVars PROVE EndInv'
<1> USE DEF EndInv, Alive, Threads, MainThread, Callback
<1>1. step \in [Threads -> Labels]
      /\ service \in {"Off", "Running", "Stopping", "Stopped", "Killed"}
  BY DEF ServiceInv, ServiceTypeOK
<1>2. CASE \E t \in Threads : UseResource(t)
  <2>1. PICK t \in Threads : UseResource(t)
    BY <1>2
  <2>2. PICK to \in {"Increment", "Sleep", "LoadToDecrement", "Decrement", "Done"} :
           step' = [step EXCEPT ![t] = to]
    BY <2>1 DEF UseResource, LoadToIncrement, Increment, Sleep, LoadToDecrement, Decrement,
                Load, Store, Goto
  <2>3. service' = service /\ (t = Callback => service \in {"Running", "Stopping"})
    BY <2>1 DEF UseResource, LoadToIncrement, Increment, Sleep, LoadToDecrement, Decrement,
                Load, Store
  <2> QED BY <1>1, <2>2, <2>3
<1>3. CASE Start
  BY <1>1, <1>3 DEF Start, Goto
<1>4. CASE Test \/ SleepASecond
  BY <1>1, <1>4 DEF Test, SleepASecond, Goto
<1>5. CASE Stop
  BY <1>1, <1>5 DEF Stop, Goto
<1>6. CASE StopAgain
  BY <1>1, <1>6 DEF StopAgain, AfterStopAgain, Goto
<1>7. CASE Purge
  BY <1>1, <1>7 DEF Purge, Goto
<1>8. CASE CallbackBegins \/ CallbackEnds
  BY <1>1, <1>8 DEF CallbackBegins, CallbackEnds, Goto
<1>9. CASE UNCHANGED serviceVars
  BY <1>9 DEF serviceVars
<1> QED
  BY <1>2, <1>3, <1>4, <1>5, <1>6, <1>7, <1>8, <1>9 DEF ServiceNext, MainStep, CallbackStep

LEMMA EndInvariant == ServiceSpec => []EndInv
<1>1. ServiceInit => EndInv
  BY DEF ServiceInit, EndInv, Threads, MainThread, Callback
<1>2. ServiceInv /\ EndInv /\ [ServiceNext]_serviceVars => EndInv'
  BY EndStep
<1> QED BY <1>1, <1>2, ServiceInductive, PTL DEF ServiceSpec

\* When main deletes the object no thread is left that uses it: the callback was never
\* started, has ended, or was killed by the second Stop
\* (SingleThreadServiceExample1.cpp:151-157).
THEOREM PurgedAlone ==
    ServiceSpec => [](step[MainThread] \in {"Purge", "Ended"} => ~Alive(Callback))
<1>1. EndInv => (step[MainThread] \in {"Purge", "Ended"} => ~Alive(Callback))
  BY DEF EndInv
<1> QED BY EndInvariant, <1>1, PTL

\* When the program has ended the resource was given back, unless an update of the two
\* threads overlapped or the callback was killed.
THEOREM GivenBack ==
    ServiceSpec => [](step[MainThread] = "Ended" /\ service # "Killed" /\ overlaps = 0
                         => sharedResource = 0)
<1>1. ServiceInv /\ EndInv =>
         (step[MainThread] = "Ended" /\ service # "Killed" /\ overlaps = 0
            => sharedResource = 0)
  <2> SUFFICES ASSUME ServiceInv, EndInv,
                      step[MainThread] = "Ended", service # "Killed", overlaps = 0
               PROVE  sharedResource = 0
    OBVIOUS
  <2>1. step[Callback] \in {"None", "Done"}
    BY DEF EndInv, Alive, ServiceInv, ServiceTypeOK
  <2>2. Holds(MainThread) + Holds(Callback) = 0
    BY <2>1 DEF Holds
  <2>3. PICK k \in Int : sharedResource = k * Word
    <3>1. CloseTo(sharedResource, 0, 0)
      BY <2>2 DEF ServiceInv, DriftInv
    <3>2. PICK x \in -0 .. 0, j \in Int : sharedResource = 0 + x + j * Word
      BY <3>1 DEF CloseTo
    <3>3. x = 0 /\ j * Word \in Int
      BY ServiceAssumption DEF ServiceAssumption
    <3> QED BY <3>2, <3>3
  <2>4. sharedResource \in 0 .. Word - 1 /\ Word \in Nat \ {0}
    BY ServiceAssumption DEF ServiceAssumption, ServiceInv, ServiceTypeOK
  <2>5. k < 1
    <3>1. k >= 1 => k * Word >= Word
      BY <2>4
    <3> QED BY <2>3, <2>4, <3>1
  <2>6. k > -1
    <3>1. k <= -1 => k * Word <= -Word
      BY <2>4
    <3> QED BY <2>3, <2>4, <3>1
  <2> QED BY <2>3, <2>4, <2>5, <2>6
<1> QED BY ServiceInductive, EndInvariant, <1>1, PTL
=============================================================================
