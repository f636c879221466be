-------------------- MODULE SingleThreadServiceExample1 --------------------
(***************************************************************************)
(* Other/Examples/SingleThreadServiceExample1.cpp: the thread of a         *)
(* SingleThreadService calls ThreadCallback again and again; main waits    *)
(* until the callback was called often enough, stops the service and stops *)
(* it again.  Both increment sharedResource, sleep and decrement it, with  *)
(* no lock: each ++ and -- is a load and a store.                          *)
(*                                                                         *)
(* The service belongs to MARTe2: its first Stop asks the thread to end    *)
(* and waits 100 ms, half of what the callback sleeps; the second one      *)
(* kills a thread that is still there, wherever it is.                     *)
(***************************************************************************)
EXTENDS Integers

CONSTANTS
    maxCounter,  \* 50 in the code
    Word,        \* number of values of a uint32
    MaxCalls     \* bound on the calls of the callback

ASSUME ServiceAssumption ==
    /\ maxCounter \in Nat /\ Word \in Nat \ {0, 1} /\ MaxCalls \in Nat
    /\ maxCounter <= MaxCalls

\* The two threads.
MainThread == "main"
Callback == "callback"
Threads == {MainThread, Callback}

VARIABLES
    step,            \* next step of each thread
    service, counter, sharedResource,
    tmp,             \* the register of each thread
    stale,           \* history: the other thread stored after this one loaded
    overlaps         \* history: stores of a stale register

resource == <<sharedResource, tmp, stale, overlaps>>
serviceVars == <<step, service, counter, resource>>

Goto(t, label) == step' = [step EXCEPT ![t] = label]

ServiceInit ==
    /\ step = [t \in Threads |-> IF t = MainThread THEN "Start" ELSE "None"]
    /\ service = "Off" /\ counter = 0 /\ sharedResource = 0
    /\ tmp = [t \in Threads |-> 0] /\ stale = [t \in Threads |-> FALSE]
    /\ overlaps = 0
-----------------------------------------------------------------------------
(* sharedResource++, Sleep, sharedResource--, by either thread *)

Incremented(v) == IF v = Word - 1 THEN 0 ELSE v + 1

\* (faulty) The resource is not given back.
DecrementedNot(v) == v

Decremented(v) == IF v = 0 THEN Word - 1 ELSE v - 1

Alive(t) == t = MainThread \/ service \in {"Running", "Stopping"}

Load(t, from, to) ==
    /\ step[t] = from /\ Alive(t) /\ Goto(t, to)
    /\ tmp' = [tmp EXCEPT ![t] = sharedResource]
    /\ stale' = [stale EXCEPT ![t] = FALSE]
    /\ UNCHANGED <<service, counter, sharedResource, overlaps>>

Store(t, from, to, v) ==
    /\ step[t] = from /\ Alive(t) /\ Goto(t, to)
    /\ sharedResource' = v
    /\ stale' = [u \in Threads |-> u # t]
    /\ overlaps' = IF stale[t] THEN overlaps + 1 ELSE overlaps
    /\ UNCHANGED <<service, counter, tmp>>

LoadToIncrement(t) == Load(t, "LoadToIncrement", "Increment")

Increment(t) == Store(t, "Increment", "Sleep", Incremented(tmp[t]))

Sleep(t) ==
    /\ step[t] = "Sleep" /\ Alive(t) /\ Goto(t, "LoadToDecrement")
    /\ UNCHANGED <<service, counter, resource>>

LoadToDecrement(t) == Load(t, "LoadToDecrement", "Decrement")

Decrement(t) == Store(t, "Decrement", "Done", Decremented(tmp[t]))

UseResource(t) ==
    LoadToIncrement(t) \/ Increment(t) \/ Sleep(t) \/ LoadToDecrement(t) \/ Decrement(t)
-----------------------------------------------------------------------------
(* ThreadCallback, called by the service *)

\* (faulty) The calls are not counted.
CounterAfterNone == counter

CounterAfter == counter + 1

CallbackBegins ==
    /\ step[Callback] = "Done" /\ service = "Running" /\ counter < MaxCalls
    /\ Goto(Callback, "LoadToIncrement")
    /\ counter' = CounterAfter
    /\ UNCHANGED <<service, resource>>

\* Between two calls the service sees that it was asked to stop.
CallbackEnds ==
    /\ step[Callback] = "Done" /\ service = "Stopping"
    /\ service' = "Stopped"
    /\ UNCHANGED <<step, counter, resource>>
-----------------------------------------------------------------------------
(* main *)

\* The result of Start is not looked at.
Start ==
    /\ step[MainThread] = "Start"
    /\ \/ service' = "Running"
          /\ step' = [t \in Threads |-> IF t = MainThread THEN "Test" ELSE "Done"]
       \/ UNCHANGED service /\ Goto(MainThread, "Test")
    /\ UNCHANGED <<counter, resource>>

Test ==
    /\ step[MainThread] = "Test"
    /\ Goto(MainThread, IF counter < maxCounter THEN "LoadToIncrement" ELSE "Stop")
    /\ UNCHANGED <<service, counter, resource>>

\* main sleeps for a second and goes back to the test.
SleepASecond ==
    /\ step[MainThread] = "Done" /\ Goto(MainThread, "Test")
    /\ UNCHANGED <<service, counter, resource>>

Stop ==
    /\ step[MainThread] = "Stop" /\ Goto(MainThread, "StopAgain")
    /\ service' = IF service = "Running" THEN "Stopping" ELSE service
    /\ UNCHANGED <<counter, resource>>

AfterStopAgain == IF service = "Stopping" THEN "Killed" ELSE service

StopAgain ==
    /\ step[MainThread] = "StopAgain" /\ Goto(MainThread, "Purge")
    /\ service' = AfterStopAgain
    /\ UNCHANGED <<counter, resource>>

\* The object is deleted.
Purge ==
    /\ step[MainThread] = "Purge" /\ Goto(MainThread, "Ended")
    /\ UNCHANGED <<service, counter, resource>>
-----------------------------------------------------------------------------
MainStep ==
    UseResource(MainThread) \/ Start \/ Test \/ SleepASecond \/ Stop \/ StopAgain \/ Purge

CallbackStep == UseResource(Callback) \/ CallbackBegins \/ CallbackEnds

ServiceNext == MainStep \/ CallbackStep

\* The operating system runs both threads.
Fairness == WF_serviceVars(MainStep) /\ WF_serviceVars(CallbackStep)

ServiceSpec == ServiceInit /\ [][ServiceNext]_serviceVars /\ Fairness
-----------------------------------------------------------------------------
Labels == {"None", "Start", "Test", "LoadToIncrement", "Increment", "Sleep",
           "LoadToDecrement", "Decrement", "Done", "Stop", "StopAgain", "Purge", "Ended"}

ServiceTypeOK ==
    /\ step \in [Threads -> Labels]
    /\ service \in {"Off", "Running", "Stopping", "Stopped", "Killed"}
    /\ counter \in 0 .. MaxCalls
    /\ sharedResource \in 0 .. Word - 1 /\ tmp \in [Threads -> 0 .. Word - 1]
    /\ stale \in [Threads -> BOOLEAN] /\ overlaps \in Nat

\* 1 between the increment and the decrement of a thread, also if it was killed there.
Holds(t) == IF step[t] \in {"Sleep", "LoadToDecrement", "Decrement"} THEN 1 ELSE 0

\* The value is at most n away from h, modulo the width of a word: k counts the wraps.
Near(v, h, n) ==
    \E x \in -n .. n, k \in -(n + 1) .. n + 1 : v = h + x + k * Word

\* However often one thread runs between the load and the store of the other, a lost
\* update takes the resource at most 1 away from the number of threads that use it:
\* with no overlap it is exact, and 0 in the end unless a thread was killed inside.
DriftBounded == Near(sharedResource, Holds(MainThread) + Holds(Callback), overlaps)

\* If the service starts main ends, however the calls of the callback and the Stop
\* that may time out fall together.  (If Start fails main waits for ever.)
MainEnds == service = "Running" ~> step[MainThread] = "Ended"
=============================================================================
