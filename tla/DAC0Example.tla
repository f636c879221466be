----------------------------- MODULE DAC0Example -----------------------------
(***************************************************************************)
(* Configurations/DAC0/Example.c: main opens a session to an FPGA, writes  *)
(* a sine to an analogue output and then 0, and closes; the handler of     *)
(* SIGINT, which may interrupt main between any two steps, aborts, closes  *)
(* and frees too, and returns to main.                                     *)
(*                                                                         *)
(* The NiFpga library and the C library are modelled from how the program  *)
(* uses them; a call of them is one step.  An interrupt between a call and *)
(* the assignment of its result to status has the effect of one before or  *)
(* after both.  The buffer is as large as 256 MB, so that free gives it    *)
(* back to the system and any later use of it ends the program.            *)
(***************************************************************************)
EXTENDS Integers

CONSTANTS
    Repetitions,   \* values of the sine (1000 in the code)
    MaxInterrupts  \* bound on the SIGINTs of a run

ASSUME ConstantsAssumption == Repetitions \in Nat /\ MaxInterrupts \in Nat

VARIABLES
    pc,           \* next step of main
    status, session, pFIFOBuf, cnt,
    lastValue,    \* what the output of the FPGA was last given
    interrupts,   \* history: SIGINTs so far
    sinceOpen,    \* history: those that found the session open
    sinceMalloc,  \* history: those that came after malloc
    unwritten,    \* history: the final 0 could not be written
    noMemory      \* history: malloc failed

memory == <<pFIFOBuf, sinceMalloc, noMemory>>
outputs == <<lastValue, unwritten>>
history == <<interrupts, sinceOpen>>
vars == <<pc, status, session, cnt, memory, outputs, history>>

\* A call on a session may fail, and must if the session is not open.
Results(s) == IF s = "Open" THEN {"Success", "Error"} ELSE {"Error"}

IsNotError(s) == s = "Success"

\* NiFpga_MergeStatus: an older error is kept.
MergeStatus(old, new) == IF IsNotError(old) THEN new ELSE old

\* What free leaves; a second one is the end of the program.
Freed(buffer) == IF buffer = "NULL" THEN "NULL" ELSE "Freed"

CrashesOnFree(buffer) == buffer = "Freed"

Init ==
    /\ pc = "Open" /\ status = "Success" /\ session = "None" /\ pFIFOBuf = "NULL"
    /\ cnt = 0 /\ lastValue = "Zero" /\ interrupts = 0 /\ sinceOpen = 0
    /\ sinceMalloc = 0 /\ unwritten = FALSE /\ noMemory = FALSE
-----------------------------------------------------------------------------
(* main *)

Open ==
    /\ pc = "Open" /\ pc' = "TestOpen"
    /\ \/ status' = "Success" /\ session' = "Open"
       \/ status' = "Error" /\ UNCHANGED session
    /\ UNCHANGED <<cnt, memory, outputs, history>>

TestOpen ==
    /\ pc = "TestOpen"
    /\ pc' = IF IsNotError(status) THEN "TestRun" ELSE "Exited"
    /\ UNCHANGED <<status, session, cnt, memory, outputs, history>>

\* The status is tested again, and may have changed.
TestRun ==
    /\ pc = "TestRun"
    /\ pc' = IF IsNotError(status) THEN "Run" ELSE "Malloc"
    /\ UNCHANGED <<status, session, cnt, memory, outputs, history>>

Run ==
    /\ pc = "Run" /\ pc' = "Malloc"
    /\ \E result \in Results(session) : status' = MergeStatus(status, result)
    /\ UNCHANGED <<session, cnt, memory, outputs, history>>

Malloc ==
    /\ pc = "Malloc" /\ pc' = "Memset"
    /\ \/ pFIFOBuf' = "Allocated" /\ UNCHANGED noMemory
       \/ noMemory' = TRUE /\ UNCHANGED pFIFOBuf
    /\ UNCHANGED <<status, session, cnt, sinceMalloc, outputs, history>>

Memset ==
    /\ pc = "Memset"
    /\ pc' = IF pFIFOBuf = "Allocated" THEN "TestStatus" ELSE "Crashed"
    /\ UNCHANGED <<status, session, cnt, memory, outputs, history>>

TestStatus ==
    /\ pc = "TestStatus"
    /\ pc' = IF IsNotError(status) THEN "Write" ELSE "LastWrite"
    /\ UNCHANGED <<status, session, cnt, memory, outputs, history>>

\* (faulty) One value too many.
MoreValuesInclusive == cnt <= Repetitions

\* The test increments cnt, whatever it finds.
MoreValues == cnt < Repetitions

\* The result is not looked at: the loop goes on.
Write ==
    /\ pc = "Write" /\ MoreValues
    /\ \E result \in Results(session) :
          /\ status' = result
          /\ lastValue' = IF IsNotError(result) THEN "Sine" ELSE lastValue
    /\ cnt' = cnt + 1
    /\ UNCHANGED <<pc, session, memory, unwritten, history>>

WritesDone ==
    /\ pc = "Write" /\ ~MoreValues
    /\ pc' = "LastWrite"
    /\ cnt' = cnt + 1
    /\ UNCHANGED <<status, session, memory, outputs, history>>

\* (faulty) The sine is left as it is.
FinalValueKept == lastValue

FinalValue == "Zero"

LastWrite ==
    /\ pc = "LastWrite" /\ pc' = "Abort"
    /\ \E result \in Results(session) :
          /\ status' = result
          /\ lastValue' = IF IsNotError(result) THEN FinalValue ELSE lastValue
          /\ unwritten' = ~IsNotError(result)
    /\ UNCHANGED <<session, cnt, memory, history>>

Abort ==
    /\ pc = "Abort" /\ pc' = "Close"
    /\ status' \in Results(session)
    /\ UNCHANGED <<session, cnt, memory, outputs, history>>

\* (faulty) A session is closed only if all went well.
ClosedIfNoError(s) == IF s = "Open" /\ IsNotError(status) THEN "Closed" ELSE s

\* It is assumed of the library that NiFpga_Close takes the session away even when it
\* returns an error: the program cannot tell, and does not try again.
Closed(s) == IF s = "Open" THEN "Closed" ELSE s

Close ==
    /\ pc = "Close" /\ pc' = "Free"
    /\ session' = Closed(session)
    /\ \E result \in Results(session) : status' = MergeStatus(status, result)
    /\ UNCHANGED <<cnt, memory, outputs, history>>

Free ==
    /\ pc = "Free"
    /\ pc' = IF CrashesOnFree(pFIFOBuf) THEN "Crashed" ELSE "Return"
    /\ pFIFOBuf' = Freed(pFIFOBuf)
    /\ UNCHANGED <<status, session, cnt, sinceMalloc, noMemory, outputs, history>>

Return ==
    /\ pc = "Return" /\ pc' = "Exited"
    /\ UNCHANGED <<status, session, cnt, memory, outputs, history>>
-----------------------------------------------------------------------------
Ended == pc \in {"Exited", "Crashed"}

\* (faulty) The handler leaves the buffer to main.
HandlerFreesNothing(buffer) == buffer

\* The handler never resets the pointer.
HandlerFrees(buffer) == Freed(buffer)

InterrHandler ==
    /\ ~Ended /\ interrupts < MaxInterrupts
    /\ pc' = IF CrashesOnFree(pFIFOBuf) THEN "Crashed" ELSE pc
    /\ \E aborted, closed \in Results(session) :
          status' = MergeStatus(aborted, closed)
    /\ session' = Closed(session)
    /\ pFIFOBuf' = HandlerFrees(pFIFOBuf)
    /\ interrupts' = interrupts + 1
    /\ sinceOpen' = IF session = "Open" THEN sinceOpen + 1 ELSE sinceOpen
    /\ sinceMalloc' = IF pFIFOBuf = "NULL" THEN sinceMalloc ELSE sinceMalloc + 1
    /\ UNCHANGED <<cnt, outputs, noMemory>>

Main ==
    \/ Open \/ TestOpen \/ TestRun \/ Run \/ Malloc \/ Memset \/ TestStatus \/ Write
    \/ WritesDone \/ LastWrite \/ Abort \/ Close \/ Free \/ Return

Next == Main \/ InterrHandler

Spec == Init /\ [][Next]_vars
-----------------------------------------------------------------------------
TypeOK ==
    /\ pc \in {"Open", "TestOpen", "TestRun", "Run", "Malloc", "Memset", "TestStatus",
               "Write", "LastWrite", "Abort", "Close", "Free", "Return", "Exited",
               "Crashed"}
    /\ status \in {"Success", "Error"} /\ session \in {"None", "Open", "Closed"}
    /\ pFIFOBuf \in {"NULL", "Allocated", "Freed"}
    /\ cnt \in 0 .. Repetitions + 1 /\ lastValue \in {"Zero", "Sine"}
    /\ interrupts \in 0 .. MaxInterrupts /\ sinceOpen \in 0 .. MaxInterrupts
    /\ sinceMalloc \in 0 .. MaxInterrupts
    /\ unwritten \in BOOLEAN /\ noMemory \in BOOLEAN

\* However it ends, and wherever SIGINTs come, even when it crashes on memory that
\* was freed twice, the program leaves no session open to the FPGA, unless malloc
\* fails.
NoSessionLeft == Ended /\ ~noMemory => session # "Open"

\* The program crashes if and only if a SIGINT came after malloc, or malloc failed:
\* the handler frees a buffer that main, or a second call of it, frees again.
CrashesIfInterrupted == Ended => (pc = "Crashed" <=> sinceMalloc > 0 \/ noMemory)

\* The output is left at 0 unless a SIGINT closed the session before the final write,
\* or that write failed.
OutputLeftAtZero == Ended /\ lastValue = "Sine" => sinceOpen > 0 \/ unwritten
=============================================================================
