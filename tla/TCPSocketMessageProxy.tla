----------------------- MODULE TCPSocketMessageProxy -----------------------
(***************************************************************************)
(* TCPSocketMessageProxyExample: the threads of a MultiClientService call  *)
(* Execute; one of them at a time waits for a TCP connection and then      *)
(* serves it: it reads one message, relays it and closes the connection.   *)
(*                                                                         *)
(* The service, the mutex and the sockets belong to MARTe2 and are modelled*)
(* from how the class uses them; the pool is a fixed set of threads.       *)
(***************************************************************************)
EXTENDS Integers, Sequences

CONSTANTS
    Threads,  \* the threads of the service
    Clients,  \* the connections made during a run
    Silent,   \* clients that may stay connected without ever sending
    None      \* no thread, no client, no message

ASSUME ConstantsAssumption ==
    /\ Silent \subseteq Clients
    /\ None \notin Threads \cup Clients
    /\ None \notin {"Message", "Invalid"}

VARIABLES
    phase,    \* of the object: from its construction to its destruction
    pc,       \* next step of each thread in Execute
    mux,      \* the thread that holds mux, or None
    waitForConnection,
    accepted, \* the result of WaitConnection, in Execute of each thread
    client,   \* the thread specific context: a socket, deleted or not, or None
    backlog,  \* connections waiting in the listening socket
    connected,\* clients that have connected
    msg,      \* what each client has sent
    relayed,  \* how many messages of each client were sent to a destination
    closed    \* clients whose connection was closed by the proxy

network == <<backlog, connected, msg>>
vars == <<phase, pc, mux, waitForConnection, accepted, client, network, relayed, closed>>

Init ==
    /\ phase = "Created"
    /\ pc = [t \in Threads |-> "Ended"]
    /\ mux = None
    /\ waitForConnection = TRUE
    /\ accepted = [t \in Threads |-> None] /\ client = [t \in Threads |-> None]
    /\ backlog = << >> /\ connected = {} /\ msg = [c \in Clients |-> None]
    /\ relayed = [c \in Clients |-> 0]
    /\ closed = {}

Goto(t, label) == pc' = [pc EXCEPT ![t] = label]
-----------------------------------------------------------------------------
(* The clients *)

Connect(c) ==
    /\ phase \in {"Running", "Stopping"}
    /\ c \notin connected
    /\ connected' = connected \cup {c}
    /\ backlog' = Append(backlog, c)
    /\ UNCHANGED <<phase, pc, mux, waitForConnection, accepted, client, msg, relayed, closed>>

\* A message, or what makes Read, Parse or Message::Initialise fail.
Send(c) ==
    /\ c \in connected
    /\ msg[c] = None
    /\ \E m \in {"Message", "Invalid"} :
          msg' = [msg EXCEPT ![c] = m]
    /\ UNCHANGED <<phase, pc, mux, waitForConnection, accepted, client, backlog, connected,
                   relayed, closed>>
-----------------------------------------------------------------------------
(* Initialise: read the port, open, listen and start the threads *)

Initialise ==
    /\ phase = "Created"
    /\ \/ /\ phase' = "Running"
          /\ pc' = [t \in Threads |-> "Lock"]
       \/ phase' = "Failed" /\ UNCHANGED pc
    /\ UNCHANGED <<mux, waitForConnection, accepted, client, network, relayed, closed>>
-----------------------------------------------------------------------------
(* Execute, the stage that waits for a request *)

Lock(t) ==
    /\ pc[t] = "Lock" /\ Goto(t, "Check")
    /\ mux = None /\ mux' = t
    /\ UNCHANGED <<phase, waitForConnection, accepted, client, network, relayed, closed>>

\* (faulty) The flag is left set.
CheckWithoutClaim(t) ==
    /\ pc[t] = "Check"
    /\ Goto(t, IF waitForConnection THEN "WaitConnection" ELSE "Sleep")
    /\ mux' = None
    /\ UNCHANGED <<phase, waitForConnection, accepted, client, network, relayed, closed>>

\* One thread claims the socket; the others sleep for the timeout.
Check(t) ==
    /\ pc[t] = "Check"
    /\ Goto(t, IF waitForConnection THEN "WaitConnection" ELSE "Sleep")
    /\ waitForConnection' = FALSE
    /\ mux' = None
    /\ UNCHANGED <<phase, accepted, client, network, relayed, closed>>

Sleep(t) ==
    /\ pc[t] = "Sleep" /\ Goto(t, "Lock")
    /\ UNCHANGED <<phase, mux, waitForConnection, accepted, client, network, relayed, closed>>

\* The first pending connection, or no connection after the timeout.
WaitConnection(t) ==
    /\ pc[t] = "WaitConnection" /\ Goto(t, "Relock")
    /\ \/ /\ backlog # << >>
          /\ accepted' = [accepted EXCEPT ![t] = Head(backlog)]
          /\ backlog' = Tail(backlog)
       \/ backlog = << >> /\ UNCHANGED <<accepted, backlog>>
    /\ UNCHANGED <<phase, mux, waitForConnection, client, connected, msg, relayed, closed>>

\* (faulty) The mutex is not taken again.
RelockWithoutMutex(t) ==
    /\ pc[t] = "Relock" /\ Goto(t, "Release")
    /\ mux' = t
    /\ UNCHANGED <<phase, waitForConnection, accepted, client, network, relayed, closed>>

Relock(t) ==
    /\ pc[t] = "Relock" /\ Goto(t, "Release")
    /\ mux = None /\ mux' = t
    /\ UNCHANGED <<phase, waitForConnection, accepted, client, network, relayed, closed>>

\* (faulty) The flag is set again after a connection but not after a timeout.
FlagAfterWaitUnlessTimeout(t) == accepted[t] # None

FlagAfterWait(t) == TRUE

\* (faulty) A timeout is reported as NoError.
NextStageAlways(t) == "Read"

\* NoError makes the service call the next stage, Timeout this one again.
NextStage(t) == IF accepted[t] # None THEN "Read" ELSE "Lock"

\* The context changes only with a connection: after a timeout it is still the last one.
Release(t) ==
    /\ pc[t] = "Release" /\ Goto(t, NextStage(t))
    /\ waitForConnection' = FlagAfterWait(t)
    /\ client' = IF accepted[t] # None THEN [client EXCEPT ![t] = accepted[t]] ELSE client
    /\ accepted' = [accepted EXCEPT ![t] = None]
    /\ mux' = None
    /\ UNCHANGED <<phase, network, relayed, closed>>
-----------------------------------------------------------------------------
(* Execute, the stage that serves a request *)

\* Without a context the call is completed at once; only what parses and initialises
\* as a Message goes on to be sent.
AfterRead(t) ==
    IF client[t] = None THEN "Lock"
    ELSE IF msg[client[t]] = "Message" THEN "SendMessage" ELSE "Close"

\* Read blocks until the client sends or closes.
Read(t) ==
    /\ pc[t] = "Read" /\ Goto(t, AfterRead(t))
    /\ client[t] # None => msg[client[t]] # None
    /\ UNCHANGED <<phase, mux, waitForConnection, accepted, client, network, relayed, closed>>

\* (faulty) A message whose destination refuses it is sent again.
AfterSendRetry == {"Close", "SendMessage"}

\* Whatever SendMessage returns.
AfterSend == {"Close"}

SendMessage(t) ==
    /\ pc[t] = "SendMessage"
    /\ \E next \in AfterSend : Goto(t, next)
    /\ relayed' = [relayed EXCEPT ![client[t]] = @ + 1]
    /\ UNCHANGED <<phase, mux, waitForConnection, accepted, client, network, closed>>

\* (faulty) The pointer is cleared before it is closed.
ClosedAfterClear(t) == closed \cup {None}

\* (faulty) The connection is closed only after a message was relayed.
ClosedAfterSend(t) ==
    IF relayed[client[t]] > 0 THEN closed \cup {client[t]} ELSE closed

ClosedAfter(t) == closed \cup {client[t]}

\* The socket is closed and deleted, and stays in the context of the thread.
\* Completed: the service calls the first stage again.
Close(t) ==
    /\ pc[t] = "Close" /\ Goto(t, "Lock")
    /\ closed' = ClosedAfter(t)
    /\ UNCHANGED <<phase, mux, waitForConnection, accepted, client, network, relayed>>
-----------------------------------------------------------------------------
(* The destructor: Stop, Stop again if that timed out, unlock, close *)

Stop ==
    /\ phase \in {"Running", "Failed"}
    /\ phase' = "Stopping"
    /\ UNCHANGED <<pc, mux, waitForConnection, accepted, client, network, relayed, closed>>

\* A thread ends between two calls of Execute once Stop was called.
End(t) ==
    /\ phase = "Stopping"
    /\ pc[t] \in {"Lock", "Read"}
    /\ Goto(t, "Ended")
    /\ UNCHANGED <<phase, mux, waitForConnection, accepted, client, network, relayed, closed>>

\* All threads have ended, or a second Stop kills the others wherever they are.
StopAgain ==
    /\ phase = "Stopping"
    /\ phase' = "Stopped"
    /\ pc' = [t \in Threads |-> "Ended"]
    /\ UNCHANGED <<mux, waitForConnection, accepted, client, network, relayed, closed>>

\* mux.UnLock(), for a thread killed while it held the mutex: it may fail, being called
\* by another thread, and nobody looks.
UnLockAndClose ==
    /\ phase = "Stopped"
    /\ phase' = "Destroyed"
    /\ mux' \in {None, mux}
    /\ UNCHANGED <<pc, waitForConnection, accepted, client, network, relayed, closed>>
-----------------------------------------------------------------------------
Execute(t) ==
    \/ Lock(t) \/ Check(t) \/ Sleep(t) \/ WaitConnection(t) \/ Relock(t)
    \/ Release(t) \/ Read(t) \/ SendMessage(t) \/ Close(t)

Next ==
    \/ Initialise
    \/ \E c \in Clients : Connect(c) \/ Send(c)
    \/ \E t \in Threads : Execute(t) \/ End(t)
    \/ Stop \/ StopAgain \/ UnLockAndClose

\* Every thread runs; the mutex starves nobody, because each holder releases it in
\* its next step and then sleeps or waits for the timeout; clients that are not
\* Silent send or close.
Fairness ==
    /\ \A t \in Threads :
          /\ SF_vars(Lock(t)) /\ SF_vars(Relock(t))
          /\ WF_vars(Execute(t))
    /\ \A c \in Clients \ Silent : WF_vars(Send(c))

Spec == Init /\ [][Next]_vars /\ Fairness
-----------------------------------------------------------------------------
Labels == {"Ended", "Lock", "Check", "Sleep", "WaitConnection", "Relock", "Release",
           "Read", "SendMessage", "Close"}

TypeOK ==
    /\ phase \in {"Created", "Failed", "Running", "Stopping", "Stopped", "Destroyed"}
    /\ pc \in [Threads -> Labels]
    /\ mux \in Threads \cup {None}
    /\ waitForConnection \in BOOLEAN
    /\ accepted \in [Threads -> Clients \cup {None}]
    /\ client \in [Threads -> Clients \cup {None}]
    /\ backlog \in Seq(Clients)
    /\ connected \subseteq Clients
    /\ msg \in [Clients -> {None, "Message", "Invalid"}]
    /\ relayed \in [Clients -> Nat]
    /\ closed \subseteq Clients

\* The thread has claimed the listening socket and not given it back.
Claims(t) == pc[t] \in {"WaitConnection", "Relock", "Release"}

\* "A mux to guarantee locked access to the sockets": no two threads wait on the
\* listening socket, although none holds the mutex while it waits.
OneThreadWaits ==
    \A t, u \in Threads : Claims(t) /\ Claims(u) => t = u

\* The flag is clear exactly while a thread has the listening socket: no path of
\* Execute, timeouts included, leaves it clear with nobody waiting.
FlagNotLeaked ==
    phase \in {"Running", "Stopping"} =>
        (waitForConnection <=> \A t \in Threads : ~Claims(t))

\* A thread is inside a locked section exactly while it holds the mutex.
MutexHeld ==
    phase \notin {"Stopped", "Destroyed"} =>
        \A t \in Threads : pc[t] \in {"Check", "Release"} <=> mux = t

\* The thread has accepted the connection, or has it in its context.
Has(t, c) == c \in {accepted[t], client[t]}

\* The thread is in the stage that uses the socket of its context.
Serves(t, c) == pc[t] \in {"Read", "SendMessage", "Close"} /\ client[t] = c

\* A connection is in the backlog once, or one thread has it, or it was closed: none is
\* forgotten, accepted twice or served by two threads, and the deleted socket that a
\* thread keeps in its context is not used again.
ConnectionOwned ==
    \A c \in connected :
        LET queued == {i \in 1 .. Len(backlog) : backlog[i] = c}
            holders == {t \in Threads : Has(t, c)}
        IN  IF c \in closed
            THEN queued = {} /\ \A t \in Threads : accepted[t] # c /\ ~Serves(t, c)
            ELSE \/ holders = {} /\ \E i \in queued : queued = {i}
                 \/ queued = {} /\ \E t \in holders : holders = {t}

\* As long as there are more threads than silent clients, every other connection
\* is closed in the end, unless the proxy is stopped.
ConnectionServed ==
    \A c \in Clients \ Silent :
        c \in connected ~> (c \in closed \/ phase # "Running")

\* The proxy implements the life of a connection that clients are promised.
Life == INSTANCE ConnectionLife WITH
    status <- [c \in Clients |->
                  IF c \in closed THEN "closed"
                  ELSE IF \E t \in Threads : Has(t, c) THEN "open"
                  ELSE IF c \in connected THEN "queued"
                  ELSE "new"]

ImplementsConnectionLife == Life!Spec
=============================================================================
