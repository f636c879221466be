-------------------- MODULE TCPSocketMessageProxyProofs --------------------
(***************************************************************************)
(* Proofs about TCPSocketMessageProxy, for any number of threads and of    *)
(* clients.                                                                *)
(***************************************************************************)
EXTENDS TCPSocketMessageProxy, TLAPS

\* A thread that serves a request has a connection.
Serving ==
    \A t \in Threads : pc[t] \in {"Read", "SendMessage", "Close"} => client[t] \in Clients

LEMMA TypeStep ==
    ASSUME TypeOK, Serving, [Next]_vars PROVE TypeOK' /\ Serving'
<1> USE ConstantsAssumption DEF TypeOK, Serving, Goto, network, Labels
<1>1. CASE Initialise
  BY <1>1 DEF Initialise
<1>2. ASSUME NEW c \in Clients, Connect(c) PROVE TypeOK' /\ Serving'
  BY <1>2 DEF Connect
<1>3. ASSUME NEW c \in Clients, Send(c) PROVE TypeOK' /\ Serving'
  BY <1>3 DEF Send
<1>4. ASSUME NEW t \in Threads, Lock(t) PROVE TypeOK' /\ Serving'
  BY <1>4 DEF Lock
<1>5. ASSUME NEW t \in Threads, Check(t) PROVE TypeOK' /\ Serving'
  BY <1>5 DEF Check
<1>6. ASSUME NEW t \in Threads, Sleep(t) PROVE TypeOK' /\ Serving'
  BY <1>6 DEF Sleep
<1>7. ASSUME NEW t \in Threads, WaitConnection(t) PROVE TypeOK' /\ Serving'
  <2>1. CASE backlog = << >>
    BY <1>7, <2>1 DEF WaitConnection
  <2>2. CASE backlog # << >>
    <3>1. Head(backlog) \in Clients /\ Tail(backlog) \in Seq(Clients)
      BY <2>2
    <3>2. /\ accepted' = [accepted EXCEPT ![t] = Head(backlog)]
          /\ backlog' = Tail(backlog)
          /\ pc' = [pc EXCEPT ![t] = "Relock"]
          /\ UNCHANGED <<phase, mux, waitForConnection, client, connected, msg, relayed, closed>>
      BY <1>7, <2>2 DEF WaitConnection
    <3> QED
      BY <3>1, <3>2
  <2> QED
    BY <2>1, <2>2
<1>8. ASSUME NEW t \in Threads, Relock(t) PROVE TypeOK' /\ Serving'
  BY <1>8 DEF Relock
<1>9. ASSUME NEW t \in Threads, Release(t) PROVE TypeOK' /\ Serving'
  BY <1>9 DEF Release, NextStage, FlagAfterWait
<1>10. ASSUME NEW t \in Threads, Read(t) PROVE TypeOK' /\ Serving'
  BY <1>10 DEF Read, AfterRead
<1>11. ASSUME NEW t \in Threads, SendMessage(t) PROVE TypeOK' /\ Serving'
  BY <1>11 DEF SendMessage, AfterSend
<1>12. ASSUME NEW t \in Threads, Close(t) PROVE TypeOK' /\ Serving'
  BY <1>12 DEF Close, ClosedAfter
<1>13. ASSUME NEW t \in Threads, End(t) PROVE TypeOK' /\ Serving'
  BY <1>13 DEF End
<1>14. CASE Stop
  BY <1>14 DEF Stop
<1>15. CASE StopAgain
  BY <1>15 DEF StopAgain
<1>16. CASE UnLockAndClose
  BY <1>16 DEF UnLockAndClose
<1>17. CASE UNCHANGED vars
  BY <1>17 DEF vars
<1> QED
  BY <1>1, <1>2, <1>3, <1>4, <1>5, <1>6, <1>7, <1>8, <1>9,
     <1>10, <1>11, <1>12, <1>13, <1>14, <1>15, <1>16, <1>17 DEF Next, Execute

LEMMA TypeInvariant == Spec => [](TypeOK /\ Serving)
<1>1. Init => TypeOK /\ Serving
  BY ConstantsAssumption DEF Init, TypeOK, Serving, Labels
<1>2. TypeOK /\ Serving /\ [Next]_vars => (TypeOK /\ Serving)'
  BY TypeStep
<1> QED
  BY <1>1, <1>2, PTL DEF Spec

\* Every variable keeps its type.
THEOREM TypeCorrect == Spec => []TypeOK
  BY TypeInvariant, PTL
-----------------------------------------------------------------------------
(* The mutex, the flag and the listening socket *)

Quiet == phase \in {"Created", "Failed", "Stopped", "Destroyed"}

\* The thread that clears the flag owns the socket until it sets the flag again, and
\* both happen under the mutex: the flag alone keeps the others from the socket.
SocketInv ==
    /\ Quiet => \A t \in Threads : pc[t] = "Ended"
    /\ MutexHeld
    /\ OneThreadWaits
    /\ phase \notin {"Stopped", "Destroyed"} =>
          (waitForConnection <=> \A t \in Threads : ~Claims(t))

LEMMA SocketStep ==
    ASSUME TypeOK, SocketInv, [Next]_vars PROVE SocketInv'
<1> USE ConstantsAssumption
    DEF TypeOK, SocketInv, MutexHeld, OneThreadWaits, Claims, Quiet, Goto, network
<1>1. CASE Initialise
  BY <1>1 DEF Initialise
<1>2. ASSUME NEW c \in Clients, Connect(c) PROVE SocketInv'
  BY <1>2 DEF Connect
<1>3. ASSUME NEW c \in Clients, Send(c) PROVE SocketInv'
  BY <1>3 DEF Send
<1>4. ASSUME NEW t \in Threads, Lock(t) PROVE SocketInv'
  BY <1>4 DEF Lock
<1>5. ASSUME NEW t \in Threads, Check(t) PROVE SocketInv'
  BY <1>5 DEF Check
<1>6. ASSUME NEW t \in Threads, Sleep(t) PROVE SocketInv'
  BY <1>6 DEF Sleep
<1>7. ASSUME NEW t \in Threads, WaitConnection(t) PROVE SocketInv'
  BY <1>7 DEF WaitConnection
<1>8. ASSUME NEW t \in Threads, Relock(t) PROVE SocketInv'
  BY <1>8 DEF Relock
<1>9. ASSUME NEW t \in Threads, Release(t) PROVE SocketInv'
  BY <1>9 DEF Release, NextStage, FlagAfterWait
<1>10. ASSUME NEW t \in Threads, Read(t) PROVE SocketInv'
  BY <1>10 DEF Read, AfterRead
<1>11. ASSUME NEW t \in Threads, SendMessage(t) PROVE SocketInv'
  BY <1>11 DEF SendMessage, AfterSend
<1>12. ASSUME NEW t \in Threads, Close(t) PROVE SocketInv'
  BY <1>12 DEF Close, ClosedAfter
<1>13. ASSUME NEW t \in Threads, End(t) PROVE SocketInv'
  BY <1>13 DEF End
<1>14. CASE Stop
  BY <1>14 DEF Stop
<1>15. CASE StopAgain
  BY <1>15 DEF StopAgain
<1>16. CASE UnLockAndClose
  BY <1>16 DEF UnLockAndClose
<1>17. CASE UNCHANGED vars
  BY <1>17 DEF vars
<1> QED
  BY <1>1, <1>2, <1>3, <1>4, <1>5, <1>6, <1>7, <1>8, <1>9,
     <1>10, <1>11, <1>12, <1>13, <1>14, <1>15, <1>16, <1>17 DEF Next, Execute

LEMMA SocketInvariant == Spec => []SocketInv
<1>1. Init => SocketInv
  BY ConstantsAssumption
     DEF Init, SocketInv, MutexHeld, OneThreadWaits, Claims, Quiet
<1>2. TypeOK /\ SocketInv /\ [Next]_vars => SocketInv'
  BY SocketStep
<1> QED
  BY <1>1, <1>2, TypeCorrect, PTL DEF Spec

\* No two threads wait on the listening socket.
THEOREM WaitCorrect == Spec => []OneThreadWaits
<1>1. SocketInv => OneThreadWaits
  BY DEF SocketInv
<1> QED
  BY <1>1, SocketInvariant, PTL

\* The flag is clear exactly while a thread has the listening socket.
THEOREM FlagCorrect == Spec => []FlagNotLeaked
<1>1. SocketInv => FlagNotLeaked
  BY DEF SocketInv, FlagNotLeaked
<1> QED
  BY <1>1, SocketInvariant, PTL

\* A thread is in a locked section exactly while it holds the mutex.
THEOREM MutexCorrect == Spec => []MutexHeld
<1>1. SocketInv => MutexHeld
  BY DEF SocketInv
<1> QED
  BY <1>1, SocketInvariant, PTL
-----------------------------------------------------------------------------
(* The connections *)

\* The indexes of the backlog.
Places == 1 .. Len(backlog)

\* A thread that waits has no connection, only the socket it deleted last, if any; one
\* that serves has an open connection.  No connection is in two places.
PlaceInv ==
    /\ \A t \in Threads : pc[t] \in {"Lock", "Check", "Sleep", "WaitConnection", "Read",
                            "SendMessage", "Close"} => accepted[t] = None
    /\ \A t \in Threads : pc[t] \in {"Lock", "Check", "Sleep", "WaitConnection", "Relock",
                            "Release"} => client[t] \in closed \cup {None}
    /\ \A t \in Threads : pc[t] \in {"Read", "SendMessage", "Close"} => client[t] \notin closed
    /\ \A t \in Threads : accepted[t] \notin closed
    /\ \A i \in Places : backlog[i] \notin closed
    /\ \A i, j \in Places : backlog[i] = backlog[j] => i = j
    /\ \A t, u \in Threads : \A c \in Clients : Has(t, c) /\ Has(u, c) => t = u
    /\ \A t \in Threads : \A i \in Places : ~Has(t, backlog[i])
    /\ phase = "Created" =>
          \A t \in Threads : accepted[t] = None /\ client[t] = None /\ pc[t] = "Ended"

\* A client that connected is in one of the places.
FoundInv ==
    \A c \in Clients :
        c \in connected <=> \/ c \in closed
                            \/ \E t \in Threads : Has(t, c)
                            \/ \E i \in Places : backlog[i] = c

\* Only the connection of a thread that has sent its message, or is closed, was relayed.
RelayedInv ==
    /\ \A c \in Clients : relayed[c] \in {0, 1}
    /\ \A t \in Threads : accepted[t] # None => relayed[accepted[t]] = 0
    /\ \A t \in Threads : pc[t] \in {"Read", "SendMessage"} => relayed[client[t]] = 0
    /\ \A i \in Places : relayed[backlog[i]] = 0
    /\ \A c \in Clients \ connected : relayed[c] = 0

OwnInv == PlaceInv /\ FoundInv /\ RelayedInv

LEMMA OwnInit == Init => OwnInv
BY ConstantsAssumption DEF Init, OwnInv, PlaceInv, FoundInv, RelayedInv, Has, Places

\* The stage that waits, before a connection is accepted and up to its end.
BeforeAccept == {"Lock", "Check", "Sleep", "WaitConnection"}
Waiting == BeforeAccept \cup {"Relock", "Release"}

\* The steps that leave every connection where it is.
LEMMA OwnIdle ==
    ASSUME OwnInv, UNCHANGED <<accepted, client, backlog, connected, closed, relayed>>,
           phase' # "Created" \/ UNCHANGED <<phase, pc>>,
           \A t \in Threads :
              \/ pc'[t] \in {pc[t], "Ended"}
              \/ /\ accepted[t] = None /\ client[t] \in closed \cup {None}
                 /\ pc'[t] \in Waiting
              \/ pc[t] = "Relock" /\ pc'[t] = "Release"
              \/ pc[t] = "Read" /\ pc'[t] \in {"SendMessage", "Close"}
    PROVE  OwnInv'
<1>1. FoundInv'
  BY DEF OwnInv, FoundInv, Has, Places
<1>2. RelayedInv'
  BY DEF OwnInv, RelayedInv, Places, Waiting, BeforeAccept
<1>3. PlaceInv'
  BY DEF OwnInv, PlaceInv, Has, Places, Waiting, BeforeAccept
<1> QED BY <1>1, <1>2, <1>3 DEF OwnInv

\* A thread that waits without a connection.
LEMMA OwnWaiting ==
    ASSUME TypeOK, OwnInv, NEW t \in Threads, pc[t] \in Waiting, accepted[t] = None,
           pc' = [pc EXCEPT ![t] = pc'[t]], pc'[t] \in Waiting,
           UNCHANGED <<phase, accepted, client, backlog, connected, closed, relayed>>
    PROVE  OwnInv'
<1>1. client[t] \in closed \cup {None} /\ phase # "Created"
  BY DEF OwnInv, PlaceInv, Waiting, BeforeAccept
<1>2. \A u \in Threads : u = t \/ pc'[u] \in {pc[u], "Ended"}
  BY DEF TypeOK
<1> QED BY <1>1, <1>2, OwnIdle

LEMMA OwnConnect ==
    ASSUME TypeOK, OwnInv, NEW c \in Clients, Connect(c) PROVE OwnInv'
<1>1. /\ backlog' = Append(backlog, c) /\ c \notin connected /\ connected' = connected \cup {c}
      /\ UNCHANGED <<phase, pc, accepted, client, relayed, closed>>
      /\ backlog \in Seq(Clients)
  BY DEF Connect, TypeOK
<1>2. /\ Len(backlog') = Len(backlog) + 1 /\ backlog'[Len(backlog) + 1] = c
      /\ \A i \in Places : backlog'[i] = backlog[i] /\ backlog[i] \in Clients
  BY <1>1 DEF Places
<1>3. Places' = Places \cup {Len(backlog) + 1} /\ Len(backlog) + 1 \notin Places
  BY <1>1, <1>2 DEF Places
<1>4. /\ c \notin closed /\ \A t \in Threads : ~Has(t, c)
      /\ \A i \in Places : backlog[i] # c
  BY <1>1 DEF OwnInv, FoundInv
<1>5. \A t \in Threads : \A d : Has(t, d)' <=> Has(t, d)
  BY <1>1 DEF Has
<1>6. PlaceInv'
  <2>1. \A i \in Places' : backlog'[i] = c \/ (i \in Places /\ backlog'[i] = backlog[i])
    BY <1>2, <1>3
  <2>2. \A i, j \in Places' : backlog'[i] = backlog'[j] => i = j
    <3> SUFFICES ASSUME NEW i \in Places', NEW j \in Places', backlog'[i] = backlog'[j]
        PROVE  i = j
      OBVIOUS
    <3>1. CASE i \in Places /\ j \in Places
      BY <3>1, <1>2 DEF OwnInv, PlaceInv
    <3>2. CASE i \notin Places /\ j \notin Places
      BY <3>2, <1>3
    <3>3. CASE i \in Places /\ j \notin Places
      BY <3>3, <1>2, <1>3, <1>4
    <3>4. CASE i \notin Places /\ j \in Places
      BY <3>4, <1>2, <1>3, <1>4
    <3> QED BY <3>1, <3>2, <3>3, <3>4
  <2>3. \A i \in Places' : backlog'[i] \notin closed
    BY <1>4, <2>1 DEF OwnInv, PlaceInv
  <2>4. \A t \in Threads : \A i \in Places' : ~Has(t, backlog'[i])
    BY <1>4, <2>1 DEF OwnInv, PlaceInv
  <2> QED BY <1>1, <1>5, <2>2, <2>3, <2>4 DEF OwnInv, PlaceInv
<1>7. FoundInv'
  BY <1>1, <1>2, <1>3, <1>5 DEF OwnInv, FoundInv
<1>8. RelayedInv'
  <2>1. relayed[c] = 0
    BY <1>1 DEF OwnInv, RelayedInv
  <2>2. \A i \in Places' : relayed[backlog'[i]] = 0
    BY <1>2, <1>3, <2>1 DEF OwnInv, RelayedInv
  <2> QED BY <1>1, <2>2 DEF OwnInv, RelayedInv
<1> QED BY <1>6, <1>7, <1>8 DEF OwnInv

LEMMA OwnAccept ==
    ASSUME TypeOK, OwnInv, NEW t \in Threads, WaitConnection(t), backlog # << >> PROVE OwnInv'
<1> DEFINE c == Head(backlog)
<1>1. /\ pc[t] = "WaitConnection" /\ pc' = [pc EXCEPT ![t] = "Relock"]
      /\ accepted' = [accepted EXCEPT ![t] = c] /\ backlog' = Tail(backlog)
      /\ UNCHANGED <<phase, client, connected, relayed, closed>>
      /\ accepted[t] = None /\ client[t] \in closed \cup {None}
  BY DEF WaitConnection, Goto, OwnInv, PlaceInv
<1>2. /\ 1 \in Places /\ backlog[1] = c /\ c \in Clients
      /\ \A i \in Places' : i + 1 \in Places /\ backlog'[i] = backlog[i + 1] /\ i + 1 # 1
      /\ \A i \in Places : i # 1 => i - 1 \in Places' /\ backlog'[i - 1] = backlog[i]
      /\ \A i \in Places : backlog[i] \in Clients
  BY <1>1 DEF Places, TypeOK
<1>3. /\ c \notin closed /\ \A u \in Threads : ~Has(u, c)
      /\ \A i \in Places' : backlog'[i] # c
  BY <1>2 DEF OwnInv, PlaceInv
<1> HIDE DEF c
<1>4. /\ accepted'[t] = c /\ pc'[t] = "Relock" /\ client' = client
      /\ \A u \in Threads : u # t => accepted'[u] = accepted[u] /\ pc'[u] = pc[u]
  BY <1>1 DEF TypeOK
<1>5. \A u \in Threads : \A d \in Clients : Has(u, d)' <=> Has(u, d) \/ (u = t /\ d = c)
  BY <1>1, <1>4, ConstantsAssumption DEF Has
<1>6. PlaceInv'
  <2>1. \A i, j \in Places' : backlog'[i] = backlog'[j] => i = j
    <3> SUFFICES ASSUME NEW i \in Places', NEW j \in Places', backlog'[i] = backlog'[j]
        PROVE  i = j
      OBVIOUS
    <3>1. i + 1 = j + 1
      BY <1>2 DEF OwnInv, PlaceInv
    <3> QED BY <3>1 DEF Places
  <2>2. \A u \in Threads : accepted'[u] \notin closed /\ client'[u] = client[u]
    BY <1>1, <1>3, <1>4 DEF OwnInv, PlaceInv
  <2>3. \A u, v \in Threads : \A d \in Clients : Has(u, d)' /\ Has(v, d)' => u = v
    BY <1>3, <1>5 DEF OwnInv, PlaceInv
  <2>4. \A i \in Places' : backlog'[i] \notin closed /\ backlog'[i] \in Clients
    BY <1>2 DEF OwnInv, PlaceInv
  <2>5. \A u \in Threads : \A i \in Places' :
          accepted'[u] # backlog'[i] /\ client'[u] # backlog'[i]
    <3>1. \A u \in Threads : \A i \in Places' : ~Has(u, backlog'[i])
      BY <1>2 DEF OwnInv, PlaceInv
    <3>2. \A u \in Threads : \A i \in Places' :
             accepted[u] # backlog'[i] /\ client[u] # backlog'[i]
      BY <3>1 DEF Has
    <3> QED BY <1>3, <1>4, <3>2
  <2>6. phase' # "Created"
    BY <1>1 DEF OwnInv, PlaceInv
  <2>7. \A u \in Threads :
          /\ pc'[u] \in {"Lock", "Check", "Sleep", "WaitConnection", "Read", "SendMessage",
                         "Close"} => accepted'[u] = None
          /\ pc'[u] \in {"Lock", "Check", "Sleep", "WaitConnection", "Relock", "Release"} =>
                client[u] \in closed \cup {None}
          /\ pc'[u] \in {"Read", "SendMessage", "Close"} => client[u] \notin closed
    BY <1>1, <1>4 DEF OwnInv, PlaceInv
  <2>8. (\A u \in Threads : \A i \in Places : ~Has(u, backlog[i]))'
    BY <2>5 DEF Has
  <2>9. client' = client /\ closed' = closed /\ phase' # "Created"
    BY <1>1, <2>6
  <2> QED BY <2>1, <2>2, <2>3, <2>4, <2>7, <2>8, <2>9 DEF PlaceInv
<1>7. FoundInv'
  <2> SUFFICES ASSUME NEW d \in Clients
      PROVE  d \in connected <=> \/ d \in closed
                                 \/ \E u \in Threads : Has(u, d)'
                                 \/ \E i \in Places' : backlog'[i] = d
    BY <1>1 DEF FoundInv
  <2>1. (\E i \in Places : backlog[i] = d) <=> d = c \/ \E i \in Places' : backlog'[i] = d
    BY <1>2
  <2>2. (\E u \in Threads : Has(u, d)') <=> d = c \/ \E u \in Threads : Has(u, d)
    BY <1>5
  <2> QED BY <2>1, <2>2 DEF OwnInv, FoundInv
<1>8. RelayedInv'
  <2>1. relayed[c] = 0
    BY <1>2 DEF OwnInv, RelayedInv
  <2>2. \A i \in Places' : relayed[backlog'[i]] = 0
    BY <1>2 DEF OwnInv, RelayedInv
  <2>3. \A u \in Threads : accepted'[u] # None => relayed[accepted'[u]] = 0
    BY <1>4, <2>1 DEF OwnInv, RelayedInv
  <2> QED BY <1>1, <1>4, <2>2, <2>3 DEF OwnInv, RelayedInv
<1> QED BY <1>6, <1>7, <1>8 DEF OwnInv

\* The connection a thread accepted becomes its context, instead of a deleted socket.
LEMMA ReleaseKeeps ==
    ASSUME TypeOK, OwnInv, NEW t \in Threads, Release(t)
    PROVE  /\ \A u \in Threads : \A d \in Clients : Has(u, d)' => Has(u, d)
           /\ \A u \in Threads : \A d \in Clients : Has(u, d) => Has(u, d)' \/ d \in closed
<1> DEFINE c == accepted[t]
<1>1. /\ client' = IF c # None THEN [client EXCEPT ![t] = c] ELSE client
      /\ accepted' = [accepted EXCEPT ![t] = None]
      /\ client[t] \in closed \cup {None}
  BY DEF Release, OwnInv, PlaceInv
<1>2. Has(t, c) /\ c \in Clients \cup {None}
  BY DEF Has, TypeOK
<1>3. /\ accepted'[t] = None /\ client'[t] = IF c # None THEN c ELSE client[t]
      /\ \A u \in Threads : u # t => accepted'[u] = accepted[u] /\ client'[u] = client[u]
  BY <1>1 DEF TypeOK
<1>4. accepted[t] = c
  OBVIOUS
<1> HIDE DEF c
<1>5. \A u \in Threads : \A d : Has(u, d)' <=> d \in {accepted'[u], client'[u]}
  BY DEF Has
<1>6. ASSUME NEW u \in Threads, NEW d \in Clients
      PROVE  (Has(u, d)' => Has(u, d)) /\ (Has(u, d) => Has(u, d)' \/ d \in closed)
  <2>1. d # None
    BY ConstantsAssumption
  <2>2. CASE u = t
    BY <1>1, <1>2, <1>3, <1>4, <1>5, <2>1, <2>2 DEF Has
  <2>3. CASE u # t
    BY <1>3, <1>5, <2>3 DEF Has
  <2> QED BY <2>2, <2>3
<1> QED BY <1>6

LEMMA OwnRelease ==
    ASSUME TypeOK, OwnInv, NEW t \in Threads, Release(t), accepted[t] # None PROVE OwnInv'
<1> DEFINE c == accepted[t]
<1>1. /\ pc[t] = "Release" /\ pc' = [pc EXCEPT ![t] = "Read"]
      /\ client' = [client EXCEPT ![t] = c] /\ accepted' = [accepted EXCEPT ![t] = None]
      /\ UNCHANGED <<phase, backlog, connected, relayed, closed>>
      /\ client[t] \in closed \cup {None}
  BY DEF Release, Goto, NextStage, network, OwnInv, PlaceInv
<1>2. c \in Clients /\ c # None /\ c \notin closed /\ relayed[c] = 0
  BY DEF TypeOK, OwnInv, PlaceInv, RelayedInv
<1>3. Has(t, c)
  BY DEF Has
<1> HIDE DEF c
<1>4. /\ accepted'[t] = None /\ client'[t] = c /\ pc'[t] = "Read"
      /\ \A u \in Threads : u # t => /\ accepted'[u] = accepted[u] /\ client'[u] = client[u]
                                     /\ pc'[u] = pc[u]
  BY <1>1 DEF TypeOK
<1>5. /\ \A u \in Threads : \A d \in Clients : Has(u, d)' => Has(u, d)
      /\ \A u \in Threads : \A d \in Clients : Has(u, d) => Has(u, d)' \/ d \in closed
  BY ReleaseKeeps
<1>7. Places' = Places /\ \A i \in Places : backlog'[i] = backlog[i] /\ backlog[i] \in Clients
  BY <1>1 DEF Places, TypeOK
<1>8. PlaceInv'
  <2>1. \A u \in Threads : accepted'[u] \notin closed
    BY <1>4, ConstantsAssumption DEF TypeOK, OwnInv, PlaceInv
  <2>2. \A u, v \in Threads : \A d \in Clients : Has(u, d)' /\ Has(v, d)' => u = v
    BY <1>5 DEF OwnInv, PlaceInv
  <2>3. \A u \in Threads : \A i \in Places : ~Has(u, backlog[i])'
    <3>1. \A u \in Threads : \A i \in Places : ~Has(u, backlog[i])
      BY DEF OwnInv, PlaceInv
    <3>2. \A u \in Threads : \A i \in Places :
             Has(u, backlog[i])' <=> accepted'[u] = backlog[i] \/ client'[u] = backlog[i]
      BY <1>1 DEF Has
    <3>3. \A u \in Threads : \A i \in Places : accepted[u] # backlog[i] /\ client[u] # backlog[i]
      BY <3>1 DEF Has
    <3> QED BY <1>4, <1>7, <3>2, <3>3, ConstantsAssumption DEF c
  <2>4. phase' # "Created"
    BY <1>1 DEF OwnInv, PlaceInv
  <2>5. \A u \in Threads :
          /\ pc'[u] \in {"Lock", "Check", "Sleep", "WaitConnection", "Read", "SendMessage",
                         "Close"} => accepted'[u] = None
          /\ pc'[u] \in {"Lock", "Check", "Sleep", "WaitConnection", "Relock", "Release"} =>
                client'[u] \in closed \cup {None}
          /\ pc'[u] \in {"Read", "SendMessage", "Close"} => client'[u] \notin closed
    BY <1>2, <1>4 DEF OwnInv, PlaceInv
  <2> QED BY <1>1, <1>7, <2>1, <2>2, <2>3, <2>4, <2>5 DEF OwnInv, PlaceInv
<1>9. FoundInv'
  BY <1>1, <1>5, <1>7 DEF OwnInv, FoundInv
<1>10. RelayedInv'
  BY <1>1, <1>2, <1>4, <1>7 DEF OwnInv, RelayedInv
<1> QED BY <1>8, <1>9, <1>10 DEF OwnInv

LEMMA OwnSend ==
    ASSUME TypeOK, Serving, OwnInv, NEW t \in Threads, SendMessage(t) PROVE OwnInv'
<1> DEFINE c == client[t]
<1>1. /\ c \in Clients /\ pc[t] = "SendMessage" /\ pc' = [pc EXCEPT ![t] = "Close"]
      /\ relayed' = [relayed EXCEPT ![c] = @ + 1]
      /\ UNCHANGED <<phase, accepted, client, backlog, connected, closed>>
      /\ accepted[t] = None
  BY DEF SendMessage, AfterSend, Goto, network, Serving, OwnInv, PlaceInv
<1>2. relayed[c] = 0 /\ Has(t, c) /\ c \in connected
  BY <1>1 DEF OwnInv, RelayedInv, FoundInv, Has
<1>3. relayed'[c] = 1 /\ \A d \in Clients : d # c => relayed'[d] = relayed[d]
  BY <1>1, <1>2 DEF TypeOK
<1>4. pc'[t] = "Close" /\ \A u \in Threads : u # t => pc'[u] = pc[u]
  BY <1>1 DEF TypeOK
<1>5. /\ \A u \in Threads : u # t => accepted[u] # c /\ client[u] # c
      /\ \A i \in Places : backlog[i] # c /\ backlog[i] \in Clients
  BY <1>1, <1>2 DEF TypeOK, OwnInv, PlaceInv, Has, Places
<1> HIDE DEF c
<1>6. Places' = Places /\ \A u \in Threads : \A d : Has(u, d)' <=> Has(u, d)
  BY <1>1 DEF Places, Has
<1>7. FoundInv'
  BY <1>1, <1>6 DEF OwnInv, FoundInv
<1>8. PlaceInv'
  BY <1>1, <1>4, <1>6 DEF OwnInv, PlaceInv
<1>9. RelayedInv'
  <2>1. \A d \in Clients : relayed'[d] \in {0, 1}
    BY <1>3 DEF OwnInv, RelayedInv
  <2>2. \A u \in Threads : accepted[u] # None => relayed'[accepted[u]] = 0
    BY <1>1, <1>3, <1>5 DEF TypeOK, OwnInv, RelayedInv
  <2>3. \A u \in Threads : pc'[u] \in {"Read", "SendMessage"} => relayed'[client[u]] = 0
    BY <1>3, <1>4, <1>5 DEF Serving, OwnInv, RelayedInv
  <2>4. \A i \in Places : relayed'[backlog[i]] = 0
    BY <1>3, <1>5 DEF OwnInv, RelayedInv
  <2>5. \A d \in Clients \ connected : relayed'[d] = 0
    BY <1>2, <1>3 DEF OwnInv, RelayedInv
  <2> QED BY <1>1, <1>6, <2>1, <2>2, <2>3, <2>4, <2>5 DEF RelayedInv
<1> QED BY <1>7, <1>8, <1>9 DEF OwnInv

LEMMA OwnClose ==
    ASSUME TypeOK, Serving, OwnInv, NEW t \in Threads, Close(t) PROVE OwnInv'
<1> DEFINE c == client[t]
<1>1. /\ c \in Clients /\ pc[t] = "Close" /\ pc' = [pc EXCEPT ![t] = "Lock"]
      /\ closed' = closed \cup {c} /\ accepted[t] = None
      /\ UNCHANGED <<phase, accepted, client, backlog, connected, relayed>>
  BY DEF Close, ClosedAfter, Goto, network, Serving, OwnInv, PlaceInv
<1>2. Has(t, c) /\ c \in connected /\ c # None
  BY <1>1, ConstantsAssumption DEF OwnInv, FoundInv, Has
<1>3. pc'[t] = "Lock" /\ \A u \in Threads : u # t => pc'[u] = pc[u]
  BY <1>1 DEF TypeOK
<1>4. /\ \A u \in Threads : u # t => accepted[u] # c /\ client[u] # c
      /\ \A i \in Places : backlog[i] # c
  BY <1>1, <1>2 DEF OwnInv, PlaceInv, Has
<1>5. client[t] = c
  OBVIOUS
<1> HIDE DEF c
<1>6. Places' = Places /\ \A u \in Threads : \A d : Has(u, d)' <=> Has(u, d)
  BY <1>1 DEF Places, Has
<1>7. FoundInv'
  BY <1>1, <1>2, <1>6 DEF OwnInv, FoundInv
<1>8. PlaceInv'
  <2>1. \A u \in Threads : accepted[u] \notin closed'
    BY <1>1, <1>2, <1>4 DEF OwnInv, PlaceInv
  <2>2. \A i \in Places : backlog[i] \notin closed'
    BY <1>1, <1>4 DEF OwnInv, PlaceInv
  <2>3. \A u \in Threads :
          /\ pc'[u] \in {"Lock", "Check", "Sleep", "WaitConnection", "Read", "SendMessage",
                         "Close"} => accepted[u] = None
          /\ pc'[u] \in {"Lock", "Check", "Sleep", "WaitConnection", "Relock", "Release"} =>
                client[u] \in closed' \cup {None}
          /\ pc'[u] \in {"Read", "SendMessage", "Close"} => client[u] \notin closed'
    BY <1>1, <1>3, <1>4, <1>5 DEF OwnInv, PlaceInv
  <2>4. phase' # "Created"
    BY <1>1 DEF OwnInv, PlaceInv
  <2> QED BY <1>1, <1>6, <2>1, <2>2, <2>3, <2>4 DEF OwnInv, PlaceInv
<1>9. RelayedInv'
  BY <1>1, <1>3, <1>6 DEF OwnInv, RelayedInv
<1> QED BY <1>7, <1>8, <1>9 DEF OwnInv

LEMMA OwnStep ==
    ASSUME TypeOK, Serving, OwnInv, [Next]_vars PROVE OwnInv'
<1>1. CASE Initialise
  <2>1. \A t \in Threads : accepted[t] = None /\ client[t] = None
    BY <1>1 DEF Initialise, OwnInv, PlaceInv
  <2>2. \A t \in Threads : pc'[t] \in {pc[t], "Lock"}
    BY <1>1 DEF Initialise
  <2> QED BY <1>1, <2>1, <2>2, OwnIdle DEF Initialise, network, Waiting, BeforeAccept
<1>2. ASSUME NEW c \in Clients, Connect(c) PROVE OwnInv'
  BY <1>2, OwnConnect
<1>3. ASSUME NEW c \in Clients, Send(c) PROVE OwnInv'
  BY <1>3, OwnIdle DEF Send
<1>4. ASSUME NEW t \in Threads, Lock(t) \/ Check(t) \/ Sleep(t) PROVE OwnInv'
  <2>1. /\ pc[t] \in Waiting /\ accepted[t] = None /\ pc'[t] \in Waiting
        /\ pc' = [pc EXCEPT ![t] = pc'[t]]
    BY <1>4 DEF Lock, Check, Sleep, Goto, TypeOK, OwnInv, PlaceInv, Waiting, BeforeAccept
  <2> QED BY <1>4, <2>1, OwnWaiting DEF Lock, Check, Sleep, network
<1>5. ASSUME NEW t \in Threads, WaitConnection(t) PROVE OwnInv'
  <2>1. CASE backlog = << >>
    <3>1. /\ pc[t] \in Waiting /\ accepted[t] = None /\ pc'[t] \in Waiting
          /\ pc' = [pc EXCEPT ![t] = pc'[t]]
      BY <1>5 DEF WaitConnection, Goto, TypeOK, OwnInv, PlaceInv, Waiting, BeforeAccept
    <3> QED BY <1>5, <2>1, <3>1, OwnWaiting DEF WaitConnection
  <2>2. CASE backlog # << >>
    BY <1>5, <2>2, OwnAccept
  <2> QED BY <2>1, <2>2
<1>6. ASSUME NEW t \in Threads, Relock(t) PROVE OwnInv'
  <2>1. /\ pc[t] = "Relock" /\ pc' = [pc EXCEPT ![t] = "Release"] /\ phase # "Created"
    BY <1>6 DEF Relock, Goto, OwnInv, PlaceInv
  <2>2. \A u \in Threads : pc'[u] = pc[u] \/ (pc[u] = "Relock" /\ pc'[u] = "Release")
    BY <2>1 DEF TypeOK
  <2> QED BY <1>6, <2>1, <2>2, OwnIdle DEF Relock, network
<1>7. ASSUME NEW t \in Threads, Release(t) PROVE OwnInv'
  <2>1. CASE accepted[t] = None
    <3>1. /\ pc[t] \in Waiting /\ pc'[t] \in Waiting /\ pc' = [pc EXCEPT ![t] = pc'[t]]
          /\ accepted' = accepted /\ client' = client
      BY <1>7, <2>1 DEF Release, NextStage, Goto, TypeOK, Waiting, BeforeAccept
    <3> QED BY <1>7, <2>1, <3>1, OwnWaiting DEF Release, network
  <2>2. CASE accepted[t] # None
    BY <1>7, <2>2, OwnRelease
  <2> QED BY <2>1, <2>2
<1>8. ASSUME NEW t \in Threads, Read(t) PROVE OwnInv'
  <2>1. /\ pc[t] = "Read" /\ client[t] # None /\ phase # "Created"
        /\ pc'[t] \in {"SendMessage", "Close"} /\ \A u \in Threads : u # t => pc'[u] = pc[u]
    BY <1>8, ConstantsAssumption
       DEF Read, AfterRead, Goto, TypeOK, Serving, OwnInv, PlaceInv
  <2> QED BY <1>8, <2>1, OwnIdle DEF Read, network
<1>9. ASSUME NEW t \in Threads, End(t) PROVE OwnInv'
  <2>1. \A u \in Threads : pc'[u] \in {pc[u], "Ended"}
    BY <1>9 DEF End, Goto, TypeOK
  <2> QED BY <1>9, <2>1, OwnIdle DEF End, network
<1>10. ASSUME NEW t \in Threads, SendMessage(t) PROVE OwnInv'
  BY <1>10, OwnSend
<1>11. ASSUME NEW t \in Threads, Close(t) PROVE OwnInv'
  BY <1>11, OwnClose
<1>12. CASE Stop \/ StopAgain \/ UnLockAndClose
  <2>1. \A u \in Threads : pc'[u] \in {pc[u], "Ended"}
    BY <1>12 DEF Stop, StopAgain, UnLockAndClose
  <2> QED BY <1>12, <2>1, OwnIdle DEF Stop, StopAgain, UnLockAndClose, network
<1>13. CASE UNCHANGED vars
  BY <1>13, OwnIdle DEF vars, network
<1> QED
  BY <1>1, <1>2, <1>3, <1>4, <1>5, <1>6, <1>7, <1>8, <1>9, <1>10, <1>11, <1>12, <1>13
  DEF Next, Execute

LEMMA OwnInvariant == Spec => []OwnInv
<1>1. TypeOK /\ Serving /\ OwnInv /\ [Next]_vars => OwnInv'
  BY OwnStep
<1> QED
  BY <1>1, OwnInit, TypeInvariant, PTL DEF Spec

\* No connection is forgotten, accepted twice or shared by threads, and no thread serves
\* the deleted socket that stays in its context (TCPSocketMessageProxyExample.cpp:113-126,
\* 136 and 176-179).
THEOREM OwnedCorrect == Spec => []ConnectionOwned
<1>1. TypeOK /\ Serving /\ OwnInv => ConnectionOwned
  <2> SUFFICES ASSUME TypeOK, Serving, OwnInv, NEW c \in connected
      PROVE  LET queued == {i \in 1 .. Len(backlog) : backlog[i] = c}
                 holders == {t \in Threads : Has(t, c)}
             IN  IF c \in closed
                 THEN queued = {} /\ \A t \in Threads : accepted[t] # c /\ ~Serves(t, c)
                 ELSE \/ holders = {} /\ \E i \in queued : queued = {i}
                      \/ queued = {} /\ \E t \in holders : holders = {t}
    BY DEF ConnectionOwned
  <2> DEFINE queued == {i \in 1 .. Len(backlog) : backlog[i] = c}
             holders == {t \in Threads : Has(t, c)}
  <2>1. c \in Clients
    BY DEF TypeOK
  <2>2. CASE c \in closed
    <3>1. queued = {}
      BY <2>2 DEF OwnInv, PlaceInv, Places
    <3>2. \A t \in Threads : accepted[t] # c /\ ~Serves(t, c)
      BY <2>2 DEF OwnInv, PlaceInv, Serves
    <3> QED BY <2>2, <3>1, <3>2
  <2>3. CASE c \notin closed
    <3>1. ASSUME NEW i \in Places, backlog[i] = c PROVE holders = {} /\ queued = {i}
      BY <3>1 DEF OwnInv, PlaceInv, Places
    <3>2. ASSUME NEW t \in Threads, Has(t, c) PROVE queued = {} /\ holders = {t}
      BY <2>1, <3>2 DEF OwnInv, PlaceInv, Places
    <3>3. (\E t \in Threads : Has(t, c)) \/ \E i \in Places : backlog[i] = c
      BY <2>1, <2>3 DEF OwnInv, FoundInv
    <3> QED BY <2>3, <3>1, <3>2, <3>3 DEF Places
  <2> QED BY <2>2, <2>3
<1> QED
  BY <1>1, TypeInvariant, OwnInvariant, PTL
-----------------------------------------------------------------------------
(* The refinement *)

Held(c) == \E t \in Threads : Has(t, c)

\* What the mapping makes of a connection.
Status(c) ==
    IF c \in closed THEN "closed"
    ELSE IF Held(c) THEN "open"
    ELSE IF c \in connected THEN "queued"
    ELSE "new"

StatusOf == [c \in Clients |-> Status(c)]

LEMMA StatusSame ==
    ASSUME UNCHANGED <<connected, closed>>,
           \A c \in Clients \ closed : Held(c)' <=> Held(c)
    PROVE  UNCHANGED StatusOf
<1>1. \A c \in Clients : Status(c)' = Status(c)
  BY DEF Status
<1> QED BY <1>1 DEF StatusOf

\* A step that moves one connection.
LEMMA StatusMoves ==
    ASSUME NEW c \in Clients, NEW s, Status(c)' = s,
           \A d \in Clients : d # c => Status(d)' = Status(d)
    PROVE  StatusOf' = [StatusOf EXCEPT ![c] = s]
BY DEF StatusOf

LEMMA HeldSame ==
    ASSUME UNCHANGED <<accepted, client>> PROVE \A c : Held(c)' <=> Held(c)
BY DEF Held, Has

LEMMA ConnectLife == ASSUME OwnInv, NEW c \in Clients, Connect(c) PROVE Life!Connect(c)
<1>1. /\ c \notin connected /\ connected' = connected \cup {c}
      /\ UNCHANGED <<accepted, client, closed, relayed>>
  BY DEF Connect
<1>2. c \notin closed /\ ~Held(c) /\ \A d : Held(d)' <=> Held(d)
  BY <1>1, HeldSame DEF OwnInv, FoundInv, Held
<1>3. Status(c) = "new" /\ Status(c)' = "queued"
  BY <1>1, <1>2 DEF Status
<1>4. \A d \in Clients : d # c => Status(d)' = Status(d)
  BY <1>1, <1>2 DEF Status
<1>5. StatusOf' = [StatusOf EXCEPT ![c] = "queued"] /\ StatusOf[c] = "new"
  BY <1>3, <1>4, StatusMoves DEF StatusOf
<1> QED BY <1>1, <1>5 DEF Life!Connect, StatusOf, Status, Held

LEMMA AcceptLife ==
    ASSUME TypeOK, OwnInv, NEW t \in Threads, WaitConnection(t), backlog # << >>
    PROVE  \E c \in Clients : Life!Accept(c)
<1>1. PICK c \in Clients : c = Head(backlog)
  BY DEF TypeOK
<1>2. /\ accepted' = [accepted EXCEPT ![t] = c] /\ accepted[t] = None
      /\ UNCHANGED <<client, connected, relayed, closed>>
  BY <1>1 DEF WaitConnection, OwnInv, PlaceInv
<1>3. /\ c \notin closed /\ c \in connected /\ ~Held(c)
  <2>1. 1 \in Places /\ backlog[1] = c
    BY <1>1 DEF Places, TypeOK
  <2> QED BY <2>1 DEF OwnInv, PlaceInv, FoundInv, Held
<1>4. accepted'[t] = c /\ \A u \in Threads : u # t => accepted'[u] = accepted[u]
  BY <1>2 DEF TypeOK
<1>5. \A d \in Clients : Held(d)' <=> Held(d) \/ d = c
  <2>1. \A u \in Threads : \A d \in Clients : Has(u, d)' <=> Has(u, d) \/ (u = t /\ d = c)
    BY <1>2, <1>4, ConstantsAssumption DEF Has
  <2> QED BY <2>1 DEF Held
<1>6. Status(c) = "queued" /\ Status(c)' = "open"
  BY <1>2, <1>3, <1>5 DEF Status
<1>7. \A d \in Clients : d # c => Status(d)' = Status(d)
  BY <1>2, <1>5 DEF Status
<1>8. StatusOf' = [StatusOf EXCEPT ![c] = "open"] /\ StatusOf[c] = "queued"
  BY <1>6, <1>7, StatusMoves DEF StatusOf
<1>9. Life!Accept(c)
  BY <1>2, <1>8 DEF Life!Accept, StatusOf, Status, Held
<1> QED BY <1>9

LEMMA RelayLife ==
    ASSUME TypeOK, Serving, OwnInv, NEW t \in Threads, SendMessage(t)
    PROVE  \E c \in Clients : Life!Relay(c)
<1>1. PICK c \in Clients : c = client[t]
  BY DEF SendMessage, Serving
<1>2. /\ pc[t] = "SendMessage" /\ relayed' = [relayed EXCEPT ![c] = @ + 1]
      /\ UNCHANGED <<accepted, client, connected, closed>>
  BY <1>1 DEF SendMessage, network
<1>3. relayed[c] = 0 /\ c \notin closed /\ Held(c)
  BY <1>1, <1>2 DEF OwnInv, RelayedInv, PlaceInv, Held, Has
<1>4. relayed' = [relayed EXCEPT ![c] = 1]
  BY <1>2, <1>3 DEF TypeOK
<1>5. UNCHANGED StatusOf
  BY <1>2, HeldSame, StatusSame
<1>6. StatusOf[c] = "open"
  BY <1>3 DEF StatusOf, Status
<1>7. Life!Relay(c)
  BY <1>3, <1>4, <1>5, <1>6 DEF Life!Relay, StatusOf, Status, Held
<1> QED BY <1>7

LEMMA CloseLife ==
    ASSUME TypeOK, Serving, OwnInv, NEW t \in Threads, Close(t)
    PROVE  \E c \in Clients : Life!Close(c)
<1>1. PICK c \in Clients : c = client[t]
  BY DEF Close, Serving
<1>2. /\ pc[t] = "Close" /\ closed' = closed \cup {c}
      /\ UNCHANGED <<accepted, client, connected, relayed>>
  BY <1>1 DEF Close, ClosedAfter, network
<1>3. c \notin closed /\ Held(c) /\ \A d : Held(d)' <=> Held(d)
  BY <1>1, <1>2, HeldSame DEF OwnInv, PlaceInv, Held, Has
<1>4. Status(c) = "open" /\ Status(c)' = "closed"
  BY <1>2, <1>3 DEF Status
<1>5. \A d \in Clients : d # c => Status(d)' = Status(d)
  BY <1>2, <1>3 DEF Status
<1>6. StatusOf' = [StatusOf EXCEPT ![c] = "closed"] /\ StatusOf[c] = "open"
  BY <1>4, <1>5, StatusMoves DEF StatusOf
<1>7. Life!Close(c)
  BY <1>2, <1>6 DEF Life!Close, StatusOf, Status, Held
<1> QED BY <1>7

LEMMA ReleaseLife ==
    ASSUME TypeOK, OwnInv, NEW t \in Threads, Release(t)
    PROVE  UNCHANGED <<StatusOf, relayed>>
<1>1. UNCHANGED <<connected, closed, relayed>>
  BY DEF Release, network
<1>2. \A c \in Clients \ closed : Held(c)' <=> Held(c)
  BY ReleaseKeeps DEF Held
<1> QED BY <1>1, <1>2, StatusSame

LEMMA LifeStep ==
    ASSUME TypeOK, Serving, OwnInv, [Next]_vars PROVE [Life!Next]_<<StatusOf, relayed>>
<1>1. CASE \E c \in Clients : Connect(c)
  BY <1>1, ConnectLife DEF Life!Next
<1>2. CASE \E t \in Threads : WaitConnection(t) /\ backlog # << >>
  BY <1>2, AcceptLife DEF Life!Next
<1>3. CASE \E t \in Threads : SendMessage(t)
  BY <1>3, RelayLife DEF Life!Next
<1>4. CASE \E t \in Threads : Close(t)
  BY <1>4, CloseLife DEF Life!Next
<1>5. CASE \E t \in Threads : Release(t)
  BY <1>5, ReleaseLife
<1>6. CASE UNCHANGED <<accepted, client, connected, closed, relayed>>
  BY <1>6, HeldSame, StatusSame
<1>7. ASSUME NEW t \in Threads, WaitConnection(t), backlog = << >>
      PROVE  UNCHANGED <<accepted, client, connected, closed, relayed>>
  BY <1>7 DEF WaitConnection
<1>8. \/ UNCHANGED <<accepted, client, connected, closed, relayed>>
      \/ \E c \in Clients : Connect(c)
      \/ \E t \in Threads : WaitConnection(t) \/ Release(t) \/ SendMessage(t) \/ Close(t)
  BY DEF Next, Execute, vars, network, Initialise, Send, Lock, Check, Sleep, Relock,
         Read, End, Stop, StopAgain, UnLockAndClose
<1> QED
  BY <1>1, <1>2, <1>3, <1>4, <1>5, <1>6, <1>7, <1>8

\* The proxy implements the life of a connection: every step of a thread is a step of
\* one connection or none.
THEOREM RefinesLife == Spec => ImplementsConnectionLife
<1>1. Init => Life!Init
  BY ConstantsAssumption DEF Init, Life!Init, Has
<1>2. TypeOK /\ Serving /\ OwnInv /\ [Next]_vars => [Life!Next]_<<StatusOf, relayed>>
  BY LifeStep
<1>3. [Life!Next]_<<StatusOf, relayed>> =>
      [Life!Next]_<<[c \in Clients |->
                       IF c \in closed THEN "closed"
                       ELSE IF \E t \in Threads : Has(t, c) THEN "open"
                       ELSE IF c \in connected THEN "queued"
                       ELSE "new"], relayed>>
  BY DEF StatusOf, Status, Held
<1> QED
  BY <1>1, <1>2, <1>3, TypeInvariant, OwnInvariant, PTL
  DEF Spec, ImplementsConnectionLife, Life!Spec
=============================================================================
