--------------------------- MODULE ConnectionLife ---------------------------
(***************************************************************************)
(* What the TCP message proxy promises a client: its connection is         *)
(* accepted once, at most one message of it is relayed, while the          *)
(* connection is open, and the connection is closed once.                  *)
(***************************************************************************)
EXTENDS Integers

CONSTANT Clients
VARIABLES
    status,  \* of each connection
    relayed  \* how many messages of each client were relayed

Connect(c) ==
    /\ status[c] = "new"
    /\ status' = [status EXCEPT ![c] = "queued"]
    /\ UNCHANGED relayed

Accept(c) ==
    /\ status[c] = "queued"
    /\ status' = [status EXCEPT ![c] = "open"]
    /\ UNCHANGED relayed

Relay(c) ==
    /\ status[c] = "open" /\ relayed[c] = 0
    /\ relayed' = [relayed EXCEPT ![c] = 1]
    /\ UNCHANGED status

Close(c) ==
    /\ status[c] = "open"
    /\ status' = [status EXCEPT ![c] = "closed"]
    /\ UNCHANGED relayed

Init ==
    /\ status = [c \in Clients |-> "new"]
    /\ relayed = [c \in Clients |-> 0]

Next == \E c \in Clients : Connect(c) \/ Accept(c) \/ Relay(c) \/ Close(c)

Spec == Init /\ [][Next]_<<status, relayed>>
=============================================================================
