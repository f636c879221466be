----------------------------- MODULE RoundTrips -----------------------------
(***************************************************************************)
(* What OPCUATestGAM measures: the outputs go to the server one at a time. *)
(* An output is set only when the one before was counted, what is in the   *)
(* server is never replaced by an older output, and a trip is counted once *)
(* its output is there.  Only the first trip may be counted at once, when  *)
(* the server held its output from before.                                 *)
(***************************************************************************)
EXTENDS Integers

CONSTANT Trips
VARIABLES
    set,      \* the last output
    there,    \* the last output that reached the server, or 0
    counted,  \* the trips
    held      \* the server held the first output from the start

Begin ==
    /\ set = counted /\ counted < Trips
    /\ set' = set + 1
    /\ UNCHANGED <<there, counted, held>>

Arrive ==
    /\ there' \in there + 1 .. set
    /\ UNCHANGED <<set, counted, held>>

\* The next trip begins with the end of this one, unless this is the last.
Count ==
    /\ set = counted + 1
    /\ there = set \/ (held /\ counted = 0)
    /\ counted' = counted + 1
    /\ set' = IF counted' = Trips THEN set ELSE set + 1
    /\ UNCHANGED <<there, held>>

Init == set = 0 /\ there = 0 /\ counted = 0 /\ held \in BOOLEAN

Next == Begin \/ Arrive \/ Count

Spec == Init /\ [][Next]_<<set, there, counted, held>>
=============================================================================
