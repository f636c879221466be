------------------------------- MODULE Float32 -------------------------------
(***************************************************************************)
(* The rounding of numbers to the nearest float32.  A float32 has 24       *)
(* significant bits: all the integers up to 2^24 are float32s, then every  *)
(* second one up to 2^25, and so on; the same is true of the multiples of  *)
(* a unit that is a power of two.  Numbers are integers, in the unit of    *)
(* the module that rounds them.                                            *)
(***************************************************************************)
EXTENDS Integers

CONSTANT Float32s  \* the integers that are float32s

ASSUME Float32Assumption == Float32s \subseteq Int /\ 0 \in Float32s

\* How far f is from a / b, times b.
Distance(f, a, b) == IF f * b >= a THEN f * b - a ELSE a - f * b

\* The float32 nearest to a / b; a tie goes to either, always to the same.
NearestRatio(a, b) ==
    CHOOSE f \in Float32s : \A g \in Float32s : Distance(f, a, b) <= Distance(g, a, b)

Nearest(v) == NearestRatio(v, 1)
=============================================================================
