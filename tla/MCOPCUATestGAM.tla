--------------------------- MODULE MCOPCUATestGAM ---------------------------
(* OPCUATestGAM with integers of three values, and a server that may hold the
   first or the second output of the test. *)
EXTENDS OPCUATestGAM

MCMemory(n) == n % 3
MCNaNSets == {{}, {2}}
MCOldValues == {0, 1, 2}
=============================================================================
