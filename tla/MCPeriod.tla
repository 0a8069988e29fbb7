------------------------------ MODULE MCPeriod ------------------------------
(* Instance of Period for TLC: two inputs, one with a character that is    *)
(* neither '0' nor '1', and two spare bits.  Intervals: off, every pass by *)
(* a negative number, and three passes.                                    *)
EXTENDS Period

MCInitInputs == <<"other", "0">>
MCInitOutputs == <<"1", "0">>
MCIntervals == {-1, 0, 1, 3}
=============================================================================
