-------------------------- MODULE MCTraceAnalysis --------------------------
(* Small instance: a mapper bank of the original ROM, one script record away *)
(* from the reads or among them, a transfer of two tiles or of a fraction.   *)
EXTENDS TraceAnalysis

Record == [length |-> 16, first |-> 17, end |-> 19]

MCWorlds ==
    {[bank |-> 0, records |-> {Record}, executed |-> {2}, transfer |-> 2 * TileBytes],
     [bank |-> 1, records |-> {Record}, executed |-> {}, transfer |-> TileBytes + 1]}

MCProgram == {<<"increment", "target">>, <<"increment", "increment", "target">>,
              <<"increment", "none", "none", "target">>,
              <<"decrement", "target">>, <<"literal">>, <<"exchange">>}

MCOperands == {14, 16382}
=============================================================================
