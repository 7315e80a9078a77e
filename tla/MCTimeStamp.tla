----------------------------- MODULE MCTimeStamp -----------------------------
(* An instance of the time-stamp counter for TLC.                          *)
EXTENDS TimeStamp

Virtualized ==
    {[interpreter |-> FALSE, refusals |-> FALSE, threads |-> 2,
      uses |-> {"timers", "dpcs"}, vectors |-> {}]}
=============================================================================
