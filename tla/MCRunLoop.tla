------------------------------ MODULE MCRunLoop ------------------------------
(* Instances of the run loop for TLC.                                      *)
EXTENDS RunLoop

Machine(interpreter, refusals, threads, uses, vectors) ==
    [interpreter |-> interpreter, refusals |-> refusals, threads |-> threads,
     uses |-> uses, vectors |-> vectors]

(* Delivery refused at any time: on the interpreter, two threads with      *)
(* deferred procedures and the display's interrupt; on the hypervisor, one *)
(* thread with both, and two threads with either.                          *)
RefusedTitles ==
    {Machine(TRUE, TRUE, 2, {"dpcs"}, {"gpu"}),
     Machine(FALSE, TRUE, 1, {"dpcs"}, {"gpu"}),
     Machine(FALSE, TRUE, 2, {"dpcs"}, {}),
     Machine(FALSE, TRUE, 2, {}, {"gpu"})}

(* Both tiers: two threads with timers and deferred procedures.            *)
TimedTitles == {Machine(tier, FALSE, 2, {"timers", "dpcs"}, {}) : tier \in BOOLEAN}

(* Both tiers: three threads.                                              *)
ThreadedTitles == {Machine(tier, FALSE, 3, {}, {}) : tier \in BOOLEAN}

AllTitles == RefusedTitles \cup TimedTitles \cup ThreadedTitles

(* A title on the interpreter alone.                                       *)
Interpreted == {Machine(TRUE, FALSE, 2, {"timers", "dpcs"}, {})}
=============================================================================
