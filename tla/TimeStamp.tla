------------------------------ MODULE TimeStamp ------------------------------
(***************************************************************************)
(* The virtual time-stamp counter, CpuState::tsc, carried over the run     *)
(* loop's steps.  It is a field of the register context, so every switch   *)
(* of contexts decides whether the counter goes with it.                   *)
(***************************************************************************)
EXTENDS RunLoop

CONSTANT MaxTsc       \* bound on the counter

VARIABLES
    tsc,        \* the live counter
    stamp,      \* the counter inside each thread's saved context
    displaced   \* the counter inside the context a frame displaced

tscVars == <<tsc, stamp, displaced>>

TscInit ==
    /\ Init
    /\ tsc = 0
    /\ stamp = [t \in Thread |-> 0]
    /\ displaced = 0

(* Each millisecond of the device clock adds its worth of counts.          *)
Counts ==
    /\ Pump \/ IdleHypervisor
    /\ tsc < MaxTsc
    /\ tsc' = IF owed' = owed THEN tsc ELSE tsc + 1
    /\ UNCHANGED <<stamp, displaced>>

(* park_active saves the context and carries the counter to the next one;  *)
(* exit_active and resume_any_ready carry it too.                          *)
Carries ==
    /\ ThreadSteps \/ WakeInterpreter \/ WakeHypervisor
    /\ ~Interrupted /\ frame' = frame
    /\ stamp' = IF state'[current] = "Waiting" /\ state[current] = "Running"
                THEN [stamp EXCEPT ![current] = tsc] ELSE stamp
    /\ UNCHANGED <<tsc, displaced>>

(* rotate_active saves and loads whole contexts, counter included.         *)
Rotates ==
    /\ PumpInterpreter \/ PumpHypervisor
    /\ current' # current
    /\ stamp' = [stamp EXCEPT ![current] = tsc]
    /\ tsc' = stamp[current']
    /\ displaced' = displaced

(* deliver_dpc and deliver_interrupt clone the context aside, and          *)
(* finish_interrupt puts the clone back.                                   *)
Displaces ==
    /\ LoopSteps
    /\ frame' # frame
    /\ displaced' = tsc
    /\ UNCHANGED <<tsc, stamp>>

Restores ==
    /\ FinishInterrupt
    /\ tsc' = displaced
    /\ UNCHANGED <<stamp, displaced>>

(* Every other step leaves the contexts alone.                             *)
Others ==
    /\ \/ ThreadSteps /\ Interrupted
       \/ DeviceSteps /\ frame' = frame
       \/ (PumpInterpreter \/ PumpHypervisor) /\ UNCHANGED <<current, frame>>
       \/ IdleInterpreter \/ HostStops \/ Stopped
    /\ UNCHANGED tscVars

TscNext == Counts \/ Carries \/ Rotates \/ Displaces \/ Restores \/ Others

TscSpec == TscInit /\ [][TscNext]_<<vars, tscVars>>

(* The counter is the processor's and never moves backward, whichever      *)
(* thread or routine reads it.                                             *)
CounterNeverBack == [][tsc' >= tsc]_<<vars, tscVars>>
=============================================================================
