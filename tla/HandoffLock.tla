----------------------------- MODULE HandoffLock -----------------------------
(***************************************************************************)
(* What a critical section promises: a recursive lock that is handed, not  *)
(* released, while anyone waits.  No implementation detail of LockCount or *)
(* RecursionCount appears here.                                            *)
(***************************************************************************)
EXTENDS Naturals

CONSTANTS Thread, NoThread

VARIABLES holder, depth, waiters

lockVars == <<holder, depth, waiters>>

Init ==
    /\ holder = NoThread
    /\ depth = 0
    /\ waiters = {}

Acquire(t) ==
    /\ holder = NoThread
    /\ holder' = t
    /\ depth' = 1
    /\ UNCHANGED waiters

Reenter(t) ==
    /\ holder = t
    /\ depth' = depth + 1
    /\ UNCHANGED <<holder, waiters>>

Block(t) ==
    /\ holder \notin {NoThread, t}
    /\ waiters' = waiters \cup {t}
    /\ UNCHANGED <<holder, depth>>

Unnest(t) ==
    /\ holder = t /\ depth > 1
    /\ depth' = depth - 1
    /\ UNCHANGED <<holder, waiters>>

Release(t) ==
    /\ holder = t /\ depth = 1 /\ waiters = {}
    /\ holder' = NoThread
    /\ depth' = 0
    /\ UNCHANGED waiters

Handoff(t) ==
    /\ holder = t /\ depth = 1
    /\ \E w \in waiters :
          /\ holder' = w
          /\ depth' = 1
          /\ waiters' = waiters \ {w}

Next ==
    \E t \in Thread :
        \/ t \notin waiters /\ (Acquire(t) \/ Reenter(t) \/ Block(t))
        \/ Unnest(t) \/ Release(t) \/ Handoff(t)

Spec == Init /\ [][Next]_lockVars
=============================================================================
