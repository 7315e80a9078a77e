------------------------------ MODULE MCThreads ------------------------------
(* Two instances of ThreadManager in one run: two threads with interrupt   *)
(* frames and deadlines, and three contending for events and a mutant.     *)
(* part says which one a behaviour is of.                                  *)
EXTENDS MCThreadManager

VARIABLE part

Parts == {"frames", "contention"}

(* The contending threads do not use the dispatcher object, so its type    *)
(* need not vary.                                                          *)
MCInit ==
    /\ Init
    /\ part \in Parts
    /\ part = "contention" => \A o \in Object : header[ObjectKey(o)].auto

(* What the frames instance leaves to the other: the third thread, the     *)
(* second event, the mutant.                                               *)
FramesBound ==
    count' <= 2 /\ next_event' <= 1 /\ next_mutant' = 0
FramesHandle == {EventKey(0), ThreadKey(0), ThreadKey(1)}

FramesNext ==
    \/ ThreadCalls
    \/ \E manual, signaled \in BOOLEAN : NtCreateEvent(manual, signaled)
    \/ NtSetEvent(0)
    \/ \E h \in FramesHandle : NtClose(h)
    \/ \E o \in Object : KeSetEvent(o)
    \/ \E v \in Timeouts :
          \/ \E h \in FramesHandle : NtWaitForSingleObject(h, v)
          \/ \E keys \in EventAndThread, all \in BOOLEAN :
                NtWaitForMultipleObjectsEx(keys, all, v)
          \/ \E a \in {ObjectKey(1), KThreadKey(0), KThreadKey(1)} :
                KeWaitForSingleObject(a, v)
    \/ RunLoopSteps

(* Three threads contending, without the steps that only multiply the      *)
(* states: no suspension, no closed handles, no frames, no deadlines, and  *)
(* the boot thread makes the objects before it makes the threads, an       *)
(* auto-reset event and then a manual one.                                 *)
ContentionNext ==
    \/ PsCreateSystemThreadEx(FALSE)
    \/ PsTerminateSystemThread
    \/ count = 1 /\ NtCreateEvent(next_event = 1, FALSE)
    \/ \E e \in Event : NtSetEvent(e)
    \/ count = 1 /\ \E owned \in BOOLEAN : NtCreateMutant(owned)
    \/ \E m \in Mutant : NtReleaseMutant(m)
    \/ \E h \in Handle : NtWaitForSingleObject(h, NullPointer)
    \/ \E keys \in MultiKeys, all \in BOOLEAN :
          NtWaitForMultipleObjectsEx(keys, all, NullPointer)
    \/ \E t \in Thread : KeWaitForSingleObject(KThreadKey(t), NullPointer)
    \/ RotateActive
    \/ ResumeAnyReady

MCNext ==
    /\ \/ part = "frames" /\ FramesNext /\ FramesBound
       \/ part = "contention" /\ ContentionNext
    /\ UNCHANGED part

MCSpec == MCInit /\ [][MCNext]_<<vars, part>>
=============================================================================
