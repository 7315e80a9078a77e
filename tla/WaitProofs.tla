----------------------------- MODULE WaitProofs -----------------------------
(***************************************************************************)
(* What a step of ThreadManager may do to waits, wakes and contexts: the   *)
(* lemmas from which ThreadManagerProofs concludes that no signal and no   *)
(* exit passes a parked thread by, that a mutant has one holder, and that  *)
(* a wake tells the truth.                                                 *)
(***************************************************************************)
EXTENDS ThreadManager, TLAPS

(* The prover of the steps that name none.                                 *)
USE ZenonT(20)

(* The thread table.  Whoever is current owns the live registers (or the   *)
(* ones an interrupt frame displaced), running or not; every saved context *)
(* is its own thread's.  That is what makes the switches inductive.        *)
LiveContext == IF Interrupted THEN frame ELSE cpu

TableInv ==
    /\ \A t \in Thread : t >= count => state[t] = "Absent"
    /\ \A t \in Thread : saved[t].owner = t
    /\ LiveContext.owner = current
    /\ SingleRunning

EventTable == [Event -> [live : BOOLEAN, manual : BOOLEAN, signaled : BOOLEAN]]
MutantTable == [Mutant -> [holder : Thread \cup {Nobody}, recursion : Nat]]

(* What a parked thread's block may name: handles that were created, and   *)
(* an address only on its own.                                             *)
BlockNames ==
    \A t \in Thread : state[t] = "Waiting" =>
        \A k \in Range(block[t].keys) :
            /\ k[1] = "event" => k[2] < next_event
            /\ k[1] = "mutant" => k[2] < next_mutant
            /\ block[t].all => k \in Handle

LiveCreated == \A e \in Event : event[e].live => e < next_event

NamesInv == BlockNames /\ LiveCreated

(* A thread's own dispatcher header stays signaled once it has exited.     *)
ExitSignaled ==
    \A t \in Thread :
        /\ ~header[KThreadKey(t)].auto
        /\ state[t] = "Terminated" => header[KThreadKey(t)].signaled

(* A mutant's table entry and the history of its acquisitions agree.       *)
Accounts(mu, h) ==
    \A m \in Mutant :
        /\ \A t \in Thread : h[m][t] = IF mu[m].holder = t THEN mu[m].recursion ELSE 0
        /\ mu[m].holder # Nobody => mu[m].recursion > 0

MutantAccounts == Accounts(mutant, holds)

(* A mutant that was not created yet is free.                              *)
LaterFree == \A m \in Mutant : m >= next_mutant => mutant[m].holder = Nobody

(* No parked thread waits for a mutant it holds itself.                    *)
NoSelfWait ==
    \A t \in Thread, m \in Mutant :
        state[t] = "Waiting" /\ MutantKey(m) \in Range(block[t].keys)
        => mutant[m].holder # t

JoinInv == ExitSignaled /\ NoLostJoin
MutantInv == MutantAccounts /\ LaterFree /\ NoSelfWait

-----------------------------------------------------------------------------
(* The kinds of step.  Most only take threads out of their waits, or leave *)
(* the waits alone; they touch no object but for handles they may close    *)
(* and for the handle of a new thread.                                     *)
StillParked(t) ==
    state'[t] = "Waiting" => state[t] = "Waiting" /\ block'[t] = block[t]

Unparking ==
    /\ \A t \in Thread : StillParked(t)
    /\ \A t \in Thread : state'[t] = "Terminated" <=> state[t] = "Terminated"
    /\ UNCHANGED <<next_event, next_mutant, event, mutant, header, holds>>
    /\ \A k \in handles' : k \in handles \/ (k[1] = "thread" /\ state[k[2]] # "Terminated")

(* The current thread parks on what it just found unsignaled.              *)
Unsatisfied(keys, all) ==
    /\ \A k \in Range(keys) : k \in Handle => Known(k)
    /\ all => Range(keys) \subseteq Handle
    /\ IF all THEN \E k \in Range(keys) : ~SignaledNow(k)
              ELSE \A k \in Range(keys) : ~SignaledNow(k)
    /\ ~MutantMisuse =>
          \A m \in Mutant : MutantKey(m) \in Range(keys) => mutant[m].holder # current

Parking ==
    /\ ~Interrupted /\ state[current] = "Running"
    /\ UNCHANGED objectVars
    /\ \A t \in Thread : t # current => StillParked(t)
    /\ \A t \in Thread : state'[t] = "Terminated" <=> state[t] = "Terminated"
    /\ Unsatisfied(block'[current].keys, block'[current].all)

(* A wait satisfied on the spot, and one more acquisition of a held mutant.*)
Taking(keys) ==
    /\ keys \subseteq Handle
    /\ \A k \in keys : SignaledNow(k) /\ Known(k)
    /\ \A m \in Mutant : ~MutantMisuse /\ MutantKey(m) \in keys =>
          ~Interrupted /\ state[current] = "Running" /\ mutant[m].holder # current
    /\ event' = ConsumeEvents(event, keys)
    /\ mutant' = ConsumeMutants(mutant, keys, [k \in keys |-> current])
    /\ holds' = Acquired(keys)
    /\ UNCHANGED <<tableVars, handles, next_event, next_mutant, header>>

Reacquiring(m) ==
    /\ m < next_mutant /\ mutant[m].holder = current
    /\ ~MutantMisuse => ~Interrupted /\ state[current] = "Running"
    /\ mutant' = [mutant EXCEPT ![m].recursion = @ + 1]
    /\ holds' = Acquired({MutantKey(m)})
    /\ UNCHANGED <<tableVars, handles, next_event, next_mutant, event, header>>

TakingObject(a) ==
    /\ header[a].signaled
    /\ header' = [header EXCEPT ![a].signaled = ~header[a].auto]
    /\ UNCHANGED <<tableVars, handles, next_event, next_mutant, event, mutant, holds>>

(* A switch moves nobody into or out of a wait, and revives nobody.        *)
LEMMA TakerType ==
    ASSUME NEW W, NEW key, NEW k, k \in UNION {Consumed(key, w) : w \in W}
    PROVE  Taker(W, key, k) \in W /\ k \in Consumed(key, Taker(W, key, k))
<1>1. \E w \in W : k \in Consumed(key, w)
  OBVIOUS
<1> QED
  BY <1>1 DEF Taker

LEMMA KeyTypes ==
    /\ \A e \in Event : EventKey(e) \in Key
    /\ \A m \in Mutant : MutantKey(m) \in Key
    /\ \A t \in Thread : ThreadKey(t) \in Handle /\ ThreadKey(t) \in Key
    /\ \A t \in Thread : KThreadKey(t) \in Address /\ KThreadKey(t) \in Key
    /\ \A o \in Object : ObjectKey(o) \in Address /\ ObjectKey(o) \in Key
    /\ Handle \subseteq Key /\ Address \subseteq Key
  BY DEF EventKey, MutantKey, ThreadKey, KThreadKey, ObjectKey, Key, Handle, Address

LEMMA CurrentThread == TypeOK => current \in Thread /\ count \in Nat
  BY SMT, BoundsAssumption DEF TypeOK, Thread

(* What each step relies on: the object tables are well-typed, and a call  *)
(* that fails or a stutter changes nothing the table depends on.           *)
LEMMA ObjectTypes ==
    ASSUME TypeOK
    PROVE  /\ current \in Thread
           /\ event \in EventTable /\ mutant \in MutantTable
           /\ header \in [Address -> [auto : BOOLEAN, signaled : BOOLEAN]]
           /\ holds \in [Mutant -> [Thread -> Nat]]
  BY CurrentThread DEF TypeOK, EventTable, MutantTable

LEMMA SwitchWaits ==
    ASSUME NEW st \in [Thread -> States], NEW sv, NEW live, SwitchToReady(st, sv, live)
    PROVE  \A t \in Thread : /\ state'[t] = "Waiting" <=> st[t] = "Waiting"
                             /\ state'[t] = "Terminated" <=> st[t] = "Terminated"
  BY DEF SwitchToReady

LEMMA SingleRange ==
    \A h : Range(<<h>>) = {h}
  BY SMT DEF Range

(* An unsatisfied wait parks its caller, unless an interrupt routine made  *)
(* it.                                                                     *)
LEMMA ParkShape ==
    ASSUME TypeOK, TableInv, GuestRuns, NEW keys, NEW all, NEW ms, NEW status,
           Park(keys, all, ms, status), UNCHANGED objectVars, Unsatisfied(keys, all)
    PROVE  Unparking \/ Parking
<1>1. CASE Interrupted
  BY <1>1 DEF Park, Unparking, StillParked, tableVars, objectVars
<1>2. CASE ~Interrupted
  <2>1. current \in Thread /\ state[current] = "Running"
    BY <1>2, CurrentThread DEF GuestRuns
  <2> DEFINE st == [state EXCEPT ![current] = "Waiting"]
             returned == [cpu EXCEPT !.eax = STATUS_SUCCESS]
             deadline == IF ms = Infinite THEN Infinite
                         ELSE elapsed + (IF ms < 1 THEN 1 ELSE ms)
             b == [keys |-> keys, all |-> all, deadline |-> deadline, timeout_status |-> status]
             sv == [saved EXCEPT ![current] = returned]
  <2>2. /\ block' = [block EXCEPT ![current] = b]
        /\ b.keys = keys /\ b.all = all
        /\ SwitchToReady(st, sv, returned)
    BY <1>2 DEF Park
  <2> HIDE DEF b, sv, returned
  <2>3. st \in [Thread -> States] /\ block \in [Thread -> WaitBlock]
    BY DEF TypeOK, States
  <2>4. \A t \in Thread : t # current => st[t] = state[t] /\ block'[t] = block[t]
    BY <2>1, <2>2, <2>3 DEF TypeOK
  <2>5. st[current] = "Waiting" /\ block'[current] = b
    BY <2>1, <2>2, <2>3 DEF TypeOK
  <2> HIDE DEF st
  <2>6. \A t \in Thread : /\ state'[t] = "Waiting" <=> st[t] = "Waiting"
                          /\ state'[t] = "Terminated" <=> st[t] = "Terminated"
    BY <2>2, <2>3, SwitchWaits DEF st
  <2>7. Unsatisfied(block'[current].keys, block'[current].all)
    BY <2>2, <2>5
  <2> QED
    BY <1>2, <2>1, <2>4, <2>5, <2>6, <2>7 DEF Parking, StillParked
<1> QED
  BY <1>1, <1>2

LEMMA PollOrParkShape ==
    ASSUME TypeOK, TableInv, GuestRuns, NEW keys, NEW all, NEW v,
           PollOrPark(keys, all, v), Unsatisfied(keys, all)
    PROVE  Unparking \/ Parking
<1>1. CASE UNCHANGED tableVars
  BY <1>1 DEF PollOrPark, Unparking, StillParked, tableVars, objectVars
<1> QED
  BY <1>1, ParkShape DEF PollOrPark

(* Calls and run loop steps that leave the objects alone.                  *)
LEMMA UnchangedShape ==
    ASSUME UNCHANGED <<tableVars, objectVars>>
    PROVE  Unparking
  BY DEF Unparking, StillParked, tableVars, objectVars

LEMMA ThreadCallShape ==
    ASSUME TypeOK, TableInv, ThreadCalls
    PROVE  Unparking \/ Parking \/ PsTerminateSystemThread
<1> USE CurrentThread
<1>1. CASE UNCHANGED vars
  BY <1>1, UnchangedShape DEF vars
<1>2. ASSUME NEW b \in BOOLEAN, PsCreateSystemThreadEx(b) PROVE Unparking
  <2>1. CASE Fails
    BY <2>1, UnchangedShape DEF Fails, vars
  <2>2. CASE ~Fails
    <3>1. /\ count < MaxThreads
          /\ state' = [state EXCEPT ![count] = IF b THEN "Suspended" ELSE "Ready"]
          /\ handles' = handles \cup {ThreadKey(count)}
          /\ UNCHANGED <<block, next_event, next_mutant, event, mutant, header, holds>>
      BY <1>2, <2>2 DEF PsCreateSystemThreadEx
    <3>2. count \in Thread /\ state[count] = "Absent"
      BY SMT, <3>1, BoundsAssumption DEF TypeOK, TableInv, Thread
    <3>3. ThreadKey(count)[1] = "thread" /\ ThreadKey(count)[2] = count
      BY DEF ThreadKey
    <3>4. \A t \in Thread : /\ StillParked(t)
                            /\ state'[t] = "Terminated" <=> state[t] = "Terminated"
      BY <3>1, <3>2 DEF TypeOK, StillParked
    <3> QED
      BY <3>1, <3>2, <3>3, <3>4 DEF Unparking
  <2> QED
    BY <2>1, <2>2
<1>3. ASSUME NEW t \in Thread, NtResumeThread(t) \/ NtSuspendThread(t) PROVE Unparking
  <2>1. CASE Fails
    BY <2>1, UnchangedShape DEF Fails, vars
  <2>2. CASE ~Fails
    <3>0. /\ \/ state' = [state EXCEPT ![t] = IF @ = "Suspended" THEN "Ready" ELSE @]
             \/ state' = [state EXCEPT ![t] = IF @ = "Ready" THEN "Suspended" ELSE @]
          /\ UNCHANGED <<block, objectVars>>
      BY <1>3, <2>2 DEF NtResumeThread, NtSuspendThread
    <3>1. \A u \in Thread : \/ state'[u] = state[u]
                            \/ state[u] \in {"Ready", "Suspended"} /\ state'[u] \in {"Ready", "Suspended"}
      BY <3>0 DEF TypeOK
    <3> QED
      BY <3>0, <3>1 DEF Unparking, StillParked, objectVars
  <2> QED
    BY <2>1, <2>2
<1>4. ASSUME NEW v \in Timeouts, KeDelayExecutionThread(v) PROVE Unparking \/ Parking
  <2>1. CASE Fails
    BY <2>1, UnchangedShape DEF Fails, vars
  <2>2. CASE UNCHANGED <<tableVars, frame, objectVars, elapsed>>
    BY <2>2, UnchangedShape
  <2>3. CASE Park(<< >>, FALSE, Milliseconds(v), STATUS_SUCCESS) /\ UNCHANGED <<frame, objectVars, elapsed>>
    <3>1. Unsatisfied(<< >>, FALSE)
      BY SMT DEF Unsatisfied, Range
    <3> QED
      BY <1>4, <2>3, <3>1, ParkShape DEF KeDelayExecutionThread
  <2> QED
    BY <1>4, <2>1, <2>2, <2>3 DEF KeDelayExecutionThread
<1> QED
  BY <1>1, <1>2, <1>3, <1>4 DEF ThreadCalls, NtYieldExecution

LEMMA RunLoopShape ==
    ASSUME TypeOK, TableInv, RunLoopSteps
    PROVE  Unparking
<1> USE CurrentThread
<1>1. CASE RotateActive
  <2>1. PICK next \in Thread : /\ state[next] = "Ready"
                               /\ state' = [state EXCEPT
                                      ![current] = IF @ = "Running" THEN "Ready" ELSE @,
                                      ![next] = "Running"]
    BY <1>1 DEF RotateActive
  <2>2. UNCHANGED <<block, objectVars>>
    BY <1>1 DEF RotateActive
  <2> QED
    BY <2>1, <2>2 DEF Unparking, StillParked, objectVars, TypeOK
<1>2. CASE ResumeAnyReady
  <2>1. \A t \in Thread : /\ state'[t] = "Waiting" <=> state[t] = "Waiting"
                          /\ state'[t] = "Terminated" <=> state[t] = "Terminated"
    BY <1>2, SwitchWaits DEF ResumeAnyReady, TypeOK
  <2> QED
    BY <1>2, <2>1 DEF ResumeAnyReady, Unparking, StillParked, objectVars
<1>3. ASSUME NEW ms \in 1 .. MaxTime, AdvanceTimers(ms) PROVE Unparking
  BY <1>3 DEF AdvanceTimers, ReadyStates, ClearBlocks, Expired, Unparking, StillParked, objectVars
<1>4. CASE DeliverFrame \/ FinishInterrupt
  BY <1>4, UnchangedShape DEF DeliverFrame, FinishInterrupt
<1> QED
  BY <1>1, <1>2, <1>3, <1>4 DEF RunLoopSteps

LEMMA WaitCallShape ==
    ASSUME TypeOK, TableInv, WaitCalls
    PROVE  \/ Unparking \/ Parking
           \/ \E keys \in SUBSET Handle : Taking(keys)
           \/ \E m \in Mutant : Reacquiring(m)
           \/ \E a \in Address : TakingObject(a)
<1> USE CurrentThread
<1>1. ASSUME NEW h \in Handle, NEW v \in Timeouts, NtWaitForSingleObject(h, v)
      PROVE  \/ Unparking \/ Parking
             \/ \E keys \in SUBSET Handle : Taking(keys)
             \/ \E m \in Mutant : Reacquiring(m)
  <2>0. /\ GuestRuns
        /\ ~MutantMisuse => \A m \in Mutant : MutantKey(m) = h => ~Interrupted /\ state[current] = "Running"
    BY <1>1, SingleRange DEF NtWaitForSingleObject, MutantsProper, GuestRuns
  <2>1. CASE Fails
    BY <2>1, UnchangedShape DEF Fails, vars
  <2>2. CASE /\ h[1] = "mutant" /\ h[2] < next_mutant /\ mutant[h[2]].holder = current
             /\ mutant' = [mutant EXCEPT ![h[2]].recursion = @ + 1]
             /\ holds' = Acquired({h})
             /\ UNCHANGED <<tableVars, frame, handles, next_event, next_mutant,
                            event, header, elapsed>>
    <3>1. h[2] \in Mutant /\ h = MutantKey(h[2])
      BY SMT, <2>2 DEF Handle, MutantKey
    <3> QED
      BY <2>0, <2>2, <3>1 DEF Reacquiring
  <2>3. ASSUME ~(h[1] = "mutant" /\ mutant[h[2]].holder = current), Known(h), SignaledNow(h),
               TakeNow({h}, STATUS_SUCCESS)
        PROVE  Taking({h})
    <3>1. \A m \in Mutant : MutantKey(m) = h => h[1] = "mutant" /\ h[2] = m
      BY SMT DEF MutantKey
    <3> QED
      BY <2>0, <2>3, <3>1 DEF TakeNow, Taking
  <2>4. ASSUME ~(h[1] = "mutant" /\ mutant[h[2]].holder = current), Known(h), ~SignaledNow(h),
               PollOrPark(<<h>>, FALSE, v)
        PROVE  Unparking \/ Parking
    <3>1. \A m \in Mutant : MutantKey(m) = h => h[1] = "mutant" /\ h[2] = m
      BY SMT DEF MutantKey
    <3>2. Unsatisfied(<<h>>, FALSE)
      BY SMT, <2>4, <3>1, SingleRange DEF Unsatisfied
    <3> QED
      BY <2>0, <2>4, <3>2, PollOrParkShape
  <2> QED
    BY <1>1, <2>1, <2>2, <2>3, <2>4 DEF NtWaitForSingleObject
<1>2. ASSUME NEW keys \in MultiKeys, NEW all \in BOOLEAN, NEW v \in Timeouts,
             NtWaitForMultipleObjectsEx(keys, all, v)
      PROVE  Unparking \/ Parking \/ \E s \in SUBSET Handle : Taking(s)
  <2>0. Range(keys) \subseteq Handle /\ \A i \in DOMAIN keys : keys[i] \in Range(keys)
    BY SMT, InputsAssumption DEF Range
  <2>1. /\ GuestRuns
        /\ ~MutantMisuse => \A m \in Mutant : MutantKey(m) \in Range(keys) =>
               ~Interrupted /\ state[current] = "Running" /\ mutant[m].holder # current
    BY <1>2 DEF NtWaitForMultipleObjectsEx, MutantsProper, GuestRuns
  <2>2. CASE Fails
    BY <2>2, UnchangedShape DEF Fails, vars
  <2>3. ASSUME NEW s \in SUBSET Range(keys), NEW status, \A k \in s : SignaledNow(k) /\ Known(k),
               TakeNow(s, status)
        PROVE  Taking(s) /\ s \in SUBSET Handle
    BY <2>0, <2>1, <2>3 DEF TakeNow, Taking
  <2>4. ASSUME \A k \in Range(keys) : Known(k),
               IF all THEN \E k \in Range(keys) : ~SignaledNow(k)
                      ELSE \A k \in Range(keys) : ~SignaledNow(k),
               PollOrPark(keys, all, v)
        PROVE  Unparking \/ Parking
    <3>1. Unsatisfied(keys, all)
      BY <2>0, <2>1, <2>4 DEF Unsatisfied
    <3> QED
      BY <2>1, <2>4, <3>1, PollOrParkShape
  <2>5. ASSUME NEW i \in DOMAIN keys, SignaledNow(keys[i]), \A k \in Range(keys) : Known(k),
               TakeNow({keys[i]}, i - 1)
        PROVE  \E s \in SUBSET Handle : Taking(s)
    <3>1. /\ {keys[i]} \in SUBSET Range(keys)
          /\ \A k \in {keys[i]} : SignaledNow(k) /\ Known(k)
      BY <2>0, <2>5
    <3> QED
      BY <2>3, <2>5, <3>1
  <2>6. ASSUME \A k \in Range(keys) : SignaledNow(k) /\ Known(k), TakeNow(Range(keys), STATUS_SUCCESS)
        PROVE  \E s \in SUBSET Handle : Taking(s)
    BY <2>3, <2>6
  <2> QED
    BY <1>2, <2>2, <2>4, <2>5, <2>6 DEF NtWaitForMultipleObjectsEx
<1>3. ASSUME NEW a \in Address, NEW v \in Timeouts, KeWaitForSingleObject(a, v)
      PROVE  Unparking \/ Parking \/ TakingObject(a)
  <2>1. ASSUME ~header[a].signaled PROVE Unparking \/ Parking
    <3>1. /\ a \notin Handle /\ \A m \in Mutant : a # MutantKey(m)
          /\ ~SignaledNow(a)
      BY SMT, <2>1 DEF Handle, Address, MutantKey, SignaledNow, KeySignaled
    <3>2. Unsatisfied(<<a>>, FALSE)
      BY SMT, <3>1, SingleRange DEF Unsatisfied
    <3> QED
      BY <1>3, <2>1, <3>2, PollOrParkShape DEF KeWaitForSingleObject
  <2> QED
    BY <1>3, <2>1 DEF KeWaitForSingleObject, TakingObject
<1> QED
  BY <1>1, <1>2, <1>3 DEF WaitCalls

(* A signal or an exit: the arbiter wakes W, from tables ev, mu and st.    *)
Taken(key, W) == UNION {Consumed(key, w) : w \in W}

Waking(ev, mu, st, key, wake_all, W) ==
    /\ W \in SUBSET Candidates(key)
    /\ Woken(ev, mu, st, key, wake_all, W)
    /\ event' = ConsumeEvents(ev, Taken(key, W))
    /\ mutant' = ConsumeMutants(mu, Taken(key, W), [k \in Taken(key, W) |-> Taker(W, key, k)])
    /\ \A t \in Thread : state'[t] = "Waiting" =>
          state[t] = "Waiting" /\ t \notin W /\ block'[t] = block[t]
    /\ \A t \in Thread : state'[t] = "Terminated" <=> st[t] = "Terminated"
    /\ UNCHANGED <<handles, next_event, next_mutant>>

LEMMA WakeByKeyShape ==
    ASSUME TypeOK, NEW ev, NEW mu, NEW key, NEW wake_all, NEW W \in SUBSET Candidates(key),
           WakeByKey(ev, mu, key, wake_all, W), UNCHANGED <<handles, next_event, next_mutant>>
    PROVE  Waking(ev, mu, state, key, wake_all, W)
<1>1. /\ Woken(ev, mu, state, key, wake_all, W)
      /\ state' = ReadyStates(state, W)
      /\ block' = ClearBlocks(W)
      /\ event' = ConsumeEvents(ev, Taken(key, W))
      /\ mutant' = ConsumeMutants(mu, Taken(key, W), [k \in Taken(key, W) |-> Taker(W, key, k)])
  BY DEF WakeByKey, Taken
<1>2. \A t \in Thread : state'[t] = "Waiting" =>
         state[t] = "Waiting" /\ t \notin W /\ block'[t] = block[t]
  BY <1>1 DEF ReadyStates, ClearBlocks
<1>3. \A t \in Thread : state'[t] = "Terminated" <=> state[t] = "Terminated"
  BY <1>1 DEF ReadyStates, Candidates
<1> QED
  BY <1>1, <1>2, <1>3 DEF Waking

(* The state table at the moment an exit signals.                          *)
Dead == [state EXCEPT ![current] = "Terminated"]

Exiting(W) ==
    /\ state[current] = "Running"
    /\ Waking(event, mutant, Dead, ThreadKey(current), TRUE, W)
    /\ \A t \in Thread : state'[t] = "Waiting" => t \notin Candidates(KThreadKey(current))
    /\ header' = [header EXCEPT ![KThreadKey(current)].signaled = TRUE]
    /\ holds' = Granted(holds, W, ThreadKey(current))

LEMMA ExitShape ==
    ASSUME TypeOK, TableInv, PsTerminateSystemThread
    PROVE  \E W \in SUBSET Candidates(ThreadKey(current)) : Exiting(W)
<1> DEFINE key == ThreadKey(current)
           kthread == KThreadKey(current)
           joined == Candidates(kthread)
<1>1. PICK W \in SUBSET Candidates(key) :
         /\ Woken(event, mutant, Dead, key, TRUE, W)
         /\ block' = ClearBlocks(W \cup joined)
         /\ event' = ConsumeEvents(event, Taken(key, W))
         /\ mutant' = ConsumeMutants(mutant, Taken(key, W), [k \in Taken(key, W) |-> Taker(W, key, k)])
         /\ holds' = Granted(holds, W, key)
         /\ SwitchToReady(
               ReadyStates(Dead, W \cup joined),
               ReadyContexts(W \cup joined, [t \in W \cup joined |->
                  WakeStatus(IF t \in W THEN key ELSE kthread, t)]), cpu)
  BY DEF PsTerminateSystemThread, Taken, Dead
<1>2. /\ ~Interrupted /\ state[current] = "Running"
      /\ header' = [header EXCEPT ![kthread].signaled = TRUE]
      /\ UNCHANGED <<handles, next_event, next_mutant>>
  BY DEF PsTerminateSystemThread
<1> DEFINE V == W \cup joined
           st == ReadyStates(Dead, V)
<1>3. V \in SUBSET Thread /\ Dead \in [Thread -> States] /\ \A t \in V : state[t] = "Waiting"
  BY DEF Candidates, TypeOK, States, Dead
<1>4. st \in [Thread -> States]
  BY <1>3 DEF ReadyStates, States
<1>5. \A t \in Thread : /\ state'[t] = "Waiting" <=> st[t] = "Waiting"
                        /\ state'[t] = "Terminated" <=> st[t] = "Terminated"
  BY <1>1, <1>4, SwitchWaits
<1>6. \A t \in Thread : state'[t] = "Waiting" =>
         state[t] = "Waiting" /\ t \notin W /\ t \notin joined /\ block'[t] = block[t]
  <2>1. \A t \in Thread : st[t] = "Waiting" => t \notin V /\ Dead[t] = "Waiting"
    BY DEF ReadyStates
  <2>2. \A t \in Thread : Dead[t] = "Waiting" => state[t] = "Waiting"
    BY CurrentThread DEF Dead, TypeOK
  <2>3. \A t \in Thread : t \notin V => block'[t] = block[t]
    BY <1>1 DEF ClearBlocks
  <2> QED
    BY <1>5, <2>1, <2>2, <2>3
<1>7. \A t \in Thread : state'[t] = "Terminated" <=> Dead[t] = "Terminated"
  <2>1. \A t \in V : Dead[t] # "Terminated"
    BY <1>2, <1>3, CurrentThread DEF Dead, TypeOK
  <2> QED
    BY <1>5, <2>1 DEF ReadyStates
<1>8. Waking(event, mutant, Dead, key, TRUE, W)
  BY <1>1, <1>2, <1>6, <1>7 DEF Waking
<1> QED
  BY <1>1, <1>2, <1>6, <1>8 DEF Exiting

(* The kinds of key.                                                       *)
LEMMA KeyKinds ==
    ASSUME NEW k \in Key
    PROVE  /\ k[1] \in {"event", "mutant", "thread", "object", "kthread"}
           /\ k[1] = "event" <=> \E e \in Event : k = EventKey(e)
           /\ k[1] = "mutant" <=> \E m \in Mutant : k = MutantKey(m)
           /\ k[1] = "thread" <=> \E t \in Thread : k = ThreadKey(t)
           /\ k[1] = "kthread" <=> \E t \in Thread : k = KThreadKey(t)
           /\ k[1] = "object" <=> \E o \in Object : k = ObjectKey(o)
           /\ k \in Handle <=> k[1] \in {"event", "mutant", "thread"}
           /\ k \in Address <=> k[1] \in {"object", "kthread"}
  BY SMT DEF Key, Handle, Address, EventKey, MutantKey, ThreadKey, KThreadKey, ObjectKey

LEMMA KeyParts ==
    \A x : /\ EventKey(x)[1] = "event" /\ EventKey(x)[2] = x
          /\ MutantKey(x)[1] = "mutant" /\ MutantKey(x)[2] = x
          /\ ThreadKey(x)[1] = "thread" /\ ThreadKey(x)[2] = x
          /\ KThreadKey(x)[1] = "kthread" /\ KThreadKey(x)[2] = x
          /\ ObjectKey(x)[1] = "object" /\ ObjectKey(x)[2] = x
  BY DEF EventKey, MutantKey, ThreadKey, KThreadKey, ObjectKey

LEMMA SignaledCases ==
    ASSUME NEW ev, NEW mu, NEW st, NEW k, NEW t
    PROVE  /\ k[1] = "event" =>
                 (KeySignaled(ev, mu, st, k, t) <=> ev[k[2]].live /\ ev[k[2]].signaled)
           /\ k[1] = "mutant" =>
                 (KeySignaled(ev, mu, st, k, t) <=> mu[k[2]].holder \in {Nobody, t})
           /\ k[1] = "thread" =>
                 (KeySignaled(ev, mu, st, k, t) <=> k \in handles /\ st[k[2]] = "Terminated")
           /\ k[1] \in {"object", "kthread"} =>
                 (KeySignaled(ev, mu, st, k, t) <=> header[k].signaled)
  BY DEF KeySignaled

LEMMA KnownCases ==
    ASSUME NEW k
    PROVE  /\ k[1] = "event" => (Known(k) <=> event[k[2]].live)
           /\ k[1] = "mutant" => (Known(k) <=> k[2] < next_mutant)
           /\ k[1] = "thread" => (Known(k) <=> k \in handles)
  BY DEF Known

(* The object calls: closing an event, the inner releases of a mutant, and *)
(* the three signals.                                                      *)
Closing(e) ==
    /\ event' = [event EXCEPT ![e].live = FALSE]
    /\ UNCHANGED <<tableVars, handles, next_event, next_mutant, mutant, header, holds>>

Dropped(m) == [holds EXCEPT ![m][current] = IF @ > 0 THEN @ - 1 ELSE 0]
Freed(m) == [mutant EXCEPT ![m] = [holder |-> Nobody, recursion |-> 0]]

Releasing(m) ==
    /\ m < next_mutant /\ mutant[m].holder = current /\ mutant[m].recursion > 1
    /\ mutant' = [mutant EXCEPT ![m].recursion = mutant[m].recursion - 1]
    /\ holds' = Dropped(m)
    /\ UNCHANGED <<tableVars, handles, next_event, next_mutant, event, header>>

Handing(m, W) ==
    /\ m < next_mutant /\ mutant[m].holder = current /\ mutant[m].recursion <= 1
    /\ Waking(event, Freed(m), state, MutantKey(m), FALSE, W)
    /\ holds' = Granted(Dropped(m), W, MutantKey(m))
    /\ header' = header

Raised(e) == [event EXCEPT ![e].signaled = TRUE]

Signaling(e, W) ==
    /\ event[e].live
    /\ Waking(Raised(e), mutant, state, EventKey(e), event[e].manual, W)
    /\ holds' = Granted(holds, W, EventKey(e))
    /\ header' = header

SignalingObject(o, W) ==
    LET a == ObjectKey(o)
    IN /\ Waking(event, mutant, state, a, ~header[a].auto, W)
       /\ header' = [header EXCEPT ![a].signaled = ~(header[a].auto /\ W # {})]
       /\ holds' = holds

LEMMA ObjectCallShape ==
    ASSUME TypeOK, TableInv, ObjectCalls
    PROVE  \/ Unparking
           \/ \E manual, signaled \in BOOLEAN : NtCreateEvent(manual, signaled)
           \/ \E owned \in BOOLEAN : NtCreateMutant(owned)
           \/ \E e \in Event : Closing(e)
           \/ \E m \in Mutant : Releasing(m)
           \/ \E m \in Mutant : \E W \in SUBSET Thread : Handing(m, W)
           \/ \E e \in Event : \E W \in SUBSET Thread : Signaling(e, W)
           \/ \E o \in Object : \E W \in SUBSET Thread : SignalingObject(o, W)
<1>0. \A key : Candidates(key) \subseteq Thread
  BY DEF Candidates
<1>1. CASE Fails
  BY <1>1, UnchangedShape DEF Fails, vars
<1>2. ASSUME NEW h \in Handle, NtClose(h), ~Fails
      PROVE  Unparking \/ \E e \in Event : Closing(e)
  <2>1. CASE h \in handles
    <3>1. /\ handles' = handles \ {h} /\ UNCHANGED tableVars
          /\ UNCHANGED <<next_event, next_mutant, event, mutant, header, holds>>
      BY <1>2, <2>1 DEF NtClose
    <3> QED
      BY <3>1 DEF Unparking, StillParked, tableVars
  <2>2. CASE h \notin handles
    <3>1. /\ h[1] = "event" /\ event' = [event EXCEPT ![h[2]].live = FALSE]
          /\ UNCHANGED <<tableVars, handles, next_event, next_mutant, mutant, header, holds>>
      BY <1>2, <2>2 DEF NtClose
    <3>2. h[2] \in Event
      BY <3>1 DEF Handle
    <3> QED
      BY <3>1, <3>2 DEF Closing
  <2> QED
    BY <2>1, <2>2
<1>3. ASSUME NEW m \in Mutant, NtReleaseMutant(m), ~Fails
      PROVE  Releasing(m) \/ \E W \in SUBSET Thread : Handing(m, W)
  <2>1. mutant[m].recursion \in Nat
    BY DEF TypeOK
  <2>2. CASE mutant[m].recursion - 1 > 0
    <3>1. /\ m < next_mutant /\ mutant[m].holder = current
          /\ mutant' = [mutant EXCEPT ![m].recursion = mutant[m].recursion - 1]
          /\ holds' = Dropped(m)
          /\ UNCHANGED <<tableVars, processorVars, handles, next_event, next_mutant,
                         event, header, elapsed>>
      <4>1. ~(mutant[m].recursion - 1 <= 0)
        BY SMT, <2>1, <2>2
      <4> QED
        BY <1>3, <4>1 DEF NtReleaseMutant, Dropped
    <3> QED
      BY SMT, <2>1, <2>2, <3>1 DEF Releasing
  <2>3. CASE ~(mutant[m].recursion - 1 > 0)
    <3>1. /\ m < next_mutant /\ mutant[m].holder = current
          /\ UNCHANGED <<handles, next_event, next_mutant, header>>
      BY <1>3, <2>1, <2>3 DEF NtReleaseMutant
    <3>2. PICK W \in SUBSET Candidates(MutantKey(m)) :
             /\ WakeByKey(event, Freed(m), MutantKey(m), FALSE, W)
             /\ holds' = Granted(Dropped(m), W, MutantKey(m))
      BY <1>3, <2>1, <2>3 DEF NtReleaseMutant, Freed, Dropped
    <3>3. Waking(event, Freed(m), state, MutantKey(m), FALSE, W)
      BY <3>1, <3>2, WakeByKeyShape
    <3>4. W \in SUBSET Thread /\ mutant[m].recursion <= 1
      BY SMT, <1>0, <2>1, <2>3, <3>2
    <3> QED
      BY <3>1, <3>2, <3>3, <3>4 DEF Handing
  <2> QED
    BY <2>2, <2>3
<1>4. ASSUME NEW e \in Event, NtSetEvent(e), ~Fails
      PROVE  \E W \in SUBSET Thread : Signaling(e, W)
  <2>1. event[e].live /\ UNCHANGED <<handles, next_event, next_mutant, header>>
    BY <1>4 DEF NtSetEvent
  <2>2. PICK W \in SUBSET Candidates(EventKey(e)) :
           /\ WakeByKey(Raised(e), mutant, EventKey(e), event[e].manual, W)
           /\ holds' = Granted(holds, W, EventKey(e))
    BY <1>4 DEF NtSetEvent, Raised
  <2>3. Waking(Raised(e), mutant, state, EventKey(e), event[e].manual, W)
    BY <2>1, <2>2, WakeByKeyShape
  <2> QED
    BY <1>0, <2>1, <2>2, <2>3 DEF Signaling
<1>5. ASSUME NEW o \in Object, KeSetEvent(o)
      PROVE  \E W \in SUBSET Thread : SignalingObject(o, W)
  <2> DEFINE a == ObjectKey(o)
  <2>1. UNCHANGED <<handles, next_event, next_mutant, holds>>
    BY <1>5 DEF KeSetEvent
  <2>2. PICK W \in SUBSET Candidates(a) :
           /\ WakeByKey(event, mutant, a, ~header[a].auto, W)
           /\ header' = [header EXCEPT ![a].signaled = ~(header[a].auto /\ W # {})]
    BY <1>5 DEF KeSetEvent
  <2> HIDE DEF a
  <2>3. Waking(event, mutant, state, a, ~header[a].auto, W)
    BY <2>1, <2>2, WakeByKeyShape
  <2> QED
    BY <1>0, <2>1, <2>2, <2>3 DEF SignalingObject, a
<1> QED
  BY <1>1, <1>2, <1>3, <1>4, <1>5 DEF ObjectCalls

(* Every step is of one of these kinds.                                    *)
LEMMA StepKinds ==
    ASSUME TypeOK, TableInv, [Next]_vars
    PROVE  \/ Unparking \/ Parking
           \/ \E keys \in SUBSET Handle : Taking(keys)
           \/ \E m \in Mutant : Reacquiring(m)
           \/ \E a \in Address : TakingObject(a)
           \/ \E manual, signaled \in BOOLEAN : NtCreateEvent(manual, signaled)
           \/ \E owned \in BOOLEAN : NtCreateMutant(owned)
           \/ \E e \in Event : Closing(e)
           \/ \E m \in Mutant : Releasing(m)
           \/ \E m \in Mutant : \E W \in SUBSET Thread : Handing(m, W)
           \/ \E e \in Event : \E W \in SUBSET Thread : Signaling(e, W)
           \/ \E o \in Object : \E W \in SUBSET Thread : SignalingObject(o, W)
           \/ \E W \in SUBSET Thread : Exiting(W)
<1>1. CASE UNCHANGED vars
  BY <1>1, UnchangedShape DEF vars
<1>2. CASE ThreadCalls
  <2>1. Candidates(ThreadKey(current)) \subseteq Thread
    BY DEF Candidates
  <2> QED
    BY <1>2, <2>1, ThreadCallShape, ExitShape
<1>3. CASE ObjectCalls
  BY <1>3, ObjectCallShape
<1>4. CASE WaitCalls
  BY <1>4, WaitCallShape
<1>5. CASE RunLoopSteps
  BY <1>5, RunLoopShape
<1> QED
  BY <1>1, <1>2, <1>3, <1>4, <1>5 DEF Next

-----------------------------------------------------------------------------
(* Joins.                                                                  *)
LEMMA JoinKept ==
    ASSUME JoinInv, \A t \in Thread : StillParked(t),
           \A t \in Thread : state'[t] = "Terminated" <=> state[t] = "Terminated",
           \A t \in Thread : /\ ~header'[KThreadKey(t)].auto
                             /\ header[KThreadKey(t)].signaled => header'[KThreadKey(t)].signaled
    PROVE  JoinInv'
<1>1. ExitSignaled'
  BY DEF JoinInv, ExitSignaled
<1>2. NoLostJoin'
  BY DEF JoinInv, NoLostJoin, StillParked
<1> QED
  BY <1>1, <1>2 DEF JoinInv

LEMMA JoinParking ==
    ASSUME TypeOK, JoinInv, Parking
    PROVE  JoinInv'
<1>0. current \in Thread /\ header' = header
  BY CurrentThread DEF Parking, objectVars
<1>1. ExitSignaled'
  BY <1>0 DEF JoinInv, ExitSignaled, Parking
<1>2. ASSUME NEW t \in Thread, NEW u \in Thread, state'[t] = "Waiting", ~block'[t].all,
             {ThreadKey(u), KThreadKey(u)} \cap Range(block'[t].keys) # {}
      PROVE  state[u] # "Terminated"
  <2>1. CASE t # current
    BY <1>2, <2>1 DEF Parking, StillParked, JoinInv, NoLostJoin
  <2>2. CASE t = current
    <3> DEFINE keys == Range(block'[current].keys)
    <3>1. \A k \in keys : ~SignaledNow(k) /\ (k \in Handle => Known(k))
      BY <1>2, <2>2 DEF Parking, Unsatisfied
    <3>2. CASE ThreadKey(u) \in keys
      <4>1. ThreadKey(u) \in handles
        BY <3>1, <3>2, KeyTypes, KeyParts, KnownCases
      <4> QED
        BY SMT, <3>1, <3>2, <4>1, KeyParts, SignaledCases DEF SignaledNow
    <3>3. CASE KThreadKey(u) \in keys
      <4>1. ~header[KThreadKey(u)].signaled
        BY SMT, <3>1, <3>3, KeyParts, SignaledCases DEF SignaledNow
      <4> QED
        BY <4>1 DEF JoinInv, ExitSignaled
    <3> QED
      BY <1>2, <2>2, <3>2, <3>3
  <2> QED
    BY <2>1, <2>2
<1>3. NoLostJoin'
  BY <1>2 DEF NoLostJoin, Parking
<1> QED
  BY <1>1, <1>3 DEF JoinInv

(* An exit wakes everyone who joins the thread, by handle or by control    *)
(* block: no later wake would.                                             *)
LEMMA JoinExit ==
    ASSUME TypeOK, JoinInv, NEW W, Exiting(W)
    PROVE  JoinInv'
<1> DEFINE key == ThreadKey(current)
           kthread == KThreadKey(current)
<1>0. current \in Thread /\ kthread \in Address
      /\ header \in [Address -> [auto : BOOLEAN, signaled : BOOLEAN]]
  BY CurrentThread, KeyTypes DEF TypeOK
<1>1. \A t \in Thread : state'[t] = "Terminated" <=> state[t] = "Terminated" \/ t = current
  BY <1>0 DEF Exiting, Waking, Dead, TypeOK
<1>2. \A t \in Thread : /\ header'[KThreadKey(t)].auto = header[KThreadKey(t)].auto
                        /\ header[KThreadKey(t)].signaled \/ t = current => header'[KThreadKey(t)].signaled
  <2>1. header' = [header EXCEPT ![kthread].signaled = TRUE]
    BY DEF Exiting
  <2> HIDE DEF kthread
  <2>2. \A a \in Address : header'[a].auto = header[a].auto /\ (header[a].signaled \/ a = kthread => header'[a].signaled)
    BY <1>0, <2>1
  <2> QED
    BY <2>2, KeyTypes DEF kthread
<1>3. ExitSignaled'
  BY <1>1, <1>2 DEF JoinInv, ExitSignaled
<1>4. ASSUME NEW t \in Thread, NEW u \in Thread, state'[t] = "Waiting", ~block'[t].all,
             {ThreadKey(u), KThreadKey(u)} \cap Range(block'[t].keys) # {}
      PROVE  state'[u] # "Terminated"
  <2>1. state[t] = "Waiting" /\ block'[t] = block[t] /\ t \notin W /\ t \notin Candidates(kthread)
    BY <1>4 DEF Exiting, Waking
  <2>2. state[u] # "Terminated"
    BY <1>4, <2>1 DEF JoinInv, NoLostJoin
  <2>3. CASE u = current
    <3>1. t \in Candidates(key) \/ t \in Candidates(kthread)
      BY <1>4, <2>1, <2>3 DEF Candidates
    <3>2. ASSUME t \in Candidates(key) PROVE t \in W
      BY <1>4, <2>1, <3>2 DEF Exiting, Waking, Woken, Satisfied
    <3> QED
      BY <2>1, <3>1, <3>2
  <2> QED
    BY <1>1, <2>2, <2>3
<1>5. NoLostJoin'
  BY <1>4 DEF NoLostJoin
<1> QED
  BY <1>3, <1>5 DEF JoinInv

LEMMA JoinStep ==
    ASSUME TypeOK, TableInv, JoinInv, [Next]_vars
    PROVE  JoinInv'
<1>0. \A t \in Thread : KThreadKey(t) \in Address
  BY KeyTypes
<1>1. ASSUME \A t \in Thread : StillParked(t), header' = header,
             \A t \in Thread : state'[t] = "Terminated" <=> state[t] = "Terminated"
      PROVE  JoinInv'
  BY <1>1, JoinKept DEF JoinInv, ExitSignaled
<1>2. UNCHANGED tableVars => /\ \A t \in Thread : StillParked(t)
                             /\ \A t \in Thread : state'[t] = "Terminated" <=> state[t] = "Terminated"
  BY DEF tableVars, StillParked
<1>3. \A ev, mu, key, wake_all, W : Waking(ev, mu, state, key, wake_all, W) =>
         /\ \A t \in Thread : StillParked(t)
         /\ \A t \in Thread : state'[t] = "Terminated" <=> state[t] = "Terminated"
  BY DEF Waking, StillParked
<1>4. ASSUME NEW a \in Address, TakingObject(a) PROVE JoinInv'
  <2>1. \A t \in Thread : /\ ~header'[KThreadKey(t)].auto
                          /\ header[KThreadKey(t)].signaled => header'[KThreadKey(t)].signaled
    BY <1>0, <1>4, ObjectTypes DEF TakingObject, JoinInv, ExitSignaled
  <2> QED
    BY <1>2, <1>4, <2>1, JoinKept DEF TakingObject
<1>5. ASSUME NEW o \in Object, NEW W, SignalingObject(o, W) PROVE JoinInv'
  <2>1. \A t \in Thread : ObjectKey(o) # KThreadKey(t)
    BY DEF ObjectKey, KThreadKey
  <2>2. \A t \in Thread : header'[KThreadKey(t)] = header[KThreadKey(t)]
    BY <1>0, <1>5, <2>1, ObjectTypes DEF SignalingObject
  <2>3. \A t \in Thread : ~header[KThreadKey(t)].auto
    BY DEF JoinInv, ExitSignaled
  <2>4. /\ \A t \in Thread : StillParked(t)
        /\ \A t \in Thread : state'[t] = "Terminated" <=> state[t] = "Terminated"
    BY <1>3, <1>5 DEF SignalingObject
  <2> QED
    BY <2>2, <2>3, <2>4, JoinKept
<1>6. ASSUME Unparking PROVE JoinInv'
  BY <1>1, <1>6 DEF Unparking
<1>7. ASSUME NEW keys, Taking(keys) PROVE JoinInv'
  BY <1>1, <1>2, <1>7 DEF Taking
<1>8. ASSUME NEW m, Reacquiring(m) \/ Releasing(m) PROVE JoinInv'
  BY <1>1, <1>2, <1>8 DEF Reacquiring, Releasing
<1>9. ASSUME NEW x, NEW y, NtCreateEvent(x, y) \/ NtCreateMutant(x) \/ Closing(x) PROVE JoinInv'
  BY <1>1, <1>2, <1>9 DEF NtCreateEvent, NtCreateMutant, Closing
<1>10. ASSUME NEW x, NEW W, Handing(x, W) \/ Signaling(x, W) PROVE JoinInv'
  BY <1>1, <1>3, <1>10 DEF Handing, Signaling
<1> QED
  BY <1>4, <1>5, <1>6, <1>7, <1>8, <1>9, <1>10, StepKinds, JoinParking, JoinExit

LEMMA InitJoin == Init => JoinInv
<1> SUFFICES ASSUME Init PROVE JoinInv
  OBVIOUS
<1>1. \A t \in Thread : state[t] \in {"Running", "Absent"}
  BY DEF Init
<1> QED
  BY <1>1 DEF Init, JoinInv, ExitSignaled, NoLostJoin

-----------------------------------------------------------------------------
(* Names.                                                                  *)
LEMMA ConsumedEvents ==
    ASSUME NEW ev \in EventTable, NEW keys, NEW e \in Event
    PROVE  /\ ConsumeEvents(ev, keys)[e].live = ev[e].live
           /\ ConsumeEvents(ev, keys)[e].manual = ev[e].manual
           /\ ConsumeEvents(ev, keys)[e].signaled => ev[e].signaled
           /\ EventKey(e) \in keys /\ ~ev[e].manual => ~ConsumeEvents(ev, keys)[e].signaled
           /\ ev[e].manual => ConsumeEvents(ev, keys)[e] = ev[e]
<1>1. ev[e] \in [live : BOOLEAN, manual : BOOLEAN, signaled : BOOLEAN]
  BY DEF EventTable
<1>2. CASE EventKey(e) \in keys /\ ~ev[e].manual
  <2>1. ConsumeEvents(ev, keys)[e] = [ev[e] EXCEPT !.signaled = FALSE]
    BY <1>2 DEF ConsumeEvents
  <2> QED
    BY <1>1, <1>2, <2>1
<1>3. CASE ~(EventKey(e) \in keys /\ ~ev[e].manual)
  BY <1>3 DEF ConsumeEvents
<1> QED
  BY <1>2, <1>3

LEMMA NamesKept ==
    ASSUME TypeOK, NamesInv, \A t \in Thread : StillParked(t),
           next_event' \in Nat, next_event' >= next_event,
           next_mutant' \in Nat, next_mutant' >= next_mutant,
           \A e \in Event : event'[e].live => e < next_event'
    PROVE  NamesInv'
<1>1. ASSUME NEW t \in Thread, state'[t] = "Waiting", NEW k \in Range(block'[t].keys)
      PROVE  /\ k[1] = "event" => k[2] < next_event'
             /\ k[1] = "mutant" => k[2] < next_mutant'
             /\ block'[t].all => k \in Handle
  <2>1. state[t] = "Waiting" /\ block'[t] = block[t]
    BY <1>1 DEF StillParked
  <2>2. /\ k[1] = "event" => k[2] < next_event
        /\ k[1] = "mutant" => k[2] < next_mutant
        /\ block[t].all => k \in Handle
    BY <1>1, <2>1 DEF NamesInv, BlockNames
  <2>3. k \in Key
    BY SMT, <1>1, <2>1 DEF TypeOK, WaitBlock, Range
  <2>4. k[1] = "event" \/ k[1] = "mutant" => k[2] \in Int
    BY SMT, <2>3, KeyKinds, KeyParts DEF Event, Mutant
  <2> QED
    BY SMT, <2>1, <2>2, <2>4 DEF TypeOK
<1> QED
  BY <1>1 DEF NamesInv, BlockNames, LiveCreated

LEMMA NamesParking ==
    ASSUME TypeOK, TypeOK', NamesInv, Parking
    PROVE  NamesInv'
<1>0. current \in Thread /\ UNCHANGED <<event, next_event, next_mutant>>
  BY CurrentThread DEF Parking, objectVars
<1>1. ASSUME NEW t \in Thread, state'[t] = "Waiting", NEW k \in Range(block'[t].keys)
      PROVE  /\ k[1] = "event" => k[2] < next_event
             /\ k[1] = "mutant" => k[2] < next_mutant
             /\ block'[t].all => k \in Handle
  <2>1. CASE t # current
    BY <1>1, <2>1 DEF Parking, StillParked, NamesInv, BlockNames
  <2>2. CASE t = current
    <3>1. k \in Key
      BY SMT, <1>1 DEF TypeOK, WaitBlock, Range
    <3>2. /\ k \in Handle => Known(k)
          /\ block'[t].all => k \in Handle
      BY <1>1, <2>2 DEF Parking, Unsatisfied
    <3>3. /\ k[1] = "event" => k[2] \in Event /\ event[k[2]].live
          /\ k[1] = "mutant" => k[2] < next_mutant
      BY SMT, <3>1, <3>2, KeyKinds, KeyParts, KnownCases
    <3> QED
      BY <3>2, <3>3 DEF NamesInv, LiveCreated
  <2> QED
    BY <2>1, <2>2
<1> QED
  BY <1>0, <1>1 DEF NamesInv, BlockNames, LiveCreated

LEMMA NamesWaking ==
    ASSUME TypeOK, NamesInv, NEW ev \in EventTable, NEW mu, NEW st, NEW key, NEW wake_all, NEW W,
           Waking(ev, mu, st, key, wake_all, W),
           \A e \in Event : ev[e].live = event[e].live
    PROVE  NamesInv'
<1>1. \A e \in Event : event'[e].live = event[e].live
  BY SMT, ConsumedEvents DEF Waking
<1>2. \A t \in Thread : StillParked(t)
  BY DEF Waking, StillParked
<1>3. /\ next_event' = next_event /\ next_mutant' = next_mutant
      /\ next_event \in Nat /\ next_mutant \in Nat
  BY SMT DEF Waking, TypeOK
<1>4. \A e \in Event : event'[e].live => e < next_event'
  BY <1>1, <1>3 DEF NamesInv, LiveCreated
<1> QED
  BY SMT, <1>2, <1>3, <1>4, NamesKept

LEMMA NamesStep ==
    ASSUME TypeOK, TypeOK', TableInv, NamesInv, [Next]_vars
    PROVE  NamesInv'
<1>0. /\ next_event \in Nat /\ next_mutant \in Nat /\ event \in EventTable
      /\ \A e \in Event : event[e].live => e < next_event
  BY SMT, ObjectTypes DEF TypeOK, NamesInv, LiveCreated
<1>1. ASSUME \A t \in Thread : StillParked(t), UNCHANGED <<next_event, next_mutant>>,
             \A e \in Event : event'[e].live => event[e].live
      PROVE  NamesInv'
  BY SMT, <1>0, <1>1, NamesKept
<1>2. UNCHANGED tableVars => \A t \in Thread : StillParked(t)
  BY DEF tableVars, StillParked
<1>3. CASE Unparking
  BY <1>1, <1>3 DEF Unparking
<1>4. ASSUME NEW keys, Taking(keys) PROVE NamesInv'
  BY SMT, <1>0, <1>1, <1>2, <1>4, ConsumedEvents DEF Taking
<1>5. ASSUME NEW x, Reacquiring(x) \/ Releasing(x) \/ TakingObject(x) PROVE NamesInv'
  BY <1>1, <1>2, <1>5 DEF Reacquiring, Releasing, TakingObject
<1>6. ASSUME NEW e \in Event, Closing(e) PROVE NamesInv'
  <2>1. \A x \in Event : event'[x].live => event[x].live
    BY <1>0, <1>6 DEF Closing, EventTable
  <2> QED
    BY <1>1, <1>2, <1>6, <2>1 DEF Closing
<1>7. ASSUME NEW manual \in BOOLEAN, NEW signaled \in BOOLEAN, NtCreateEvent(manual, signaled) PROVE NamesInv'
  <2>1. /\ next_event' = next_event + 1 /\ next_mutant' = next_mutant
        /\ \A e \in Event : e # next_event => event'[e] = event[e]
        /\ UNCHANGED tableVars
    BY <1>0, <1>7 DEF NtCreateEvent, EventTable
  <2>2. \A e \in Event : event'[e].live => e < next_event'
    BY SMT, <1>0, <2>1, BoundsAssumption DEF Event
  <2> QED
    BY SMT, <1>0, <1>2, <2>1, <2>2, NamesKept
<1>8. ASSUME NEW owned, NtCreateMutant(owned) PROVE NamesInv'
  <2>1. /\ next_event' = next_event /\ next_mutant' = next_mutant + 1
        /\ event' = event /\ UNCHANGED tableVars
    BY <1>8 DEF NtCreateMutant
  <2> QED
    BY SMT, <1>0, <1>2, <2>1, NamesKept
<1>9. ASSUME NEW m, NEW W, Handing(m, W) PROVE NamesInv'
  BY <1>0, <1>9, NamesWaking DEF Handing
<1>10. ASSUME NEW e \in Event, NEW W, Signaling(e, W) PROVE NamesInv'
  <2>1. Raised(e) \in EventTable /\ \A x \in Event : Raised(e)[x].live = event[x].live
    BY <1>0 DEF Raised, EventTable
  <2> QED
    BY <1>10, <2>1, NamesWaking DEF Signaling
<1>11. ASSUME NEW o, NEW W, SignalingObject(o, W) PROVE NamesInv'
  BY <1>0, <1>11, NamesWaking DEF SignalingObject
<1>12. ASSUME NEW W, Exiting(W) PROVE NamesInv'
  BY <1>0, <1>12, NamesWaking DEF Exiting
<1> QED
  BY <1>3, <1>4, <1>5, <1>6, <1>7, <1>8, <1>9, <1>10, <1>11, <1>12, StepKinds, NamesParking

-----------------------------------------------------------------------------
(* Mutants.  A wake hands a free mutant to one thread only.                *)

(* With wake_all false at most one thread wakes.                           *)
LEMMA WokenSingle ==
    ASSUME NEW ev, NEW mu, NEW st, NEW key, NEW W, Woken(ev, mu, st, key, FALSE, W),
           NEW t \in W, NEW u \in W
    PROVE  t = u
<1>1. t \in Thread /\ u \in Thread /\ t <= u /\ u <= t
  BY DEF Woken, Candidates
<1> QED
  BY SMT, <1>1, BoundsAssumption DEF Thread

(* What a woken thread consumes was free, ...                              *)
LEMMA TakenFree ==
    ASSUME NoSelfWait, NEW ev, NEW mu, NEW st, NEW key, NEW wake_all, NEW W,
           Woken(ev, mu, st, key, wake_all, W),
           \A m \in Mutant : mu[m].holder \in {Nobody, mutant[m].holder},
           \A m \in Mutant : key = MutantKey(m) => mu[m].holder = Nobody,
           NEW m \in Mutant, NEW w \in W, MutantKey(m) \in Consumed(key, w)
    PROVE  mu[m].holder = Nobody
<1>1. w \in Candidates(key) /\ w \in Thread /\ state[w] = "Waiting" /\ Satisfied(ev, mu, st, W, key, w)
  BY DEF Woken, Candidates
<1>2. CASE block[w].all
  <2>1. MutantKey(m) \in Range(block[w].keys)
    BY <1>2 DEF Consumed
  <2>2. mu[m].holder \in {Nobody, w}
    <3>1. KeySignaled(ev, mu, st, MutantKey(m), w)
      BY <1>1, <1>2, <2>1 DEF Satisfied
    <3> QED
      BY SMT, <3>1, KeyParts, SignaledCases
  <2>3. mutant[m].holder # w
    BY <1>1, <2>1 DEF NoSelfWait
  <2> QED
    BY <2>2, <2>3
<1>3. CASE ~block[w].all
  BY <1>3 DEF Consumed
<1> QED
  BY <1>2, <1>3

(* ... and nobody else consumes it.                                        *)
LEMMA OneTaker ==
    ASSUME NoSelfWait, NEW ev, NEW mu, NEW st, NEW key, NEW wake_all \in BOOLEAN, NEW W,
           Woken(ev, mu, st, key, wake_all, W),
           \A m \in Mutant : mu[m].holder \in {Nobody, mutant[m].holder},
           \A m \in Mutant : key = MutantKey(m) => mu[m].holder = Nobody /\ ~wake_all,
           NEW m \in Mutant, NEW w \in W, NEW x \in W,
           MutantKey(m) \in Consumed(key, w), MutantKey(m) \in Consumed(key, x)
    PROVE  w = x
<1>1. CASE wake_all = FALSE
  BY <1>1, WokenSingle
<1>2. CASE wake_all
  <2>1. \A y \in W : MutantKey(m) \in Consumed(key, y) =>
           block[y].all /\ MutantKey(m) \in Range(block[y].keys)
    BY <1>2 DEF Consumed
  <2>2. ASSUME NEW y \in W, NEW z \in W, y < z, MutantKey(m) \in Consumed(key, y),
               MutantKey(m) \in Consumed(key, z)
        PROVE  FALSE
    <3>1. MutantKey(m) \in TakenBefore(W, key, z)
      BY <2>2 DEF TakenBefore
    <3>2. Satisfied(ev, mu, st, W, key, z)
      BY DEF Woken
    <3>3. ~Exclusive(ev, mu, MutantKey(m))
      BY <2>1, <2>2, <3>1, <3>2 DEF Satisfied
    <3>4. mu[m].holder = Nobody
      BY SMT, <2>2, TakenFree
    <3> QED
      BY <3>3, <3>4, KeyParts DEF Exclusive
  <2>3. w \in Thread /\ x \in Thread
    BY DEF Woken, Candidates
  <2>4. w < x \/ x < w \/ w = x
    BY SMT, <2>3, BoundsAssumption DEF Thread
  <2> QED
    BY <2>2, <2>4
<1> QED
  BY <1>1, <1>2

(* The mutants after the wake: what was taken was free and is now a woken  *)
(* thread's.                                                               *)
HandedOver(mu, key, W) ==
    \A m \in Mutant : IF MutantKey(m) \in Taken(key, W)
                      THEN mu[m].holder = Nobody /\ mutant'[m].holder \in W
                      ELSE mutant'[m] = mu[m]

LEMMA WakingMutants ==
    ASSUME TypeOK, NamesInv, LaterFree, NoSelfWait,
           NEW ev, NEW mu \in MutantTable, NEW st, NEW h \in [Mutant -> [Thread -> Nat]],
           NEW key, NEW wake_all \in BOOLEAN, NEW W, Waking(ev, mu, st, key, wake_all, W),
           Accounts(mu, h),
           \A m \in Mutant : mu[m].holder \in {Nobody, mutant[m].holder},
           \A m \in Mutant : key = MutantKey(m) => mu[m].holder = Nobody /\ ~wake_all
    PROVE  /\ HandedOver(mu, key, W)
           /\ Accounts(mutant', Granted(h, W, key))
           /\ LaterFree' /\ NoSelfWait'
<1>0. W \in SUBSET Thread /\ Woken(ev, mu, st, key, wake_all, W) /\ Nobody \notin Thread
  BY SMT, BoundsAssumption DEF Waking, Candidates, Thread, Nobody
<1>1. ASSUME NEW m \in Mutant, NEW w \in W, MutantKey(m) \in Consumed(key, w)
      PROVE  /\ mu[m].holder = Nobody
             /\ mutant'[m].holder = w /\ mutant'[m].recursion = 1
             /\ \A t \in Thread : Granted(h, W, key)[m][t] = IF t = w THEN 1 ELSE 0
             /\ m < next_mutant
  <2>1. mu[m].holder = Nobody /\ MutantKey(m) \in Taken(key, W)
    BY SMT, <1>0, <1>1, TakenFree DEF Taken
  <2>2. \A x \in W : MutantKey(m) \in Consumed(key, x) => x = w
    BY SMT, <1>0, <1>1, OneTaker
  <2>3. Taker(W, key, MutantKey(m)) = w
    BY <2>1, <2>2, TakerType DEF Taken
  <2>4. mutant'[m] = [holder |-> w, recursion |-> 1]
    BY <2>1, <2>3 DEF Waking, ConsumeMutants
  <2>5. \A t \in Thread : h[m][t] = 0
    BY <1>0, <2>1 DEF Accounts
  <2>6. \A t \in Thread : Granted(h, W, key)[m][t] = IF t = w THEN 1 ELSE 0
    BY SMT, <1>0, <1>1, <2>2, <2>5 DEF Granted
  <2>7. m < next_mutant
    <3>1. w \in Thread /\ state[w] = "Waiting" /\ key \in Range(block[w].keys)
      BY DEF Waking, Candidates
    <3>2. MutantKey(m) \in Range(block[w].keys)
      BY <1>1, <3>1 DEF Consumed
    <3> QED
      BY SMT, <3>1, <3>2, KeyParts DEF NamesInv, BlockNames
  <2> QED
    BY SMT, <2>1, <2>4, <2>6, <2>7
<1>2. ASSUME NEW m \in Mutant, MutantKey(m) \notin Taken(key, W)
      PROVE  mutant'[m] = mu[m] /\ Granted(h, W, key)[m] = h[m]
  <2>1. \A w \in W : MutantKey(m) \notin Consumed(key, w)
    BY <1>2 DEF Taken
  <2>2. mutant'[m] = mu[m]
    BY <1>2 DEF Waking, ConsumeMutants
  <2>3. Granted(h, W, key)[m] = [t \in Thread |-> h[m][t]]
    BY <2>1 DEF Granted
  <2> QED
    BY <2>2, <2>3
<1>3. \A m \in Mutant : MutantKey(m) \in Taken(key, W) => \E w \in W : MutantKey(m) \in Consumed(key, w)
  BY DEF Taken
<1>4. \A m \in Mutant : IF MutantKey(m) \in Taken(key, W)
                        THEN mu[m].holder = Nobody /\ mutant'[m].holder \in W
                        ELSE mutant'[m] = mu[m]
  <2> SUFFICES ASSUME NEW m \in Mutant
               PROVE  IF MutantKey(m) \in Taken(key, W)
                      THEN mu[m].holder = Nobody /\ mutant'[m].holder \in W
                      ELSE mutant'[m] = mu[m]
    OBVIOUS
  <2>1. CASE MutantKey(m) \in Taken(key, W)
    <3>1. PICK w \in W : MutantKey(m) \in Consumed(key, w)
      BY <1>3, <2>1
    <3>2. mu[m].holder = Nobody /\ mutant'[m].holder = w
      BY <1>1, <3>1
    <3> QED
      BY <2>1, <3>2
  <2>2. CASE MutantKey(m) \notin Taken(key, W)
    BY <1>2, <2>2
  <2> QED
    BY <2>1, <2>2
<1>5. Accounts(mutant', Granted(h, W, key))
  <2> SUFFICES ASSUME NEW m \in Mutant
               PROVE  /\ \A t \in Thread : Granted(h, W, key)[m][t] =
                            IF mutant'[m].holder = t THEN mutant'[m].recursion ELSE 0
                      /\ mutant'[m].holder # Nobody => mutant'[m].recursion > 0
    BY DEF Accounts
  <2>1. CASE MutantKey(m) \in Taken(key, W)
    <3>1. PICK w \in W : MutantKey(m) \in Consumed(key, w)
      BY <1>3, <2>1
    <3>2. /\ mutant'[m].holder = w /\ mutant'[m].recursion = 1
          /\ \A t \in Thread : Granted(h, W, key)[m][t] = IF t = w THEN 1 ELSE 0
      BY <1>1, <3>1
    <3> QED
      BY SMT, <3>2
  <2>2. CASE MutantKey(m) \notin Taken(key, W)
    BY SMT, <1>2, <2>2 DEF Accounts
  <2> QED
    BY <2>1, <2>2
<1>6. LaterFree'
  <2>1. next_mutant' = next_mutant /\ next_mutant \in Nat
    BY SMT DEF Waking, TypeOK
  <2>2. ASSUME NEW m \in Mutant, m >= next_mutant PROVE mutant'[m].holder = Nobody
    <3>1. MutantKey(m) \notin Taken(key, W)
      <4>1. ~(m < next_mutant)
        BY SMT, <2>1, <2>2, BoundsAssumption DEF Mutant
      <4> QED
        BY <1>1, <1>3, <4>1
    <3> QED
      BY <1>2, <2>2, <3>1 DEF LaterFree
  <2> QED
    BY <2>1, <2>2 DEF LaterFree
<1>7. NoSelfWait'
  <2> SUFFICES ASSUME NEW t \in Thread, NEW m \in Mutant, state'[t] = "Waiting",
                      MutantKey(m) \in Range(block'[t].keys)
               PROVE  mutant'[m].holder # t
    BY DEF NoSelfWait
  <2>1. state[t] = "Waiting" /\ t \notin W /\ block'[t] = block[t]
    BY DEF Waking
  <2>2. mutant[m].holder # t
    BY <2>1 DEF NoSelfWait
  <2> QED
    BY <1>0, <1>4, <2>1, <2>2
<1> QED
  BY <1>4, <1>5, <1>6, <1>7 DEF HandedOver

(* Steps that leave the mutants alone.                                     *)
LEMMA MutantsKept ==
    ASSUME MutantInv, \A t \in Thread : StillParked(t), UNCHANGED <<mutant, holds, next_mutant>>
    PROVE  MutantInv'
<1>1. MutantAccounts' /\ LaterFree'
  BY DEF MutantInv, MutantAccounts, Accounts, LaterFree
<1>2. NoSelfWait'
  BY DEF MutantInv, NoSelfWait, StillParked
<1> QED
  BY <1>1, <1>2 DEF MutantInv

LEMMA MutantsParking ==
    ASSUME TypeOK, ~MutantMisuse, MutantInv, Parking
    PROVE  MutantInv'
<1>0. UNCHANGED <<mutant, holds, next_mutant>> /\ current \in Thread
  BY CurrentThread DEF Parking, objectVars
<1>1. MutantAccounts' /\ LaterFree'
  BY <1>0 DEF MutantInv, MutantAccounts, Accounts, LaterFree
<1>2. ASSUME NEW t \in Thread, NEW m \in Mutant, state'[t] = "Waiting",
             MutantKey(m) \in Range(block'[t].keys)
      PROVE  mutant[m].holder # t
  <2>1. CASE t = current
    BY <1>2, <2>1 DEF Parking, Unsatisfied
  <2>2. CASE t # current
    BY <1>2, <2>2 DEF Parking, StillParked, MutantInv, NoSelfWait
  <2> QED
    BY <2>1, <2>2
<1> QED
  BY <1>0, <1>1, <1>2 DEF MutantInv, NoSelfWait

LEMMA MutantsTaken ==
    ASSUME TypeOK, ~MutantMisuse, MutantInv, NEW keys, Taking(keys)
    PROVE  MutantInv'
<1>0. /\ current \in Thread /\ Nobody \notin Thread
      /\ holds \in [Mutant -> [Thread -> Nat]] /\ mutant \in MutantTable
      /\ UNCHANGED <<state, block, next_mutant>>
  BY SMT, ObjectTypes, BoundsAssumption DEF Thread, Nobody, Taking, tableVars
<1>1. ASSUME NEW m \in Mutant, MutantKey(m) \in keys
      PROVE  /\ mutant'[m].holder = current /\ mutant'[m].recursion = 1
             /\ \A t \in Thread : holds'[m][t] = IF t = current THEN 1 ELSE 0
             /\ m < next_mutant /\ state[current] = "Running"
  <2>1. SignaledNow(MutantKey(m)) /\ Known(MutantKey(m)) /\ mutant[m].holder # current
    BY <1>1 DEF Taking
  <2>2. mutant[m].holder = Nobody /\ m < next_mutant
    BY SMT, <2>1, KeyParts, SignaledCases, KnownCases DEF SignaledNow
  <2>3. mutant'[m] = [holder |-> current, recursion |-> 1]
    BY <1>1, <2>2 DEF Taking, ConsumeMutants
  <2>4. \A t \in Thread : holds[m][t] = 0
    BY <1>0, <2>2 DEF MutantInv, MutantAccounts, Accounts
  <2>5. \A t \in Thread : holds'[m][t] = IF t = current THEN 1 ELSE 0
    BY SMT, <1>1, <2>4 DEF Taking, Acquired
  <2> QED
    BY SMT, <1>1, <2>2, <2>3, <2>5 DEF Taking
<1>2. ASSUME NEW m \in Mutant, MutantKey(m) \notin keys
      PROVE  mutant'[m] = mutant[m] /\ \A t \in Thread : holds'[m][t] = holds[m][t]
  BY <1>2 DEF Taking, ConsumeMutants, Acquired
<1>3. MutantAccounts'
  <2> SUFFICES ASSUME NEW m \in Mutant
               PROVE  /\ \A t \in Thread : holds'[m][t] =
                            IF mutant'[m].holder = t THEN mutant'[m].recursion ELSE 0
                      /\ mutant'[m].holder # Nobody => mutant'[m].recursion > 0
    BY DEF MutantAccounts, Accounts
  <2>1. CASE MutantKey(m) \in keys
    <3>1. /\ mutant'[m].holder = current /\ mutant'[m].recursion = 1
          /\ \A t \in Thread : holds'[m][t] = IF t = current THEN 1 ELSE 0
      BY <1>1, <2>1
    <3> QED
      BY SMT, <3>1
  <2>2. CASE MutantKey(m) \notin keys
    BY SMT, <1>2, <2>2 DEF MutantInv, MutantAccounts, Accounts
  <2> QED
    BY <2>1, <2>2
<1>4. LaterFree'
  <2> SUFFICES ASSUME NEW m \in Mutant, m >= next_mutant PROVE mutant'[m].holder = Nobody
    BY <1>0 DEF LaterFree
  <2>1. ~(m < next_mutant)
    BY SMT, BoundsAssumption DEF Mutant, TypeOK
  <2>2. mutant'[m] = mutant[m]
    BY <1>1, <1>2, <2>1
  <2> QED
    BY <2>2 DEF MutantInv, LaterFree
<1>5. NoSelfWait'
  <2> SUFFICES ASSUME NEW t \in Thread, NEW m \in Mutant, state[t] = "Waiting",
                      MutantKey(m) \in Range(block[t].keys)
               PROVE  mutant'[m].holder # t
    BY <1>0 DEF NoSelfWait
  <2>1. mutant[m].holder # t
    BY DEF MutantInv, NoSelfWait
  <2>2. CASE MutantKey(m) \in keys
    BY <1>1, <2>2
  <2>3. CASE MutantKey(m) \notin keys
    BY <1>2, <2>1, <2>3
  <2> QED
    BY <2>2, <2>3
<1> QED
  BY <1>3, <1>4, <1>5 DEF MutantInv

(* One more acquisition, or one release of several, by the holder.         *)
LEMMA MutantsRecount ==
    ASSUME TypeOK, MutantInv, NEW m \in Mutant, Reacquiring(m) \/ Releasing(m)
    PROVE  MutantInv'
<1>0. /\ current \in Thread /\ mutant \in MutantTable
      /\ holds \in [Mutant -> [Thread -> Nat]]
      /\ mutant[m].holder = current /\ mutant[m].recursion \in Nat
      /\ UNCHANGED <<state, block, next_mutant>>
  BY ObjectTypes DEF MutantTable, Reacquiring, Releasing, tableVars
<1>1. \A x \in Mutant : MutantKey(x) = MutantKey(m) => x = m
  BY SMT, KeyParts
<1>2. holds[m][current] = mutant[m].recursion /\ mutant[m].recursion > 0
  <2>1. current # Nobody
    BY SMT, <1>0, BoundsAssumption DEF Thread, Nobody
  <2> QED
    BY <1>0, <2>1 DEF MutantInv, MutantAccounts, Accounts
<1>3. PICK n \in Nat : /\ n > 0
                       /\ mutant' = [mutant EXCEPT ![m].recursion = n]
                       /\ \A x \in Mutant, t \in Thread :
                             holds'[x][t] = IF x = m /\ t = current THEN n ELSE holds[x][t]
  <2>1. CASE Reacquiring(m)
    <3>1. mutant' = [mutant EXCEPT ![m].recursion = mutant[m].recursion + 1]
      BY <2>1 DEF Reacquiring
    <3>2. \A x \in Mutant, t \in Thread :
             holds'[x][t] = IF x = m /\ t = current THEN mutant[m].recursion + 1 ELSE holds[x][t]
      BY <1>1, <1>2, <2>1 DEF Reacquiring, Acquired
    <3>3. mutant[m].recursion + 1 \in Nat /\ mutant[m].recursion + 1 > 0
      BY SMT, <1>0
    <3> QED
      BY <3>1, <3>2, <3>3
  <2>2. CASE Releasing(m)
    <3>1. mutant' = [mutant EXCEPT ![m].recursion = mutant[m].recursion - 1] /\ mutant[m].recursion > 1
      BY <2>2 DEF Releasing
    <3>2. \A x \in Mutant, t \in Thread :
             holds'[x][t] = IF x = m /\ t = current THEN mutant[m].recursion - 1 ELSE holds[x][t]
      BY <1>0, <1>2, <2>2 DEF Releasing, Dropped
    <3>3. mutant[m].recursion - 1 \in Nat /\ mutant[m].recursion - 1 > 0
      BY SMT, <1>0, <3>1
    <3> QED
      BY <3>1, <3>2, <3>3
  <2> QED
    BY <2>1, <2>2
<1>4. /\ \A x \in Mutant : mutant'[x].holder = mutant[x].holder
      /\ \A x \in Mutant : mutant'[x].recursion = IF x = m THEN n ELSE mutant[x].recursion
  BY SMT, <1>0, <1>3 DEF MutantTable
<1>5. MutantAccounts'
  BY SMT, <1>0, <1>3, <1>4 DEF MutantInv, MutantAccounts, Accounts
<1>6. LaterFree' /\ NoSelfWait'
  BY <1>0, <1>4 DEF MutantInv, LaterFree, NoSelfWait
<1> QED
  BY <1>5, <1>6 DEF MutantInv

LEMMA MutantsCreated ==
    ASSUME TypeOK, NamesInv, MutantInv, NEW owned \in BOOLEAN, NtCreateMutant(owned)
    PROVE  MutantInv'
<1> DEFINE m == next_mutant
<1>00. m \in 0 .. MaxMutants /\ m < MaxMutants /\ next_mutant' = m + 1 /\ UNCHANGED <<state, block>>
  BY DEF NtCreateMutant, tableVars, TypeOK
<1>01. m \in Mutant /\ m \in Nat /\ m >= next_mutant
  BY SMT, <1>00, BoundsAssumption DEF Mutant
<1>02. /\ current \in Thread /\ mutant \in MutantTable
       /\ holds \in [Mutant -> [Thread -> Nat]]
  BY ObjectTypes
<1>03. Nobody \notin Thread
  BY SMT, BoundsAssumption DEF Thread, Nobody
<1>0. /\ current \in Thread /\ mutant \in MutantTable /\ m \in Mutant /\ m \in Nat
      /\ holds \in [Mutant -> [Thread -> Nat]] /\ current # Nobody
      /\ UNCHANGED <<state, block>> /\ next_mutant' = m + 1
  BY <1>00, <1>01, <1>02, <1>03
<1>1. mutant[m].holder = Nobody /\ \A t \in Thread : holds[m][t] = 0
  <2>1. mutant[m].holder = Nobody
    BY <1>01 DEF MutantInv, LaterFree
  <2> QED
    BY <1>01, <1>03, <2>1 DEF MutantInv, MutantAccounts, Accounts
<1>2. /\ mutant'[m].holder = IF owned THEN current ELSE Nobody
      /\ mutant'[m].recursion = IF owned THEN 1 ELSE 0
      /\ \A x \in Mutant : x # m => mutant'[x] = mutant[x]
  BY <1>0 DEF NtCreateMutant, MutantTable
<1>3. \A x \in Mutant, t \in Thread :
         holds'[x][t] = IF x = m /\ t = current THEN (IF owned THEN 1 ELSE 0) ELSE holds[x][t]
  BY <1>0 DEF NtCreateMutant
<1>4. MutantAccounts'
  <2> SUFFICES ASSUME NEW x \in Mutant
               PROVE  /\ \A t \in Thread : holds'[x][t] =
                            IF mutant'[x].holder = t THEN mutant'[x].recursion ELSE 0
                      /\ mutant'[x].holder # Nobody => mutant'[x].recursion > 0
    BY DEF MutantAccounts, Accounts
  <2>1. CASE x = m
    BY SMT, <1>02, <1>03, <1>1, <1>2, <1>3, <2>1
  <2>2. CASE x # m
    BY SMT, <1>2, <1>3, <2>2 DEF MutantInv, MutantAccounts, Accounts
  <2> QED
    BY <2>1, <2>2
<1>5. LaterFree'
  <2> SUFFICES ASSUME NEW x \in Mutant, x >= m + 1 PROVE mutant'[x].holder = Nobody
    BY <1>00 DEF LaterFree
  <2>1. x >= next_mutant /\ x # m
    BY SMT, <1>01, BoundsAssumption DEF Mutant
  <2> QED
    BY <1>2, <2>1 DEF MutantInv, LaterFree
<1>6. NoSelfWait'
  <2> SUFFICES ASSUME NEW t \in Thread, NEW x \in Mutant, state[t] = "Waiting",
                      MutantKey(x) \in Range(block[t].keys)
               PROVE  mutant'[x].holder # t
    BY <1>0 DEF NoSelfWait
  <2>1. x < next_mutant /\ mutant[x].holder # t
    BY SMT, KeyParts DEF NamesInv, BlockNames, MutantInv, NoSelfWait
  <2> QED
    BY SMT, <1>0, <1>2, <2>1
<1> QED
  BY <1>4, <1>5, <1>6 DEF MutantInv

(* The last release: the mutant is free when the arbiter looks.            *)
LEMMA FreedAccounts ==
    ASSUME TypeOK, MutantInv, NEW m \in Mutant,
           mutant[m].holder = current, mutant[m].recursion <= 1
    PROVE  /\ Freed(m) \in MutantTable /\ Dropped(m) \in [Mutant -> [Thread -> Nat]]
           /\ Accounts(Freed(m), Dropped(m))
           /\ Freed(m)[m].holder = Nobody
           /\ \A x \in Mutant : x # m => Freed(m)[x] = mutant[x]
<1>0. /\ current \in Thread /\ mutant \in MutantTable /\ Nobody \notin Thread
      /\ holds \in [Mutant -> [Thread -> Nat]] /\ mutant[m].recursion \in Nat
  BY SMT, ObjectTypes, BoundsAssumption DEF Thread, Nobody, MutantTable
<1>1. holds[m][current] = 1 /\ \A t \in Thread : t # current => holds[m][t] = 0
  BY SMT, <1>0 DEF MutantInv, MutantAccounts, Accounts
<1>2. Freed(m) \in MutantTable /\ Dropped(m) \in [Mutant -> [Thread -> Nat]]
  BY SMT, <1>0 DEF Freed, Dropped, MutantTable
<1>3. /\ Freed(m)[m].holder = Nobody /\ Freed(m)[m].recursion = 0
      /\ \A x \in Mutant : x # m => Freed(m)[x] = mutant[x]
  BY <1>0 DEF Freed, MutantTable
<1>4. \A x \in Mutant, t \in Thread : Dropped(m)[x][t] = IF x = m THEN 0 ELSE holds[x][t]
  BY SMT, <1>0, <1>1 DEF Dropped
<1>5. Accounts(Freed(m), Dropped(m))
  BY SMT, <1>0, <1>3, <1>4 DEF Accounts, MutantInv, MutantAccounts
<1> QED
  BY <1>2, <1>3, <1>5

(* A wake by address takes no mutant.                                      *)
LEMMA ObjectGrantsNothing ==
    ASSUME TypeOK, NamesInv, NEW o \in Object, NEW W \in SUBSET Candidates(ObjectKey(o))
    PROVE  /\ \A w \in W : ~block[w].all /\ Consumed(ObjectKey(o), w) = {ObjectKey(o)}
           /\ Granted(holds, W, ObjectKey(o)) = holds
<1>1. ObjectKey(o) \notin Handle /\ \A m \in Mutant : MutantKey(m) # ObjectKey(o)
  BY DEF ObjectKey, MutantKey, Handle
<1>2. \A w \in W : w \in Thread /\ state[w] = "Waiting" /\ ObjectKey(o) \in Range(block[w].keys)
  BY DEF Candidates
<1>3. \A w \in W : ~block[w].all
  BY <1>1, <1>2 DEF NamesInv, BlockNames
<1>4. \A w \in W : Consumed(ObjectKey(o), w) = {ObjectKey(o)}
  BY <1>3 DEF Consumed
<1>5. Granted(holds, W, ObjectKey(o)) = [m \in Mutant |-> [t \in Thread |-> holds[m][t]]]
  BY SMT, <1>1, <1>4 DEF Granted
<1>6. holds \in [Mutant -> [Thread -> Nat]]
  BY ObjectTypes
<1>7. [m \in Mutant |-> [t \in Thread |-> holds[m][t]]] = holds
  BY <1>6
<1> QED
  BY <1>3, <1>4, <1>5, <1>7

LEMMA MutantStep ==
    ASSUME TypeOK, TableInv, ~MutantMisuse, NamesInv, MutantInv, [Next]_vars
    PROVE  MutantInv'
<1>0. /\ mutant \in MutantTable /\ holds \in [Mutant -> [Thread -> Nat]]
      /\ Accounts(mutant, holds) /\ LaterFree /\ NoSelfWait
  BY ObjectTypes DEF MutantInv, MutantAccounts
<1>1. UNCHANGED tableVars => \A t \in Thread : StillParked(t)
  BY DEF tableVars, StillParked
<1>2. CASE Unparking
  BY <1>2, MutantsKept DEF Unparking
<1>3. ASSUME NEW x, TakingObject(x) \/ Closing(x) PROVE MutantInv'
  BY <1>1, <1>3, MutantsKept DEF TakingObject, Closing
<1>4. ASSUME NEW x, NEW y, NtCreateEvent(x, y) PROVE MutantInv'
  BY <1>1, <1>4, MutantsKept DEF NtCreateEvent
<1>5. ASSUME NEW m \in Mutant, NEW W, Handing(m, W) PROVE MutantInv'
  <2>1. /\ Freed(m) \in MutantTable /\ Dropped(m) \in [Mutant -> [Thread -> Nat]]
        /\ Accounts(Freed(m), Dropped(m))
        /\ Freed(m)[m].holder = Nobody
        /\ \A x \in Mutant : x # m => Freed(m)[x] = mutant[x]
    BY <1>5, FreedAccounts DEF Handing
  <2>2. \A x \in Mutant : MutantKey(m) = MutantKey(x) => x = m
    BY SMT, KeyParts
  <2>3. /\ \A x \in Mutant : Freed(m)[x].holder \in {Nobody, mutant[x].holder}
        /\ \A x \in Mutant : MutantKey(m) = MutantKey(x) => Freed(m)[x].holder = Nobody /\ ~FALSE
    BY <2>1, <2>2
  <2>4. /\ Waking(event, Freed(m), state, MutantKey(m), FALSE, W)
        /\ holds' = Granted(Dropped(m), W, MutantKey(m))
    BY <1>5 DEF Handing
  <2>5. Accounts(mutant', holds') /\ LaterFree' /\ NoSelfWait'
    BY <1>0, <2>1, <2>3, <2>4, WakingMutants
  <2> QED
    BY <2>5 DEF MutantInv, MutantAccounts
<1>6. ASSUME NEW ev, NEW st, NEW key, NEW wake_all \in BOOLEAN, NEW W,
             Waking(ev, mutant, st, key, wake_all, W), \A m \in Mutant : key # MutantKey(m),
             holds' = Granted(holds, W, key)
      PROVE  MutantInv'
  <2>0. \A m \in Mutant : mutant[m].holder \in {Nobody, mutant[m].holder}
    OBVIOUS
  <2>00. \A m \in Mutant : key = MutantKey(m) => mutant[m].holder = Nobody /\ ~wake_all
    BY <1>6
  <2>1. Accounts(mutant', Granted(holds, W, key)) /\ LaterFree' /\ NoSelfWait'
    BY SMTT(60), <1>0, <1>6, <2>0, <2>00, WakingMutants
  <2> QED
    BY <1>6, <2>1 DEF MutantInv, MutantAccounts
<1>7. ASSUME NEW e \in Event, NEW W, Signaling(e, W) PROVE MutantInv'
  <2>1. /\ event[e].manual \in BOOLEAN /\ \A m \in Mutant : EventKey(e) # MutantKey(m)
    BY DEF TypeOK, EventKey, MutantKey
  <2> QED
    BY <1>6, <1>7, <2>1 DEF Signaling
<1>8. ASSUME NEW o \in Object, NEW W, SignalingObject(o, W) PROVE MutantInv'
  <2>1. (~header[ObjectKey(o)].auto) \in BOOLEAN /\ \A m \in Mutant : ObjectKey(o) # MutantKey(m)
    BY DEF ObjectKey, MutantKey
  <2>2. Waking(event, mutant, state, ObjectKey(o), ~header[ObjectKey(o)].auto, W) /\ holds' = holds
    BY <1>8 DEF SignalingObject
  <2>3. holds' = Granted(holds, W, ObjectKey(o))
    BY <2>2, ObjectGrantsNothing DEF Waking
  <2> QED
    BY <1>6, <2>1, <2>2, <2>3
<1>9. ASSUME NEW W, Exiting(W) PROVE MutantInv'
  <2>1. \A m \in Mutant : ThreadKey(current) # MutantKey(m)
    BY DEF ThreadKey, MutantKey
  <2> QED
    BY <1>6, <1>9, <2>1 DEF Exiting
<1> QED
  BY <1>2, <1>3, <1>4, <1>5, <1>7, <1>8, <1>9, StepKinds, MutantsParking, MutantsTaken,
     MutantsRecount, MutantsCreated

LEMMA InitMutants == Init => NamesInv /\ MutantInv
<1> SUFFICES ASSUME Init PROVE NamesInv /\ MutantInv
  OBVIOUS
<1>1. \A t \in Thread : state[t] # "Waiting"
  BY DEF Init
<1>2. NamesInv
  BY <1>1 DEF Init, NamesInv, BlockNames, LiveCreated
<1>3. MutantAccounts /\ LaterFree
  BY DEF Init, MutantAccounts, Accounts, LaterFree
<1>4. NoSelfWait
  BY <1>1 DEF NoSelfWait
<1> QED
  BY <1>2, <1>3, <1>4 DEF MutantInv

-----------------------------------------------------------------------------
(* Wakeups.                                                                *)
Signaled(k, t) == KeySignaled(event, mutant, state, k, t)

LEMMA WakeupForm ==
    NoLostWakeup <=>
        \A t \in Thread : state[t] = "Waiting" =>
            IF block[t].all THEN \E k \in Range(block[t].keys) : ~Signaled(k, t)
                            ELSE \A k \in Range(block[t].keys) : ~Signaled(k, t)
  BY DEF NoLostWakeup, Signaled

LEMMA SignaledNext ==
    ASSUME NEW k, NEW t
    PROVE  /\ k[1] = "event" =>
                 (Signaled(k, t)' <=> event'[k[2]].live /\ event'[k[2]].signaled)
           /\ k[1] = "mutant" =>
                 (Signaled(k, t)' <=> mutant'[k[2]].holder \in {Nobody, t})
           /\ k[1] = "thread" =>
                 (Signaled(k, t)' <=> k \in handles' /\ state'[k[2]] = "Terminated")
           /\ k[1] \in {"object", "kthread"} =>
                 (Signaled(k, t)' <=> header'[k].signaled)
  BY DEF Signaled, KeySignaled

(* Steps after which every signal a parked thread can see was there before.*)
LEMMA SignalsFade ==
    ASSUME NoLostWakeup, \A t \in Thread : StillParked(t),
           \A t \in Thread : state'[t] = "Waiting" =>
               \A k \in Range(block[t].keys) : Signaled(k, t)' => Signaled(k, t)
    PROVE  NoLostWakeup'
<1> SUFFICES ASSUME NEW t \in Thread, state'[t] = "Waiting"
             PROVE  IF block'[t].all THEN \E k \in Range(block'[t].keys) : ~Signaled(k, t)'
                                     ELSE \A k \in Range(block'[t].keys) : ~Signaled(k, t)'
  BY DEF NoLostWakeup, Signaled
<1>1. state[t] = "Waiting" /\ block'[t] = block[t]
  BY DEF StillParked
<1>2. IF block[t].all THEN \E k \in Range(block[t].keys) : ~Signaled(k, t)
                      ELSE \A k \in Range(block[t].keys) : ~Signaled(k, t)
  BY <1>1, WakeupForm
<1>3. \A k \in Range(block[t].keys) : Signaled(k, t)' => Signaled(k, t)
  OBVIOUS
<1> HIDE DEF Signaled
<1> QED
  BY <1>1, <1>2, <1>3

LEMMA BlockKeys ==
    ASSUME TypeOK, NEW t \in Thread, NEW k \in Range(block[t].keys)
    PROVE  /\ k \in Key /\ block[t].keys \in Seq(Key)
           /\ k[1] = "event" => k[2] \in Event /\ k = EventKey(k[2])
           /\ k[1] = "mutant" => k[2] \in Mutant /\ k = MutantKey(k[2])
           /\ k[1] = "thread" => k[2] \in Thread /\ k = ThreadKey(k[2])
           /\ k[1] \in {"object", "kthread"} => k \in Address
           /\ k[1] \in {"event", "mutant", "thread", "object", "kthread"}
<1>1. k \in Key /\ block[t].keys \in Seq(Key)
  BY SMT DEF TypeOK, WaitBlock, Range
<1> QED
  BY SMT, <1>1, KeyKinds, KeyParts

LEMMA WakeupUnparking ==
    ASSUME TypeOK, NoLostWakeup, Unparking
    PROVE  NoLostWakeup'
<1>1. ASSUME NEW t \in Thread, NEW k \in Range(block[t].keys), Signaled(k, t)'
      PROVE  Signaled(k, t)
  <2>1. CASE k[1] = "thread"
    <3>1. k \in handles' /\ k[2] \in Thread /\ state'[k[2]] = "Terminated"
      BY <1>1, <2>1, BlockKeys, SignaledNext
    <3>2. k \in handles /\ state[k[2]] = "Terminated"
      BY <3>1 DEF Unparking
    <3> QED
      BY <2>1, <3>2, SignaledCases DEF Signaled
  <2>2. CASE k[1] # "thread"
    BY SMT, <1>1, <2>2, BlockKeys, SignaledNext, SignaledCases DEF Unparking, Signaled
  <2> QED
    BY <2>1, <2>2
<1> QED
  BY <1>1, SignalsFade DEF Unparking

LEMMA WakeupParking ==
    ASSUME TypeOK, TypeOK', NoLostWakeup, Parking
    PROVE  NoLostWakeup'
<1>0. current \in Thread /\ UNCHANGED <<event, mutant, header, handles>>
  BY CurrentThread DEF Parking, objectVars
<1>1. ASSUME NEW t \in Thread, NEW k \in Key
      PROVE  Signaled(k, t)' <=> Signaled(k, t)
  <2>1. k[1] = "thread" => k[2] \in Thread
    BY SMT, KeyKinds, KeyParts
  <2>2. k[1] \in {"event", "mutant", "thread", "object", "kthread"}
    BY KeyKinds
  <2> QED
    BY ZenonT(20), <1>0, <2>1, <2>2, SignaledNext, SignaledCases DEF Parking, Signaled
<1> SUFFICES ASSUME NEW t \in Thread, state'[t] = "Waiting"
             PROVE  IF block'[t].all THEN \E k \in Range(block'[t].keys) : ~Signaled(k, t)'
                                     ELSE \A k \in Range(block'[t].keys) : ~Signaled(k, t)'
  BY DEF NoLostWakeup, Signaled
<1>2. \A k \in Range(block'[t].keys) : k \in Key
  <2>1. block'[t].keys \in Seq(Key)
    BY DEF TypeOK, WaitBlock
  <2> QED
    BY SMT, <2>1 DEF Range
<1>3. IF block'[t].all THEN \E k \in Range(block'[t].keys) : ~Signaled(k, t)
                       ELSE \A k \in Range(block'[t].keys) : ~Signaled(k, t)
  <2>1. CASE t = current
    BY <2>1 DEF Parking, Unsatisfied, SignaledNow, Signaled
  <2>2. CASE t # current
    <3>1. state[t] = "Waiting" /\ block'[t] = block[t]
      BY <2>2 DEF Parking, StillParked
    <3> QED
      BY <3>1, WakeupForm
  <2> QED
    BY <2>1, <2>2
<1> HIDE DEF Signaled
<1> QED
  BY <1>1, <1>2, <1>3

(* Steps that leave the thread table alone and raise no signal.            *)
LEMMA WakeupTable ==
    ASSUME TypeOK, NamesInv, NoLostWakeup, UNCHANGED <<tableVars, handles>>,
           \A e \in Event : e < next_event /\ event'[e].live /\ event'[e].signaled =>
               event[e].live /\ event[e].signaled,
           \A m \in Mutant : m < next_mutant =>
               \/ mutant'[m].holder = mutant[m].holder
               \/ mutant'[m].holder = current /\ state[current] = "Running",
           \A a \in Address : header'[a].signaled => header[a].signaled
    PROVE  NoLostWakeup'
<1>0. state' = state /\ block' = block /\ current \in Thread /\ Nobody \notin Thread
  BY SMT, CurrentThread, BoundsAssumption DEF tableVars, Thread, Nobody
<1>1. ASSUME NEW t \in Thread, state[t] = "Waiting", NEW k \in Range(block[t].keys), Signaled(k, t)'
      PROVE  Signaled(k, t)
  <2>0. /\ k[1] = "event" => k[2] < next_event
        /\ k[1] = "mutant" => k[2] < next_mutant
    BY <1>1 DEF NamesInv, BlockNames
  <2>1. CASE k[1] = "event"
    <3>1. k[2] \in Event /\ event'[k[2]].live /\ event'[k[2]].signaled
      BY <1>1, <2>1, BlockKeys, SignaledNext
    <3> QED
      BY <2>0, <2>1, <3>1, SignaledCases DEF Signaled
  <2>2. CASE k[1] = "mutant"
    <3>1. k[2] \in Mutant /\ mutant'[k[2]].holder \in {Nobody, t}
      BY <1>1, <2>2, BlockKeys, SignaledNext
    <3>2. mutant'[k[2]].holder = mutant[k[2]].holder
      BY <1>0, <1>1, <2>0, <2>2, <3>1
    <3> QED
      BY <2>2, <3>1, <3>2, SignaledCases DEF Signaled
  <2>3. CASE k[1] \notin {"event", "mutant"}
    BY <1>0, <1>1, <2>3, BlockKeys, SignaledNext, SignaledCases DEF Signaled
  <2> QED
    BY <2>1, <2>2, <2>3
<1>2. \A t \in Thread : StillParked(t)
  BY <1>0 DEF StillParked
<1> QED
  BY <1>0, <1>1, <1>2, SignalsFade

(* After the arbiter ran, a key that a woken thread took for itself alone  *)
(* is unsignaled for everybody who still waits, and no other handle became *)
(* signaled by it.                                                         *)
LEMMA WakingSignals ==
    ASSUME TypeOK, NEW ev \in EventTable, NEW mu \in MutantTable, NEW st,
           NEW key \in Key, NEW wake_all, NEW W, Waking(ev, mu, st, key, wake_all, W),
           HandedOver(mu, key, W),
           NEW t \in Thread, t \notin W, NEW k \in Range(block[t].keys), k \in Handle
    PROVE  /\ Signaled(k, t)' => KeySignaled(ev, mu, st, k, t)
           /\ k \in Taken(key, W) /\ Exclusive(ev, mu, k) => ~Signaled(k, t)'
<1>0. W \in SUBSET Thread /\ Nobody \notin Thread
  BY SMT, BoundsAssumption DEF Waking, Candidates, Thread, Nobody
<1>1. CASE k[1] = "event"
  <2>1. k[2] \in Event /\ k = EventKey(k[2])
    BY <1>1, BlockKeys
  <2> DEFINE e == k[2]
  <2>2. event'[e] = IF EventKey(e) \in Taken(key, W) /\ ~ev[e].manual
                    THEN [ev[e] EXCEPT !.signaled = FALSE] ELSE ev[e]
    BY <2>1 DEF Waking, ConsumeEvents
  <2>3. ev[e] \in [live : BOOLEAN, manual : BOOLEAN, signaled : BOOLEAN]
    BY <2>1 DEF EventTable
  <2>4. /\ event'[e].live /\ event'[e].signaled => ev[e].live /\ ev[e].signaled
        /\ EventKey(e) \in Taken(key, W) /\ ~ev[e].manual => ~event'[e].signaled
    BY <2>2, <2>3
  <2> QED
    BY <1>1, <2>1, <2>4, SignaledNext, SignaledCases DEF Exclusive
<1>2. CASE k[1] = "mutant"
  <2>1. k[2] \in Mutant /\ k = MutantKey(k[2])
    BY <1>2, BlockKeys
  <2> DEFINE m == k[2]
  <2>2. /\ mutant'[m].holder \in {Nobody, t} => mu[m].holder \in {Nobody, t}
        /\ MutantKey(m) \in Taken(key, W) => mutant'[m].holder \notin {Nobody, t}
    BY <1>0, <2>1 DEF HandedOver
  <2> QED
    BY <1>2, <2>1, <2>2, SignaledNext, SignaledCases
<1>3. CASE k[1] = "thread"
  <2>1. k[2] \in Thread
    BY <1>3, BlockKeys
  <2> QED
    BY <1>3, <2>1, SignaledNext, SignaledCases DEF Waking, Exclusive
<1> QED
  BY <1>1, <1>2, <1>3, KeyKinds, BlockKeys

(* What a waking call must leave true: it signals nothing but its key, and *)
(* unless it wakes everybody a woken thread has used the key up.           *)
NoneRaised(ev, mu, st, key) ==
    \A t \in Thread, k \in Key : k # key /\ KeySignaled(ev, mu, st, k, t) => Signaled(k, t)

HeadersKept(key) ==
    \A t \in Thread : state'[t] = "Waiting" =>
        \A a \in Address : a # key /\ a \in Range(block[t].keys) /\ header'[a].signaled
                           => header[a].signaled

Spent(ev, mu, key, wake_all, W) ==
    ~wake_all => \/ key \in Handle /\ Exclusive(ev, mu, key)
                 \/ key \in Address /\ (W # {} => ~header'[key].signaled)

LEMMA WakingWakeup ==
    ASSUME TypeOK, NamesInv, NoLostWakeup,
           NEW ev \in EventTable, NEW mu \in MutantTable, NEW st,
           NEW key \in Key, NEW wake_all \in BOOLEAN, NEW W, Waking(ev, mu, st, key, wake_all, W),
           HandedOver(mu, key, W),
           NoneRaised(ev, mu, st, key), HeadersKept(key), Spent(ev, mu, key, wake_all, W)
    PROVE  NoLostWakeup'
<1> SUFFICES ASSUME NEW t \in Thread, state'[t] = "Waiting"
             PROVE  IF block'[t].all THEN \E k \in Range(block'[t].keys) : ~Signaled(k, t)'
                                     ELSE \A k \in Range(block'[t].keys) : ~Signaled(k, t)'
  BY DEF NoLostWakeup, Signaled
<1>1. state[t] = "Waiting" /\ t \notin W /\ block'[t] = block[t] /\ W \in SUBSET Candidates(key)
  BY DEF Waking
<1>2. IF block[t].all THEN \E k \in Range(block[t].keys) : ~Signaled(k, t)
                      ELSE \A k \in Range(block[t].keys) : ~Signaled(k, t)
  BY <1>1, WakeupForm
<1> HIDE DEF Signaled
<1>3. ASSUME NEW k \in Range(block[t].keys), k \in Handle
      PROVE  /\ Signaled(k, t)' => KeySignaled(ev, mu, st, k, t)
             /\ k \in Taken(key, W) /\ Exclusive(ev, mu, k) => ~Signaled(k, t)'
  BY <1>1, <1>3, WakingSignals
<1>4. ASSUME NEW k \in Range(block[t].keys), k # key, Signaled(k, t)'
      PROVE  Signaled(k, t)
  <2>1. CASE k \in Handle
    BY <1>3, <1>4, <2>1, BlockKeys DEF NoneRaised
  <2>2. CASE k \in Address
    BY <1>4, <2>2, KeyKinds, BlockKeys, SignaledNext, SignaledCases DEF HeadersKept, Signaled
  <2> QED
    BY <2>1, <2>2, BlockKeys, KeyKinds
<1>5. CASE t \notin Candidates(key)
  <2>1. key \notin Range(block[t].keys)
    BY <1>1, <1>5 DEF Candidates
  <2> QED
    BY <1>1, <1>2, <1>4, <2>1
<1>6. CASE t \in Candidates(key)
  <2>0. key \in Range(block[t].keys)
    BY <1>6 DEF Candidates
  <2>1. CASE ~Satisfied(ev, mu, st, W, key, t)
    <3>1. PICK k \in Range(block[t].keys) :
             ~KeySignaled(ev, mu, st, k, t) \/ (k \in TakenBefore(W, key, t) /\ Exclusive(ev, mu, k))
      BY <2>1 DEF Satisfied
    <3>2. block[t].all
      BY <2>1 DEF Satisfied
    <3>3. k \in Handle
      BY <1>1, <3>2 DEF NamesInv, BlockNames
    <3>4. k \in TakenBefore(W, key, t) => k \in Taken(key, W)
      BY DEF TakenBefore, Taken
    <3>5. ~Signaled(k, t)'
      BY <1>3, <3>1, <3>3, <3>4
    <3> QED
      BY <1>1, <3>2, <3>5
  <2>2. CASE Satisfied(ev, mu, st, W, key, t)
    <3>1. ~wake_all /\ \E w \in W : ~(t <= w)
      BY <1>1, <1>6, <2>2 DEF Waking, Woken
    <3>2. PICK w \in W : ~(t <= w)
      BY <3>1
    <3>3. key \in Taken(key, W)
      <4>1. key \in Consumed(key, w)
        BY <1>1 DEF Consumed, Candidates
      <4> QED
        BY <4>1 DEF Taken
    <3>4. ~Signaled(key, t)'
      <4>1. CASE key \in Handle /\ Exclusive(ev, mu, key)
        BY <1>3, <2>0, <3>3, <4>1
      <4>2. CASE key \in Address /\ (W # {} => ~header'[key].signaled)
        BY <4>2, <3>2, KeyKinds, SignaledNext
      <4> QED
        BY <3>1, <4>1, <4>2 DEF Spent
    <3> QED
      BY <1>1, <1>2, <1>4, <2>0, <3>4
  <2> QED
    BY <2>1, <2>2
<1> QED
  BY <1>5, <1>6

LEMMA WakeupObjects ==
    ASSUME TypeOK, TableInv, ~MutantMisuse, NamesInv, NoLostWakeup,
           \/ \E keys \in SUBSET Handle : Taking(keys)
           \/ \E m \in Mutant : Reacquiring(m) \/ Releasing(m)
           \/ \E a \in Address : TakingObject(a)
           \/ \E manual, signaled \in BOOLEAN : NtCreateEvent(manual, signaled)
           \/ \E owned \in BOOLEAN : NtCreateMutant(owned)
           \/ \E e \in Event : Closing(e)
    PROVE  NoLostWakeup'
<1>0. /\ event \in EventTable /\ mutant \in MutantTable
      /\ header \in [Address -> [auto : BOOLEAN, signaled : BOOLEAN]]
      /\ next_event \in Nat /\ next_mutant \in Nat
  BY SMT, ObjectTypes DEF TypeOK
<1>1. ASSUME NEW keys \in SUBSET Handle, Taking(keys) PROVE NoLostWakeup'
  <2>1. \A e \in Event : event'[e].live /\ event'[e].signaled => event[e].live /\ event[e].signaled
    <3> SUFFICES ASSUME NEW e \in Event
                 PROVE  event'[e].live /\ event'[e].signaled => event[e].live /\ event[e].signaled
      OBVIOUS
    <3>1. event[e] \in [live : BOOLEAN, manual : BOOLEAN, signaled : BOOLEAN]
      BY <1>0 DEF EventTable
    <3>2. event'[e] = IF EventKey(e) \in keys /\ ~event[e].manual
                      THEN [event[e] EXCEPT !.signaled = FALSE] ELSE event[e]
      BY <1>1 DEF Taking, ConsumeEvents
    <3> QED
      BY <3>1, <3>2
  <2>2. ASSUME NEW m \in Mutant
        PROVE  \/ mutant'[m].holder = mutant[m].holder
               \/ mutant'[m].holder = current /\ state[current] = "Running"
    <3>1. mutant'[m] = IF MutantKey(m) \in keys /\ mutant[m].holder = Nobody
                       THEN [holder |-> current, recursion |-> 1] ELSE mutant[m]
      BY <1>1 DEF Taking, ConsumeMutants
    <3>2. MutantKey(m) \in keys => state[current] = "Running"
      BY <1>1 DEF Taking
    <3> QED
      BY SMT, <3>1, <3>2
  <2> QED
    BY <1>1, <2>1, <2>2, WakeupTable DEF Taking
<1>2. ASSUME NEW m \in Mutant, Reacquiring(m) \/ Releasing(m) PROVE NoLostWakeup'
  <2>1. \A x \in Mutant : mutant'[x].holder = mutant[x].holder
    BY <1>0, <1>2 DEF Reacquiring, Releasing, MutantTable
  <2> QED
    BY <1>2, <2>1, WakeupTable DEF Reacquiring, Releasing
<1>3. ASSUME NEW a \in Address, TakingObject(a) PROVE NoLostWakeup'
  <2>1. \A x \in Address : header'[x].signaled => header[x].signaled
    BY <1>0, <1>3 DEF TakingObject
  <2> QED
    BY <1>3, <2>1, WakeupTable DEF TakingObject
<1>4. ASSUME NEW manual \in BOOLEAN, NEW signaled \in BOOLEAN, NtCreateEvent(manual, signaled)
      PROVE  NoLostWakeup'
  <2>1. \A e \in Event : e < next_event => event'[e] = event[e]
    BY SMT, <1>0, <1>4 DEF NtCreateEvent, EventTable
  <2> QED
    BY <1>4, <2>1, WakeupTable DEF NtCreateEvent
<1>5. ASSUME NEW owned \in BOOLEAN, NtCreateMutant(owned) PROVE NoLostWakeup'
  <2>1. /\ UNCHANGED <<tableVars, next_event, event, header>>
        /\ handles' = handles \cup {MutantKey(next_mutant)}
        /\ \A m \in Mutant : m < next_mutant => mutant'[m] = mutant[m]
    BY SMT, <1>0, <1>5 DEF NtCreateMutant, MutantTable
  <2>2. ASSUME NEW t \in Thread, state[t] = "Waiting", NEW k \in Range(block[t].keys), Signaled(k, t)'
        PROVE  Signaled(k, t)
    <3>1. CASE k[1] = "mutant"
      <4>1. k[2] \in Mutant /\ k[2] < next_mutant
        BY <2>2, <3>1, BlockKeys DEF NamesInv, BlockNames
      <4> QED
        BY <2>1, <2>2, <3>1, <4>1, SignaledNext, SignaledCases DEF Signaled
    <3>2. CASE k[1] # "mutant"
      <4>1. k \in handles' => k \in handles
        BY ZenonT(20), <2>1, <3>2, KeyParts
      <4>2. state' = state
        BY <2>1 DEF tableVars
      <4> QED
        BY ZenonT(20), <2>1, <2>2, <3>2, <4>1, <4>2, BlockKeys, SignaledNext, SignaledCases DEF Signaled
    <3> QED
      BY <3>1, <3>2
  <2>3. \A t \in Thread : StillParked(t) /\ state'[t] = state[t]
    BY <2>1 DEF StillParked, tableVars
  <2> QED
    BY <2>2, <2>3, SignalsFade
<1>6. ASSUME NEW e \in Event, Closing(e) PROVE NoLostWakeup'
  <2>1. \A x \in Event : event'[x].live /\ event'[x].signaled => event[x].live /\ event[x].signaled
    BY SMT, <1>0, <1>6 DEF Closing, EventTable
  <2> QED
    BY <1>6, <2>1, WakeupTable DEF Closing
<1> QED
  BY <1>1, <1>2, <1>3, <1>4, <1>5, <1>6

LEMMA WakeupSignals ==
    ASSUME TypeOK, TableInv, ~MutantMisuse, NamesInv, MutantInv, NoLostWakeup,
           \/ \E m \in Mutant : \E W \in SUBSET Thread : Handing(m, W)
           \/ \E e \in Event : \E W \in SUBSET Thread : Signaling(e, W)
           \/ \E o \in Object : \E W \in SUBSET Thread : SignalingObject(o, W)
           \/ \E W \in SUBSET Thread : Exiting(W)
    PROVE  NoLostWakeup'
<1>0. /\ event \in EventTable /\ mutant \in MutantTable /\ holds \in [Mutant -> [Thread -> Nat]]
      /\ Accounts(mutant, holds) /\ LaterFree /\ NoSelfWait
      /\ header \in [Address -> [auto : BOOLEAN, signaled : BOOLEAN]]
  BY ObjectTypes DEF TypeOK, MutantInv, MutantAccounts
<1>1. ASSUME NEW m \in Mutant, NEW W \in SUBSET Thread, Handing(m, W) PROVE NoLostWakeup'
  <2>1. /\ Freed(m) \in MutantTable /\ Dropped(m) \in [Mutant -> [Thread -> Nat]]
        /\ Accounts(Freed(m), Dropped(m))
        /\ Freed(m)[m].holder = Nobody
        /\ \A x \in Mutant : x # m => Freed(m)[x] = mutant[x]
    BY <1>1, <1>0, FreedAccounts DEF Handing
  <2>2. \A x \in Mutant : MutantKey(m) = MutantKey(x) => x = m
    BY SMT, KeyParts
  <2>3. /\ \A x \in Mutant : Freed(m)[x].holder \in {Nobody, mutant[x].holder}
        /\ \A x \in Mutant : MutantKey(m) = MutantKey(x) => Freed(m)[x].holder = Nobody /\ ~FALSE
    BY <2>1, <2>2
  <2>4. Waking(event, Freed(m), state, MutantKey(m), FALSE, W) /\ header' = header
    BY <1>1 DEF Handing
  <2>5. HandedOver(Freed(m), MutantKey(m), W)
    BY <1>0, <2>1, <2>3, <2>4, WakingMutants
  <2>6. ASSUME NEW t \in Thread, NEW k \in Key, k # MutantKey(m),
               KeySignaled(event, Freed(m), state, k, t)
        PROVE  Signaled(k, t)
    <3>1. CASE k[1] = "mutant"
      <4>1. PICK x \in Mutant : k = MutantKey(x)
        BY <3>1, KeyKinds
      <4>2. Freed(m)[x] = mutant[x]
        BY <2>1, <2>6, <4>1
      <4> QED
        BY SMT, <2>6, <3>1, <4>1, <4>2, KeyParts, SignaledCases DEF Signaled
    <3>2. CASE k[1] # "mutant"
      BY <2>6, <3>2, KeyKinds, SignaledCases DEF Signaled
    <3> QED
      BY <3>1, <3>2
  <2>7. MutantKey(m) \in Key /\ MutantKey(m) \in Handle /\ Exclusive(event, Freed(m), MutantKey(m))
    BY <2>1, KeyParts, KeyTypes DEF Exclusive, Handle, Key, MutantKey
  <2>8. NoneRaised(event, Freed(m), state, MutantKey(m))
    BY <2>6 DEF NoneRaised
  <2>9. HeadersKept(MutantKey(m)) /\ Spent(event, Freed(m), MutantKey(m), FALSE, W)
    BY <2>4, <2>7 DEF HeadersKept, Spent
  <2>10. FALSE \in BOOLEAN
    OBVIOUS
  <2> QED
    BY <1>0, <2>1, <2>4, <2>5, <2>7, <2>8, <2>9, <2>10, WakingWakeup
<1>2. ASSUME NEW ev, NEW st, NEW key, NEW wake_all \in BOOLEAN, NEW W,
             Waking(ev, mutant, st, key, wake_all, W), \A m \in Mutant : key # MutantKey(m)
      PROVE  HandedOver(mutant, key, W)
  <2>0. \A m \in Mutant : mutant[m].holder \in {Nobody, mutant[m].holder}
    OBVIOUS
  <2>00. \A m \in Mutant : key = MutantKey(m) => mutant[m].holder = Nobody /\ ~wake_all
    BY <1>2
  <2> QED
    BY <1>0, <1>2, <2>0, <2>00, WakingMutants
<1>3. ASSUME NEW e \in Event, NEW W \in SUBSET Thread, Signaling(e, W) PROVE NoLostWakeup'
  <2>1. /\ event[e].manual \in BOOLEAN /\ \A m \in Mutant : EventKey(e) # MutantKey(m)
    BY DEF TypeOK, EventKey, MutantKey
  <2>2. Waking(Raised(e), mutant, state, EventKey(e), event[e].manual, W) /\ header' = header
    BY <1>3 DEF Signaling
  <2>3. HandedOver(mutant, EventKey(e), W)
    BY <1>2, <2>1, <2>2
  <2>4. /\ Raised(e) \in EventTable /\ Raised(e)[e].manual = event[e].manual
        /\ \A x \in Event : x # e => Raised(e)[x] = event[x]
    BY <1>0 DEF Raised, EventTable
  <2>5. ASSUME NEW t \in Thread, NEW k \in Key, k # EventKey(e),
               KeySignaled(Raised(e), mutant, state, k, t)
        PROVE  Signaled(k, t)
    <3>1. CASE k[1] = "event"
      <4>1. PICK x \in Event : k = EventKey(x)
        BY <3>1, KeyKinds
      <4>2. Raised(e)[x] = event[x]
        BY <2>4, <2>5, <4>1
      <4> QED
        BY SMT, <2>5, <3>1, <4>1, <4>2, KeyParts, SignaledCases DEF Signaled
    <3>2. CASE k[1] # "event"
      BY <2>5, <3>2, KeyKinds, SignaledCases DEF Signaled
    <3> QED
      BY <3>1, <3>2
  <2>6. /\ EventKey(e) \in Key /\ EventKey(e) \in Handle
        /\ ~event[e].manual => Exclusive(Raised(e), mutant, EventKey(e))
    BY <2>4, KeyParts DEF Exclusive, Handle, Key, EventKey
  <2>7. NoneRaised(Raised(e), mutant, state, EventKey(e))
    BY <2>5 DEF NoneRaised
  <2>8. HeadersKept(EventKey(e)) /\ Spent(Raised(e), mutant, EventKey(e), event[e].manual, W)
    BY <2>2, <2>6 DEF HeadersKept, Spent
  <2> QED
    BY <1>0, <2>1, <2>2, <2>3, <2>4, <2>6, <2>7, <2>8, WakingWakeup
<1>4. ASSUME NEW o \in Object, NEW W \in SUBSET Thread, SignalingObject(o, W) PROVE NoLostWakeup'
  <2> DEFINE a == ObjectKey(o)
  <2>1. /\ (~header[a].auto) \in BOOLEAN /\ \A m \in Mutant : a # MutantKey(m)
        /\ a \in Address /\ a \in Key
    BY DEF ObjectKey, MutantKey, Address, Key
  <2>2. /\ Waking(event, mutant, state, a, ~header[a].auto, W)
        /\ header' = [header EXCEPT ![a].signaled = ~(header[a].auto /\ W # {})]
    BY <1>4 DEF SignalingObject
  <2> HIDE DEF a
  <2>3. HandedOver(mutant, a, W)
    BY <1>2, <2>1, <2>2
  <2>4. /\ \A x \in Address : x # a => header'[x] = header[x]
        /\ header'[a].signaled = ~(header[a].auto /\ W # {})
    BY <1>0, <2>1, <2>2
  <2>5. NoneRaised(event, mutant, state, a)
    BY DEF NoneRaised, Signaled
  <2>6. HeadersKept(a) /\ Spent(event, mutant, a, ~header[a].auto, W)
    BY <2>1, <2>4 DEF HeadersKept, Spent
  <2> QED
    BY <1>0, <2>1, <2>2, <2>3, <2>5, <2>6, WakingWakeup
<1>5. ASSUME NEW W \in SUBSET Thread, Exiting(W) PROVE NoLostWakeup'
  <2> DEFINE key == ThreadKey(current)
  <2>0. current \in Thread
    BY CurrentThread
  <2>1. key \in Key /\ \A m \in Mutant : key # MutantKey(m)
    BY <2>0 DEF ThreadKey, MutantKey, Handle, Key
  <2>2. /\ Waking(event, mutant, Dead, key, TRUE, W)
        /\ \A t \in Thread : state'[t] = "Waiting" => t \notin Candidates(KThreadKey(current))
        /\ header' = [header EXCEPT ![KThreadKey(current)].signaled = TRUE]
    BY <1>5 DEF Exiting
  <2>3. HandedOver(mutant, key, W)
    BY <1>2, <2>1, <2>2
  <2>4. ASSUME NEW t \in Thread, NEW k \in Key, k # key, KeySignaled(event, mutant, Dead, k, t)
        PROVE  Signaled(k, t)
    <3>1. CASE k[1] = "thread"
      <4>1. PICK x \in Thread : k = ThreadKey(x)
        BY <3>1, KeyKinds
      <4>2. Dead[x] = state[x]
        BY <2>4, <4>1, <2>0 DEF Dead, TypeOK
      <4> QED
        BY SMT, <2>4, <3>1, <4>1, <4>2, KeyParts, SignaledCases DEF Signaled
    <3>2. CASE k[1] # "thread"
      BY <2>4, <3>2, KeyKinds, SignaledCases DEF Signaled
    <3> QED
      BY <3>1, <3>2
  <2>5. ASSUME NEW t \in Thread, state'[t] = "Waiting", NEW a \in Address,
               a \in Range(block[t].keys), header'[a].signaled
        PROVE  header[a].signaled
    <3>1. state[t] = "Waiting"
      BY <2>2, <2>5 DEF Waking
    <3>2. a # KThreadKey(current)
      BY <2>2, <2>5, <3>1 DEF Candidates
    <3> QED
      BY <1>0, <2>2, <2>5, <3>2
  <2>6. NoneRaised(event, mutant, Dead, key)
    BY <2>4 DEF NoneRaised
  <2>7. HeadersKept(key) /\ Spent(event, mutant, key, TRUE, W)
    BY <2>5 DEF HeadersKept, Spent
  <2>8. TRUE \in BOOLEAN
    OBVIOUS
  <2> HIDE DEF key
  <2> QED
    BY <1>0, <2>1, <2>2, <2>3, <2>6, <2>7, <2>8, WakingWakeup
<1> QED
  BY <1>1, <1>3, <1>4, <1>5
=============================================================================
