------------------------ MODULE ThreadManagerProofs ------------------------
(***************************************************************************)
(* Theorems about ThreadManager, for every size of the thread, event and   *)
(* mutant tables, every clock bound and every set of guest inputs.         *)
(***************************************************************************)
EXTENDS WaitProofs, WellFoundedInduction

(* The prover of the steps that name none.                                 *)
USE ZenonT(20)

(* A nonempty set of naturals has a least element.                         *)
LEMMA LeastNatural ==
    ASSUME NEW S \in SUBSET Nat, S # {}
    PROVE  \E n \in S : \A m \in S : n <= m
<1> DEFINE R == OpToRel(<, Nat)
<1>1. IsWellFoundedOn(R, Nat)
  BY NatLessThanWellFounded
<1>2. \A x, y \in Nat : y < x => <<y, x>> \in R
  BY DEF OpToRel
<1> HIDE DEF R
<1>3. PICK n \in S : \A m \in S : <<m, n>> \notin R
  BY <1>1, WFMin
<1>4. \A m \in S : ~(m < n)
  BY <1>2, <1>3
<1> QED
  BY SMT, <1>3, <1>4

(* The position a wait-any wake reports is a position of the key.          *)
LEMMA FirstIndexPosition ==
    ASSUME NEW keys \in Seq(Key), NEW key \in Range(keys)
    PROVE  /\ FirstIndex(keys, key) \in DOMAIN keys
           /\ FirstIndex(keys, key) \in Nat \ {0}
           /\ keys[FirstIndex(keys, key)] = key
<1> DEFINE S == {i \in DOMAIN keys : keys[i] = key}
<1>1. S \subseteq Nat /\ S # {} /\ DOMAIN keys = 1 .. Len(keys) /\ Len(keys) \in Nat
  BY SMT DEF Range
<1>2. PICK n \in S : \A m \in S : n <= m
  BY <1>1, LeastNatural
<1>3. n \in DOMAIN keys /\ keys[n] = key /\ \A j \in 1 .. n - 1 : keys[j] # key
  BY SMT, <1>1, <1>2
<1> HIDE DEF S
<1> QED
  BY SMT, <1>1, <1>3 DEF FirstIndex

-----------------------------------------------------------------------------
(* Wakes.  Only the clock, an exit and the three signals take a thread out *)
(* of its wait.                                                            *)
NoneWoken == \A t \in Thread : state[t] = "Waiting" => state'[t] = "Waiting"

LEMMA SwitchNoneWoken ==
    ASSUME TypeOK, NEW st \in [Thread -> States], NEW sv, NEW live, SwitchToReady(st, sv, live),
           \A t \in Thread : state[t] = "Waiting" => st[t] = "Waiting"
    PROVE  NoneWoken
  BY SwitchWaits DEF NoneWoken

LEMMA ParkNoneWoken ==
    ASSUME TypeOK, NEW keys, NEW all, NEW ms, NEW status, Park(keys, all, ms, status)
    PROVE  NoneWoken
<1>1. CASE Interrupted
  BY <1>1 DEF Park, NoneWoken, tableVars
<1>2. CASE ~Interrupted
  <2> DEFINE st == [state EXCEPT ![current] = "Waiting"]
  <2>1. \E sv, live : SwitchToReady(st, sv, live)
    BY <1>2 DEF Park
  <2>2. st \in [Thread -> States] /\ \A t \in Thread : state[t] = "Waiting" => st[t] = "Waiting"
    BY DEF TypeOK, States
  <2> HIDE DEF st
  <2> QED
    BY <2>1, <2>2, SwitchNoneWoken
<1> QED
  BY <1>1, <1>2

LEMMA TableNoneWoken == UNCHANGED tableVars => NoneWoken
  BY DEF tableVars, NoneWoken

Setting(e) ==
    /\ event[e].live
    /\ \E W \in SUBSET Candidates(EventKey(e)) :
          WakeByKey(Raised(e), mutant, EventKey(e), event[e].manual, W)

Yielding(m) ==
    \E W \in SUBSET Candidates(MutantKey(m)) :
        WakeByKey(event, Freed(m), MutantKey(m), FALSE, W)

SettingObject(o) ==
    LET a == ObjectKey(o)
    IN \E W \in SUBSET Candidates(a) :
          /\ WakeByKey(event, mutant, a, ~header[a].auto, W)
          /\ header' = [header EXCEPT ![a].signaled = ~(header[a].auto /\ W # {})]

LEMMA WakeKinds ==
    ASSUME TypeOK, TableInv, [Next]_vars
    PROVE  \/ NoneWoken
           \/ \E ms \in 1 .. MaxTime : AdvanceTimers(ms)
           \/ PsTerminateSystemThread
           \/ \E e \in Event : Setting(e)
           \/ \E m \in Mutant : Yielding(m)
           \/ \E o \in Object : SettingObject(o)
<1> USE CurrentThread
<1>1. CASE UNCHANGED vars
  BY <1>1, TableNoneWoken DEF vars
<1>2. CASE Fails
  BY <1>2, TableNoneWoken DEF Fails, vars
<1>3. ASSUME NEW b \in BOOLEAN, PsCreateSystemThreadEx(b), ~Fails PROVE NoneWoken
  <2>1. count < MaxThreads /\ state' = [state EXCEPT ![count] = IF b THEN "Suspended" ELSE "Ready"]
    BY <1>3 DEF PsCreateSystemThreadEx
  <2>2. count \in Thread /\ state[count] = "Absent"
    BY SMT, <2>1, BoundsAssumption DEF TypeOK, TableInv, Thread
  <2> QED
    BY <2>1, <2>2 DEF NoneWoken, TypeOK
<1>4. ASSUME NEW t \in Thread, NtResumeThread(t) \/ NtSuspendThread(t), ~Fails PROVE NoneWoken
  <2>1. \/ state' = [state EXCEPT ![t] = IF @ = "Suspended" THEN "Ready" ELSE @]
        \/ state' = [state EXCEPT ![t] = IF @ = "Ready" THEN "Suspended" ELSE @]
    BY <1>4 DEF NtResumeThread, NtSuspendThread
  <2> QED
    BY <2>1 DEF NoneWoken, TypeOK
<1>5. ASSUME NEW v \in Timeouts, KeDelayExecutionThread(v), ~Fails PROVE NoneWoken
  <2>1. UNCHANGED tableVars \/ Park(<< >>, FALSE, Milliseconds(v), STATUS_SUCCESS)
    BY <1>5 DEF KeDelayExecutionThread
  <2> QED
    BY <2>1, TableNoneWoken, ParkNoneWoken
<1>6. ASSUME NEW keys, NEW all, NEW v, PollOrPark(keys, all, v) PROVE NoneWoken
  BY <1>6, TableNoneWoken, ParkNoneWoken DEF PollOrPark
<1>7. ASSUME NEW h \in Handle, NEW v \in Timeouts, NtWaitForSingleObject(h, v), ~Fails PROVE NoneWoken
  <2>1. UNCHANGED tableVars \/ PollOrPark(<<h>>, FALSE, v)
    BY <1>7 DEF NtWaitForSingleObject, TakeNow
  <2> QED
    BY <1>6, <2>1, TableNoneWoken
<1>8. ASSUME NEW keys \in MultiKeys, NEW all \in BOOLEAN, NEW v \in Timeouts,
             NtWaitForMultipleObjectsEx(keys, all, v), ~Fails
      PROVE  NoneWoken
  <2>1. UNCHANGED tableVars \/ PollOrPark(keys, all, v)
    BY <1>8 DEF NtWaitForMultipleObjectsEx, TakeNow
  <2> QED
    BY <1>6, <2>1, TableNoneWoken
<1>9. ASSUME NEW a \in Address, NEW v \in Timeouts, KeWaitForSingleObject(a, v) PROVE NoneWoken
  <2>1. UNCHANGED tableVars \/ PollOrPark(<<a>>, FALSE, v)
    BY <1>9 DEF KeWaitForSingleObject
  <2> QED
    BY <1>6, <2>1, TableNoneWoken
<1>10. CASE RotateActive
  <2>1. PICK next \in Thread : /\ state[next] = "Ready"
                               /\ state' = [state EXCEPT
                                      ![current] = IF @ = "Running" THEN "Ready" ELSE @,
                                      ![next] = "Running"]
    BY <1>10 DEF RotateActive
  <2> QED
    BY <2>1 DEF NoneWoken, TypeOK
<1>11. CASE ResumeAnyReady
  BY <1>11, SwitchNoneWoken DEF ResumeAnyReady, TypeOK
<1>12. CASE DeliverFrame \/ FinishInterrupt
  BY <1>12, TableNoneWoken DEF DeliverFrame, FinishInterrupt
<1>13. ASSUME NEW x, NEW y, NtCreateEvent(x, y) PROVE NoneWoken
  BY <1>13, TableNoneWoken DEF NtCreateEvent
<1>14. ASSUME NEW x, NtCreateMutant(x) PROVE NoneWoken
  BY <1>14, TableNoneWoken DEF NtCreateMutant
<1>15. ASSUME NEW h \in Handle, NtClose(h), ~Fails PROVE NoneWoken
  BY <1>15, TableNoneWoken DEF NtClose
<1>16. ASSUME NEW e \in Event, NtSetEvent(e), ~Fails PROVE Setting(e)
  BY <1>16 DEF NtSetEvent, Setting, Raised
<1>17. ASSUME NEW m \in Mutant, NtReleaseMutant(m), ~Fails PROVE NoneWoken \/ Yielding(m)
  BY <1>17, TableNoneWoken DEF NtReleaseMutant, Yielding, Freed
<1>18. ASSUME NEW o \in Object, KeSetEvent(o) PROVE SettingObject(o)
  BY <1>18 DEF KeSetEvent, SettingObject
<1>19. CASE ThreadCalls
  BY <1>2, <1>3, <1>4, <1>5, <1>19, <1>1 DEF ThreadCalls, NtYieldExecution
<1>20. CASE ObjectCalls
  BY <1>2, <1>13, <1>14, <1>15, <1>16, <1>17, <1>18, <1>20 DEF ObjectCalls
<1>21. CASE WaitCalls
  BY <1>2, <1>7, <1>8, <1>9, <1>21 DEF WaitCalls
<1>22. CASE RunLoopSteps
  BY <1>10, <1>11, <1>12, <1>22 DEF RunLoopSteps
<1> QED
  BY <1>1, <1>19, <1>20, <1>21, <1>22 DEF Next

(* What the two action properties say of one step.                         *)
Reason(t, eax) ==
    LET b == block[t]
    IN \/ /\ b.deadline # Infinite /\ b.deadline <= elapsed'
          /\ eax = b.timeout_status
       \/ b.all /\ eax = STATUS_SUCCESS
       \/ /\ ~b.all /\ eax + 1 \in DOMAIN b.keys
          /\ LET k == b.keys[eax + 1]
             IN \/ k[1] = "mutant" /\ mutant'[k[2]].holder = t
                \/ k[1] \in {"thread", "kthread"}
                      /\ state'[k[2]] = "Terminated"
                \/ k[1] = "event" /\ event[k[2]].live
                \/ k[1] = "object"

Outcome(t) == IF state'[t] = "Running" THEN cpu'.eax ELSE saved'[t].eax

Shared(t, u) ==
    \E k \in Range(block[t].keys) \cap Range(block[u].keys) :
        \/ k[1] = "event" /\ event'[k[2]].manual /\ event'[k[2]].signaled
        \/ k[1] = "object" /\ header'[k].signaled

(* A wake on a key reports that key, or success for a wait-all.            *)
LEMMA StatusReason ==
    ASSUME TypeOK, NEW key \in Key, NEW t \in Candidates(key),
           \/ key[1] = "mutant" /\ mutant'[key[2]].holder = t
           \/ key[1] \in {"thread", "kthread"} /\ state'[key[2]] = "Terminated"
           \/ key[1] = "event" /\ event[key[2]].live
           \/ key[1] = "object"
    PROVE  Reason(t, WakeStatus(key, t))
<1>1. t \in Thread /\ block[t].keys \in Seq(Key) /\ key \in Range(block[t].keys)
  BY DEF Candidates, TypeOK, WaitBlock
<1>2. CASE block[t].all
  BY <1>2 DEF WakeStatus, Reason
<1>3. CASE ~block[t].all
  <2> DEFINE i == FirstIndex(block[t].keys, key)
  <2>1. i \in DOMAIN block[t].keys /\ i \in Nat \ {0} /\ block[t].keys[i] = key
    BY <1>1, FirstIndexPosition
  <2>2. WakeStatus(key, t) = i - 1 /\ (i - 1) + 1 = i
    BY SMT, <1>3, <2>1 DEF WakeStatus
  <2> HIDE DEF i
  <2> QED
    BY <1>3, <2>1, <2>2 DEF Reason
<1> QED
  BY <1>2, <1>3

LEMMA WakeByKeyOutcome ==
    ASSUME TypeOK, NEW ev, NEW mu, NEW key, NEW wake_all, NEW W \in SUBSET Candidates(key),
           WakeByKey(ev, mu, key, wake_all, W),
           NEW t \in Thread, state[t] = "Waiting", state'[t] # "Waiting"
    PROVE  t \in W /\ t \in Candidates(key) /\ Outcome(t) = WakeStatus(key, t)
<1>1. /\ state' = ReadyStates(state, W)
      /\ saved' = ReadyContexts(W, [x \in W |-> WakeStatus(key, x)])
  BY DEF WakeByKey
<1>2. t \in W /\ state'[t] = "Ready"
  BY <1>1 DEF ReadyStates
<1>3. saved'[t] = [saved[t] EXCEPT !.eax = WakeStatus(key, t)]
  BY <1>1, <1>2 DEF ReadyContexts
<1>4. saved[t] \in CpuState
  BY DEF TypeOK
<1>5. saved'[t].eax = WakeStatus(key, t)
  BY <1>3, <1>4 DEF CpuState
<1> QED
  BY <1>2, <1>5 DEF Outcome

LEMMA ExitOutcome ==
    ASSUME TypeOK, TableInv, PsTerminateSystemThread,
           NEW t \in Thread, state[t] = "Waiting", state'[t] # "Waiting"
    PROVE  /\ state'[current] = "Terminated"
           /\ \E key \in {ThreadKey(current), KThreadKey(current)} :
                 t \in Candidates(key) /\ Outcome(t) = WakeStatus(key, t)
<1> DEFINE key == ThreadKey(current)
           kthread == KThreadKey(current)
           joined == Candidates(kthread)
<1>1. PICK W \in SUBSET Candidates(key) :
         SwitchToReady(
               ReadyStates(Dead, W \cup joined),
               ReadyContexts(W \cup joined, [x \in W \cup joined |->
                  WakeStatus(IF x \in W THEN key ELSE kthread, x)]), cpu)
  BY DEF PsTerminateSystemThread, Dead
<1> DEFINE V == W \cup joined
           st == ReadyStates(Dead, V)
           key_of(x) == IF x \in W THEN key ELSE kthread
           sv == ReadyContexts(V, [x \in V |-> WakeStatus(key_of(x), x)])
<1>2. /\ SwitchToReady(st, sv, cpu)
      /\ state[current] = "Running" /\ current \in Thread
  BY <1>1, CurrentThread DEF PsTerminateSystemThread
<1>3. V \in SUBSET Thread /\ Dead \in [Thread -> States] /\ \A x \in V : state[x] = "Waiting"
  BY DEF Candidates, TypeOK, States, Dead
<1>4. st \in [Thread -> States]
  BY <1>3 DEF ReadyStates, States
<1> HIDE DEF V
<1>5. t \in V /\ st[t] = "Ready"
  <2>1. st[t] # "Waiting"
    BY <1>2, <1>4, SwitchWaits
  <2>2. Dead[t] = "Waiting"
    BY <1>2 DEF Dead, TypeOK
  <2> QED
    BY <2>1, <2>2 DEF ReadyStates
<1>6. sv[t].eax = WakeStatus(key_of(t), t)
  <2>1. sv[t] = [saved[t] EXCEPT !.eax = WakeStatus(key_of(t), t)]
    BY <1>5 DEF ReadyContexts
  <2>2. saved[t] \in CpuState
    BY DEF TypeOK
  <2> QED
    BY <2>1, <2>2 DEF CpuState
<1>7. state'[current] = "Terminated"
  <2>1. current \notin V /\ Dead[current] = "Terminated"
    BY <1>2, <1>3 DEF Dead, TypeOK
  <2>2. st[current] = "Terminated"
    BY <1>2, <2>1 DEF ReadyStates
  <2> QED
    BY <1>2, <1>4, <2>2, SwitchWaits
<1> HIDE DEF st, sv, key_of
<1>8. Outcome(t) = sv[t].eax
  <2>1. saved' = sv
    BY <1>2 DEF SwitchToReady
  <2>2. ASSUME state'[t] = "Running" PROVE cpu' = sv[t]
    <3>1. PICK next \in Thread : state' = [st EXCEPT ![next] = "Running"] /\ cpu' = sv[next]
      BY <1>2, <1>5, <2>2 DEF SwitchToReady
    <3>2. next = t
      BY <1>4, <1>5, <2>2, <3>1
    <3> QED
      BY <3>1, <3>2
  <2> QED
    BY <2>1, <2>2 DEF Outcome
<1>9. t \in Candidates(key_of(t)) /\ key_of(t) \in {key, kthread}
  BY <1>5 DEF key_of, V
<1> QED
  BY <1>6, <1>7, <1>8, <1>9

LEMMA ReasonStep ==
    ASSUME TypeOK, TableInv, [Next]_vars,
           NEW t \in Thread, state[t] = "Waiting", state'[t] # "Waiting"
    PROVE  Reason(t, Outcome(t))
<1>1. CASE NoneWoken
  BY <1>1 DEF NoneWoken
<1>2. ASSUME NEW ms \in 1 .. MaxTime, AdvanceTimers(ms) PROVE Reason(t, Outcome(t))
  <2> DEFINE late == Expired(elapsed + ms)
  <2>1. /\ elapsed' = elapsed + ms
        /\ state' = ReadyStates(state, late)
        /\ saved' = ReadyContexts(late, [x \in late |-> block[x].timeout_status])
    BY <1>2 DEF AdvanceTimers
  <2>2. t \in late /\ state'[t] = "Ready"
    BY <2>1 DEF ReadyStates
  <2>3. block[t].deadline # Infinite /\ block[t].deadline <= elapsed'
    BY <2>1, <2>2 DEF Expired
  <2> HIDE DEF late
  <2>4. saved'[t] = [saved[t] EXCEPT !.eax = block[t].timeout_status]
    BY <2>1, <2>2 DEF ReadyContexts
  <2>5. saved[t] \in CpuState
    BY DEF TypeOK
  <2>6. saved'[t].eax = block[t].timeout_status
    BY <2>4, <2>5 DEF CpuState
  <2> QED
    BY <2>2, <2>3, <2>6 DEF Reason, Outcome
<1>3. CASE PsTerminateSystemThread
  <2>1. PICK key \in {ThreadKey(current), KThreadKey(current)} :
           t \in Candidates(key) /\ Outcome(t) = WakeStatus(key, t)
    BY <1>3, ExitOutcome
  <2>2. /\ key \in Key /\ key[1] \in {"thread", "kthread"} /\ key[2] = current
        /\ state'[current] = "Terminated"
    BY SMT, <1>3, ExitOutcome, CurrentThread DEF ThreadKey, KThreadKey, Key, Handle, Address
  <2> QED
    BY <2>1, <2>2, StatusReason
<1>4. ASSUME NEW e \in Event, Setting(e) PROVE Reason(t, Outcome(t))
  <2>1. PICK W \in SUBSET Candidates(EventKey(e)) :
           WakeByKey(Raised(e), mutant, EventKey(e), event[e].manual, W)
    BY <1>4 DEF Setting
  <2>2. EventKey(e) \in Key /\ EventKey(e)[1] = "event" /\ EventKey(e)[2] = e /\ event[e].live
    BY <1>4, KeyParts DEF EventKey, Key, Handle, Setting
  <2>3. t \in Candidates(EventKey(e)) /\ Outcome(t) = WakeStatus(EventKey(e), t)
    BY <2>1, WakeByKeyOutcome
  <2> QED
    BY <2>2, <2>3, StatusReason
<1>5. ASSUME NEW m \in Mutant, Yielding(m) PROVE Reason(t, Outcome(t))
  <2> DEFINE key == MutantKey(m)
  <2>1. PICK W \in SUBSET Candidates(key) : WakeByKey(event, Freed(m), key, FALSE, W)
    BY <1>5 DEF Yielding
  <2>2. key \in Key /\ key[1] = "mutant" /\ key[2] = m
    BY KeyParts DEF MutantKey, Key, Handle
  <2>3. t \in W /\ t \in Candidates(key) /\ Outcome(t) = WakeStatus(key, t)
    BY <2>1, WakeByKeyOutcome
  <2>4. /\ Woken(event, Freed(m), state, key, FALSE, W)
        /\ mutant' = ConsumeMutants(Freed(m), Taken(key, W), [k \in Taken(key, W) |-> Taker(W, key, k)])
    BY <2>1 DEF WakeByKey, Taken
  <2> HIDE DEF key
  <2>5. key \in Taken(key, W)
    <3>1. key \in Consumed(key, t)
      BY <2>3 DEF Consumed, Candidates
    <3> QED
      BY <2>3, <3>1 DEF Taken
  <2>6. Taker(W, key, key) = t
    <3>1. Taker(W, key, key) \in W
      BY <2>5, TakerType DEF Taken
    <3> QED
      BY <2>3, <2>4, <3>1, WokenSingle
  <2>7. Freed(m)[m].holder = Nobody
    BY DEF Freed, TypeOK
  <2>8. mutant'[m].holder = t
    BY <2>4, <2>5, <2>6, <2>7 DEF ConsumeMutants, key
  <2> QED
    BY <2>2, <2>3, <2>8, StatusReason
<1>6. ASSUME NEW o \in Object, SettingObject(o) PROVE Reason(t, Outcome(t))
  <2> DEFINE a == ObjectKey(o)
  <2>1. PICK W \in SUBSET Candidates(a) : WakeByKey(event, mutant, a, ~header[a].auto, W)
    BY <1>6 DEF SettingObject
  <2>2. a \in Key /\ a[1] = "object"
    BY KeyParts DEF ObjectKey, Key, Address
  <2> HIDE DEF a
  <2>3. t \in Candidates(a) /\ Outcome(t) = WakeStatus(a, t)
    BY <2>1, WakeByKeyOutcome
  <2> QED
    BY <2>2, <2>3, StatusReason
<1> QED
  BY <1>1, <1>2, <1>3, <1>4, <1>5, <1>6, WakeKinds

LEMMA SharedStep ==
    ASSUME TypeOK, TableInv, [Next]_vars,
           NEW t \in Thread, state[t] = "Waiting", state'[t] # "Waiting",
           NEW u \in Thread, state[u] = "Waiting", state'[u] # "Waiting",
           t # u, elapsed' = elapsed, state'[current] # "Terminated"
    PROVE  Shared(t, u)
<1>1. CASE NoneWoken
  BY <1>1 DEF NoneWoken
<1>2. ASSUME NEW ms \in 1 .. MaxTime, AdvanceTimers(ms) PROVE FALSE
  <2>1. elapsed' = elapsed + ms /\ elapsed \in Nat
    BY <1>2 DEF AdvanceTimers, TypeOK
  <2> QED
    BY SMT, <2>1, BoundsAssumption
<1>3. CASE PsTerminateSystemThread
  BY <1>3, ExitOutcome
<1>4. ASSUME NEW e \in Event, Setting(e) PROVE Shared(t, u)
  <2> DEFINE key == EventKey(e)
  <2>1. PICK W \in SUBSET Candidates(key) : WakeByKey(Raised(e), mutant, key, event[e].manual, W)
    BY <1>4 DEF Setting
  <2>2. t \in W /\ u \in W
    BY <2>1, WakeByKeyOutcome
  <2>3. event[e].manual
    <3>1. event[e].manual \in BOOLEAN /\ Woken(Raised(e), mutant, state, key, event[e].manual, W)
      BY <2>1 DEF TypeOK, WakeByKey
    <3>2. ASSUME event[e].manual = FALSE PROVE FALSE
      <4>1. Woken(Raised(e), mutant, state, key, FALSE, W)
        BY <3>1, <3>2
      <4> QED
        BY <2>2, <4>1, WokenSingle
    <3> QED
      BY <3>1, <3>2
  <2>4. Raised(e)[e].manual /\ Raised(e)[e].signaled
    BY <2>3 DEF Raised, TypeOK
  <2>5. event'[e] = Raised(e)[e]
    BY <2>1, <2>4 DEF WakeByKey, ConsumeEvents
  <2>6. key \in Range(block[t].keys) /\ key \in Range(block[u].keys)
    BY <2>2 DEF Candidates
  <2>7. key[1] = "event" /\ key[2] = e
    BY KeyParts
  <2> QED
    BY <2>4, <2>5, <2>6, <2>7 DEF Shared
<1>5. ASSUME NEW m \in Mutant, Yielding(m) PROVE FALSE
  <2>1. PICK W \in SUBSET Candidates(MutantKey(m)) :
           WakeByKey(event, Freed(m), MutantKey(m), FALSE, W)
    BY <1>5 DEF Yielding
  <2>2. t \in W /\ u \in W
    BY <2>1, WakeByKeyOutcome
  <2>3. Woken(event, Freed(m), state, MutantKey(m), FALSE, W)
    BY <2>1 DEF WakeByKey
  <2> QED
    BY <2>2, <2>3, WokenSingle
<1>6. ASSUME NEW o \in Object, SettingObject(o) PROVE Shared(t, u)
  <2> DEFINE a == ObjectKey(o)
  <2>1. PICK W \in SUBSET Candidates(a) :
           /\ WakeByKey(event, mutant, a, ~header[a].auto, W)
           /\ header' = [header EXCEPT ![a].signaled = ~(header[a].auto /\ W # {})]
    BY <1>6 DEF SettingObject
  <2>0. a \in Address /\ a[1] = "object"
    BY KeyParts DEF ObjectKey, Address
  <2> HIDE DEF a
  <2>2. t \in W /\ u \in W
    BY <2>1, WakeByKeyOutcome
  <2>3. ~header[a].auto
    <3>1. Woken(event, mutant, state, a, ~header[a].auto, W)
      BY <2>1 DEF WakeByKey
    <3>2. ASSUME NEW x, x = FALSE, Woken(event, mutant, state, a, x, W) PROVE FALSE
      BY <2>2, <3>2, WokenSingle
    <3>3. (~header[a].auto) # FALSE
      BY <3>1, <3>2
    <3> QED
      BY <3>3
  <2>4. header'[a].signaled
    BY <2>0, <2>1, <2>3 DEF TypeOK
  <2>5. a \in Range(block[t].keys) /\ a \in Range(block[u].keys)
    BY <2>2 DEF Candidates
  <2> QED
    BY <2>0, <2>4, <2>5 DEF Shared
<1> QED
  BY <1>1, <1>2, <1>3, <1>4, <1>5, <1>6, WakeKinds

-----------------------------------------------------------------------------
(* Contexts of ready threads.                                              *)
Idle == {"Ready", "Suspended"}

ContextKept(t) ==
    state[t] \in Idle =>
        /\ state'[t] \in Idle => saved'[t] = saved[t]
        /\ state'[t] = "Running" => cpu' = saved[t]

(* Steps that move no thread into or out of the ready states, and write    *)
(* contexts only of threads that are in neither.                           *)
LEMMA ContextQuiet ==
    ASSUME NEW t \in Thread,
           state[t] \in Idle => state'[t] \in Idle /\ saved'[t] = saved[t]
    PROVE  ContextKept(t)
  BY DEF ContextKept, Idle

LEMMA SwitchKept ==
    ASSUME NEW st \in [Thread -> States], NEW sv, NEW live, SwitchToReady(st, sv, live),
           NEW t \in Thread, state[t] \in Idle => st[t] = state[t] /\ sv[t] = saved[t]
    PROVE  ContextKept(t)
<1>1. saved' = sv
  BY DEF SwitchToReady
<1>2. CASE state' = st
  BY <1>1, <1>2, ContextQuiet
<1>3. CASE state' # st
  <2>1. PICK next \in Thread : state' = [st EXCEPT ![next] = "Running"] /\ cpu' = sv[next]
    BY <1>3 DEF SwitchToReady
  <2> QED
    BY <1>1, <2>1 DEF ContextKept, Idle
<1> QED
  BY <1>2, <1>3

LEMMA ReadyKept ==
    ASSUME TypeOK, NEW W \in SUBSET Thread, \A w \in W : state[w] = "Waiting", NEW status,
           state' = ReadyStates(state, W), saved' = ReadyContexts(W, status), NEW t \in Thread
    PROVE  ContextKept(t)
<1>1. state[t] \in Idle => t \notin W
  BY DEF Idle
<1> QED
  BY <1>1, ContextQuiet DEF ReadyStates, ReadyContexts

LEMMA ParkKept ==
    ASSUME TypeOK, TableInv, GuestRuns, NEW keys, NEW all, NEW ms, NEW status,
           Park(keys, all, ms, status), NEW t \in Thread
    PROVE  ContextKept(t)
<1>1. CASE Interrupted
  BY <1>1, ContextQuiet DEF Park, tableVars
<1>2. CASE ~Interrupted
  <2> DEFINE st == [state EXCEPT ![current] = "Waiting"]
             returned == [cpu EXCEPT !.eax = STATUS_SUCCESS]
             sv == [saved EXCEPT ![current] = returned]
  <2>1. SwitchToReady(st, sv, returned)
    BY <1>2 DEF Park
  <2>2. state[current] = "Running" /\ current \in Thread
    BY <1>2, CurrentThread DEF GuestRuns
  <2> HIDE DEF returned
  <2>3. st \in [Thread -> States] /\ (state[t] \in Idle => st[t] = state[t] /\ sv[t] = saved[t])
    BY <2>2 DEF TypeOK, States, Idle
  <2> HIDE DEF st, sv
  <2> QED
    BY <2>1, <2>3, SwitchKept
<1> QED
  BY <1>1, <1>2

LEMMA ContextStep ==
    ASSUME TypeOK, TableInv, ~Interpreter, [Next]_vars, NEW t \in Thread
    PROVE  ContextKept(t)
<1> USE CurrentThread
<1>0. ASSUME UNCHANGED tableVars PROVE ContextKept(t)
  BY <1>0, ContextQuiet DEF tableVars
<1>1. CASE UNCHANGED vars
  BY <1>0, <1>1 DEF vars
<1>2. CASE Fails
  BY <1>0, <1>2 DEF Fails, vars
<1>3. ASSUME NEW b \in BOOLEAN, PsCreateSystemThreadEx(b), ~Fails PROVE ContextKept(t)
  <2>1. /\ count < MaxThreads /\ state' = [state EXCEPT ![count] = IF b THEN "Suspended" ELSE "Ready"]
        /\ saved' = [saved EXCEPT ![count] = [owner |-> count, eax |-> STATUS_SUCCESS]]
    BY <1>3 DEF PsCreateSystemThreadEx
  <2>2. count \in Thread /\ state[count] = "Absent"
    BY SMT, <2>1, BoundsAssumption DEF TypeOK, TableInv, Thread
  <2>3. state[t] \in Idle => t # count
    BY <2>2 DEF Idle
  <2> QED
    BY <2>1, <2>3, ContextQuiet DEF TypeOK
<1>4. ASSUME NEW x \in Thread, NtResumeThread(x) \/ NtSuspendThread(x), ~Fails PROVE ContextKept(t)
  <2>1. /\ \/ state' = [state EXCEPT ![x] = IF @ = "Suspended" THEN "Ready" ELSE @]
           \/ state' = [state EXCEPT ![x] = IF @ = "Ready" THEN "Suspended" ELSE @]
        /\ saved' = saved
    BY <1>4 DEF NtResumeThread, NtSuspendThread
  <2>2. state[t] \in Idle => state'[t] \in Idle
    BY <2>1 DEF TypeOK, Idle
  <2> QED
    BY <2>1, <2>2, ContextQuiet
<1>5. ASSUME NEW v \in Timeouts, KeDelayExecutionThread(v), ~Fails PROVE ContextKept(t)
  <2>1. GuestRuns /\ (UNCHANGED tableVars \/ Park(<< >>, FALSE, Milliseconds(v), STATUS_SUCCESS))
    BY <1>5 DEF KeDelayExecutionThread
  <2> QED
    BY <1>0, <2>1, ParkKept
<1>6. ASSUME NEW keys, NEW all, NEW v, GuestRuns, PollOrPark(keys, all, v) PROVE ContextKept(t)
  BY <1>0, <1>6, ParkKept DEF PollOrPark
<1>7. ASSUME NEW h \in Handle, NEW v \in Timeouts, NtWaitForSingleObject(h, v), ~Fails
      PROVE  ContextKept(t)
  <2>1. GuestRuns /\ (UNCHANGED tableVars \/ PollOrPark(<<h>>, FALSE, v))
    BY <1>7 DEF NtWaitForSingleObject, TakeNow
  <2> QED
    BY <1>0, <1>6, <2>1
<1>8. ASSUME NEW keys \in MultiKeys, NEW all \in BOOLEAN, NEW v \in Timeouts,
             NtWaitForMultipleObjectsEx(keys, all, v), ~Fails
      PROVE  ContextKept(t)
  <2>1. GuestRuns /\ (UNCHANGED tableVars \/ PollOrPark(keys, all, v))
    BY <1>8 DEF NtWaitForMultipleObjectsEx, TakeNow
  <2> QED
    BY <1>0, <1>6, <2>1
<1>9. ASSUME NEW a \in Address, NEW v \in Timeouts, KeWaitForSingleObject(a, v) PROVE ContextKept(t)
  <2>1. GuestRuns /\ (UNCHANGED tableVars \/ PollOrPark(<<a>>, FALSE, v))
    BY <1>9 DEF KeWaitForSingleObject
  <2> QED
    BY <1>0, <1>6, <2>1
<1>10. CASE RotateActive
  <2>1. PICK next \in Thread : /\ state[next] = "Ready"
                               /\ saved' = [saved EXCEPT ![current] = cpu]
                               /\ state' = [state EXCEPT
                                      ![current] = IF @ = "Running" THEN "Ready" ELSE @,
                                      ![next] = "Running"]
                               /\ cpu' = saved[next]
    BY <1>10 DEF RotateActive
  <2>2. state[current] = "Running"
    BY <1>10 DEF RotateActive
  <2>3. state[t] \in Idle => t # current
    BY <2>2 DEF Idle
  <2> QED
    BY <2>1, <2>2, <2>3 DEF ContextKept, Idle, TypeOK
<1>11. CASE ResumeAnyReady
  BY <1>11, SwitchKept DEF ResumeAnyReady, TypeOK
<1>12. CASE DeliverFrame \/ FinishInterrupt
  BY <1>0, <1>12 DEF DeliverFrame, FinishInterrupt
<1>13. ASSUME NEW x, NEW y, NtCreateEvent(x, y) PROVE ContextKept(t)
  BY <1>0, <1>13 DEF NtCreateEvent
<1>14. ASSUME NEW x, NtCreateMutant(x) PROVE ContextKept(t)
  BY <1>0, <1>14 DEF NtCreateMutant
<1>15. ASSUME NEW h \in Handle, NtClose(h), ~Fails PROVE ContextKept(t)
  BY <1>0, <1>15 DEF NtClose
<1>16. ASSUME NEW ev, NEW mu, NEW key, NEW wake_all, NEW W \in SUBSET Candidates(key),
              WakeByKey(ev, mu, key, wake_all, W)
       PROVE  ContextKept(t)
  <2>1. W \in SUBSET Thread /\ \A w \in W : state[w] = "Waiting"
    BY DEF Candidates
  <2>2. /\ state' = ReadyStates(state, W)
        /\ saved' = ReadyContexts(W, [x \in W |-> WakeStatus(key, x)])
    BY <1>16 DEF WakeByKey
  <2> QED
    BY <2>1, <2>2, ReadyKept
<1>17. ASSUME NEW e \in Event, NtSetEvent(e), ~Fails PROVE ContextKept(t)
  BY <1>16, <1>17 DEF NtSetEvent
<1>18. ASSUME NEW m \in Mutant, NtReleaseMutant(m), ~Fails PROVE ContextKept(t)
  BY <1>0, <1>16, <1>18 DEF NtReleaseMutant
<1>19. ASSUME NEW o \in Object, KeSetEvent(o) PROVE ContextKept(t)
  BY <1>16, <1>19 DEF KeSetEvent
<1>20. ASSUME NEW ms \in 1 .. MaxTime, AdvanceTimers(ms) PROVE ContextKept(t)
  <2> DEFINE late == Expired(elapsed + ms)
  <2>1. /\ state' = ReadyStates(state, late)
        /\ saved' = ReadyContexts(late, [x \in late |-> block[x].timeout_status])
    BY <1>20 DEF AdvanceTimers
  <2>2. late \in SUBSET Thread /\ \A w \in late : state[w] = "Waiting"
    BY DEF Expired
  <2> HIDE DEF late
  <2> QED
    BY <2>1, <2>2, ReadyKept
<1>21. CASE PsTerminateSystemThread
  <2> DEFINE key == ThreadKey(current)
             kthread == KThreadKey(current)
             joined == Candidates(kthread)
  <2>1. PICK W \in SUBSET Candidates(key) :
           SwitchToReady(
                 ReadyStates(Dead, W \cup joined),
                 ReadyContexts(W \cup joined, [x \in W \cup joined |->
                    WakeStatus(IF x \in W THEN key ELSE kthread, x)]), cpu)
    BY <1>21 DEF PsTerminateSystemThread, Dead
  <2> DEFINE V == W \cup joined
             st == ReadyStates(Dead, V)
             sv == ReadyContexts(V, [x \in V |-> WakeStatus(IF x \in W THEN key ELSE kthread, x)])
  <2>2. V \in SUBSET Thread /\ Dead \in [Thread -> States] /\ \A x \in V : state[x] = "Waiting"
    BY DEF Candidates, TypeOK, States, Dead
  <2>3. state[current] = "Running"
    BY <1>21 DEF PsTerminateSystemThread
  <2>4. SwitchToReady(st, sv, cpu)
    BY <2>1
  <2> HIDE DEF V
  <2>5. st \in [Thread -> States]
    BY <2>2 DEF ReadyStates, States
  <2>6. state[t] \in Idle => t \notin V /\ Dead[t] = state[t]
    BY <2>2, <2>3 DEF Idle, Dead, TypeOK
  <2>7. state[t] \in Idle => st[t] = state[t] /\ sv[t] = saved[t]
    BY <2>6 DEF ReadyStates, ReadyContexts
  <2> HIDE DEF st, sv
  <2> QED
    BY <2>4, <2>5, <2>7, SwitchKept
<1>22. CASE ThreadCalls
  BY <1>1, <1>2, <1>3, <1>4, <1>5, <1>21, <1>22 DEF ThreadCalls, NtYieldExecution
<1>23. CASE ObjectCalls
  BY <1>2, <1>13, <1>14, <1>15, <1>17, <1>18, <1>19, <1>23 DEF ObjectCalls
<1>24. CASE WaitCalls
  BY <1>2, <1>7, <1>8, <1>9, <1>24 DEF WaitCalls
<1>25. CASE RunLoopSteps
  BY <1>10, <1>11, <1>12, <1>20, <1>25 DEF RunLoopSteps
<1> QED
  BY <1>1, <1>22, <1>23, <1>24, <1>25 DEF Next

-----------------------------------------------------------------------------
(* Readying a set of parked threads keeps the table well-formed.           *)
LEMMA ReadyType ==
    ASSUME TypeOK, NEW W \in SUBSET Thread, NEW st \in [Thread -> States],
           NEW status \in [W -> Nat]
    PROVE  /\ ReadyStates(st, W) \in [Thread -> States]
           /\ ReadyContexts(W, status) \in [Thread -> CpuState]
           /\ ClearBlocks(W) \in [Thread -> WaitBlock]
           /\ (\A t \in Thread : saved[t].owner = t) =>
                 \A t \in Thread : ReadyContexts(W, status)[t].owner = t
<1>1. ReadyStates(st, W) \in [Thread -> States]
  BY DEF ReadyStates, States
<1>2. ReadyContexts(W, status) \in [Thread -> CpuState]
  BY DEF ReadyContexts, TypeOK, CpuState
<1>3. ClearBlocks(W) \in [Thread -> WaitBlock]
  BY SMT DEF ClearBlocks, TypeOK, WaitBlock, NoBlock, STATUS_SUCCESS
<1>4. (\A t \in Thread : saved[t].owner = t) =>
         \A t \in Thread : ReadyContexts(W, status)[t].owner = t
  BY DEF ReadyContexts, TypeOK, CpuState
<1> QED
  BY <1>1, <1>2, <1>3, <1>4

LEMMA WakeStatusType ==
    ASSUME TypeOK, NEW key \in Key, NEW t \in Candidates(key)
    PROVE  WakeStatus(key, t) \in Nat
<1>1. t \in Thread /\ block[t].keys \in Seq(Key) /\ key \in Range(block[t].keys)
  BY DEF Candidates, TypeOK, WaitBlock
<1>2. FirstIndex(block[t].keys, key) \in Nat \ {0}
  BY <1>1, FirstIndexPosition
<1> QED
  BY SMT, <1>2 DEF WakeStatus, STATUS_SUCCESS

(* Consuming keys keeps the object tables well-formed.                     *)
LEMMA ConsumeType ==
    ASSUME NEW ev \in [Event -> [live : BOOLEAN, manual : BOOLEAN, signaled : BOOLEAN]],
           NEW mu \in [Mutant -> [holder : Thread \cup {Nobody}, recursion : Nat]],
           NEW keys, NEW taker \in [keys -> Thread]
    PROVE  /\ ConsumeEvents(ev, keys)
                 \in [Event -> [live : BOOLEAN, manual : BOOLEAN, signaled : BOOLEAN]]
           /\ ConsumeMutants(mu, keys, taker)
                 \in [Mutant -> [holder : Thread \cup {Nobody}, recursion : Nat]]
  BY DEF ConsumeEvents, ConsumeMutants

(* The wake arbiter keeps the tables well-formed, wakes only parked        *)
(* threads, and leaves every context with its owner.                       *)
LEMMA WakeByKeyTable ==
    ASSUME TypeOK, TableInv, NEW ev \in EventTable, NEW mu \in MutantTable,
           NEW key \in Key, NEW wake_all \in BOOLEAN, NEW W \in SUBSET Candidates(key),
           WakeByKey(ev, mu, key, wake_all, W)
    PROVE  /\ state' \in [Thread -> States]
           /\ saved' \in [Thread -> CpuState]
           /\ block' \in [Thread -> WaitBlock]
           /\ event' \in EventTable
           /\ mutant' \in MutantTable
           /\ \A t \in Thread : saved'[t].owner = t
           /\ \A t \in Thread : state'[t] = state[t] \/ (state[t] = "Waiting" /\ state'[t] = "Ready")
<1> DEFINE taken == UNION {Consumed(key, w) : w \in W}
           status == [t \in W |-> WakeStatus(key, t)]
           taker == [k \in taken |-> Taker(W, key, k)]
<1>1. W \in SUBSET Thread /\ \A t \in W : state[t] = "Waiting"
  BY DEF Candidates
<1>2. status \in [W -> Nat]
  BY WakeStatusType
<1>3. taker \in [taken -> Thread]
  BY <1>1, TakerType
<1>4. state \in [Thread -> States] /\ \A t \in Thread : saved[t].owner = t
  BY DEF TypeOK, TableInv
<1>5. /\ state' = ReadyStates(state, W)
      /\ saved' = ReadyContexts(W, status)
      /\ block' = ClearBlocks(W)
      /\ event' = ConsumeEvents(ev, taken)
      /\ mutant' = ConsumeMutants(mu, taken, taker)
  BY DEF WakeByKey
<1> HIDE DEF taken, status, taker
<1>6. /\ state' \in [Thread -> States] /\ saved' \in [Thread -> CpuState]
      /\ block' \in [Thread -> WaitBlock] /\ \A t \in Thread : saved'[t].owner = t
  BY SMT, <1>1, <1>2, <1>4, <1>5, ReadyType
<1>7. event' \in EventTable /\ mutant' \in MutantTable
  BY <1>3, <1>5, ConsumeType DEF EventTable, MutantTable
<1>8. \A t \in Thread : state'[t] = state[t] \/ (state[t] = "Waiting" /\ state'[t] = "Ready")
  BY <1>1, <1>5 DEF ReadyStates
<1> QED
  BY <1>6, <1>7, <1>8

(* A switch to the first ready thread, from a table without a running one. *)
LEMMA SwitchTable ==
    ASSUME TypeOK, ~Interrupted, frame' = frame, count' = count,
           NEW st \in [Thread -> States], NEW sv \in [Thread -> CpuState],
           NEW live \in CpuState, live.owner = current,
           \A t \in Thread : st[t] # "Running" /\ sv[t].owner = t,
           \A t \in Thread : t >= count => st[t] = "Absent",
           SwitchToReady(st, sv, live)
    PROVE  /\ state' \in [Thread -> States]
           /\ saved' \in [Thread -> CpuState]
           /\ cpu' \in CpuState
           /\ current' \in 0 .. count' - 1
           /\ TableInv'
<1>1. saved' = sv /\ count \in 1 .. MaxThreads /\ current \in 0 .. count - 1
  BY DEF SwitchToReady, TypeOK
<1>2. CASE /\ state' = st
           /\ cpu' = live
           /\ current' = current
  BY <1>1, <1>2 DEF TableInv, SingleRunning, LiveContext, Interrupted
<1>3. ASSUME NEW next \in Thread, st[next] = "Ready",
             state' = [st EXCEPT ![next] = "Running"],
             cpu' = sv[next], current' = next
      PROVE  /\ state' \in [Thread -> States]
             /\ saved' \in [Thread -> CpuState]
             /\ cpu' \in CpuState
             /\ current' \in 0 .. count' - 1
             /\ TableInv'
  <2>1. next < count /\ next \in Nat
    BY SMT, <1>1, <1>3, BoundsAssumption DEF Thread
  <2>2. state' \in [Thread -> States] /\ cpu' \in CpuState /\ saved' \in [Thread -> CpuState]
    BY <1>1, <1>3 DEF States
  <2>3. TableInv'
    BY <1>1, <1>3, <2>1 DEF TableInv, SingleRunning, LiveContext, Interrupted
  <2> QED
    BY SMT, <1>1, <1>3, <2>1, <2>2, <2>3
<1> QED
  BY <1>2, <1>3 DEF SwitchToReady

LEMMA GrantedType ==
    ASSUME NEW h \in [Mutant -> [Thread -> Nat]], NEW W, NEW key
    PROVE  Granted(h, W, key) \in [Mutant -> [Thread -> Nat]]
  BY SMT DEF Granted

LEMMA InitTable == Init => TypeOK /\ TableInv
<1> SUFFICES ASSUME Init PROVE TypeOK /\ TableInv
  OBVIOUS
<1>1. 0 \in Thread /\ Thread \subseteq Int /\ Frame \notin Thread
  BY SMT, BoundsAssumption DEF Thread, Frame
<1>2. ~Interrupted /\ cpu \in CpuState /\ frame \in CpuState
  BY <1>1 DEF Init, Interrupted, NoFrame, CpuState, STATUS_SUCCESS
<1>3. block \in [Thread -> WaitBlock]
  BY SMT DEF Init, WaitBlock, NoBlock, STATUS_SUCCESS
<1>4. state \in [Thread -> States] /\ saved \in [Thread -> CpuState]
  BY DEF Init, States, CpuState, STATUS_SUCCESS
<1>5. event \in EventTable /\ mutant \in MutantTable
  BY DEF Init, EventTable, MutantTable
<1>6. header \in [Address -> [auto : BOOLEAN, signaled : BOOLEAN]]
  BY DEF Init
<1>7. TypeOK
  BY SMTT(30), <1>2, <1>3, <1>4, <1>5, <1>6, BoundsAssumption
     DEF Init, TypeOK, EventTable, MutantTable
<1>8. TableInv
  BY SMT, <1>1, <1>2 DEF Init, TableInv, SingleRunning, LiveContext, Thread
<1> QED
  BY <1>7, <1>8

(* A parked caller leaves the table well-formed.                           *)
LEMMA ParkTable ==
    ASSUME TypeOK, TableInv, GuestRuns, frame' = frame,
           NEW keys \in Seq(Key), NEW all \in BOOLEAN,
           NEW ms \in Nat \cup {Infinite}, NEW status \in Nat,
           Park(keys, all, ms, status)
    PROVE  /\ count' \in 1 .. MaxThreads
           /\ state' \in [Thread -> States]
           /\ saved' \in [Thread -> CpuState]
           /\ block' \in [Thread -> WaitBlock]
           /\ cpu' \in CpuState
           /\ current' \in 0 .. count' - 1
           /\ TableInv'
<1> DEFINE returned == [cpu EXCEPT !.eax = STATUS_SUCCESS]
           deadline == IF ms = Infinite THEN Infinite
                       ELSE elapsed + (IF ms < 1 THEN 1 ELSE ms)
<1>0. returned \in CpuState /\ returned.owner = cpu.owner
  BY DEF TypeOK, CpuState, STATUS_SUCCESS
<1>1. CASE Interrupted
  <2>1. cpu' = returned /\ UNCHANGED tableVars
    BY <1>1 DEF Park
  <2>2. TableInv'
    BY <1>1, <2>1 DEF TableInv, SingleRunning, LiveContext, Interrupted, tableVars
  <2> QED
    BY <1>0, <2>1, <2>2 DEF TypeOK, tableVars
<1>2. CASE ~Interrupted
  <2> DEFINE b == [keys |-> keys, all |-> all, deadline |-> deadline,
                   timeout_status |-> status]
             st == [state EXCEPT ![current] = "Waiting"]
             sv == [saved EXCEPT ![current] = returned]
  <2>1. /\ block' = [block EXCEPT ![current] = b]
        /\ SwitchToReady(st, sv, returned)
        /\ count' = count
    BY <1>2 DEF Park
  <2>2. deadline \in Nat \cup {Infinite}
    BY SMT DEF TypeOK, Infinite
  <2>3. block' \in [Thread -> WaitBlock]
    BY <2>1, <2>2 DEF TypeOK, WaitBlock
  <2>4. cpu.owner = current /\ state[current] = "Running" /\ current \in Thread
    BY <1>2, CurrentThread DEF TableInv, LiveContext, GuestRuns
  <2>5. st \in [Thread -> States] /\ sv \in [Thread -> CpuState]
    BY <1>0 DEF TypeOK, States
  <2>6. \A t \in Thread : st[t] # "Running" /\ sv[t].owner = t
    BY <1>0, <2>4 DEF TypeOK, TableInv, SingleRunning
  <2>7. \A t \in Thread : t >= count => st[t] = "Absent"
    BY <2>4 DEF TypeOK, TableInv
  <2>8. returned.owner = current
    BY <1>0, <2>4
  <2>9. count' \in 1 .. MaxThreads
    BY <2>1 DEF TypeOK
  <2> HIDE DEF st, sv, returned
  <2> QED
    BY <1>0, <1>2, <2>1, <2>3, <2>5, <2>6, <2>7, <2>8, <2>9, SwitchTable
<1> QED
  BY <1>1, <1>2

(* Steps that leave the thread table, the processor and the clock alone.   *)
LEMMA TableKept ==
    ASSUME TypeOK, TableInv, UNCHANGED <<tableVars, frame, elapsed>>,
           cpu' \in CpuState, cpu'.owner = cpu.owner,
           handles' \subseteq Handle, next_event' \in 0 .. MaxEvents,
           next_mutant' \in 0 .. MaxMutants, event' \in EventTable,
           mutant' \in MutantTable,
           header' \in [Address -> [auto : BOOLEAN, signaled : BOOLEAN]],
           holds' \in [Mutant -> [Thread -> Nat]]
    PROVE  TypeOK' /\ TableInv'
<1>1. TypeOK'
  BY DEF TypeOK, tableVars, EventTable, MutantTable
<1>2. TableInv'
  BY DEF TableInv, tableVars, SingleRunning, LiveContext, Interrupted
<1> QED
  BY <1>1, <1>2

(* Steps that wake by key and leave the processor alone.                   *)
LEMMA WakeTable ==
    ASSUME TypeOK, TableInv, NEW ev \in EventTable, NEW mu \in MutantTable,
           NEW key \in Key, NEW wake_all \in BOOLEAN, NEW W \in SUBSET Candidates(key),
           WakeByKey(ev, mu, key, wake_all, W),
           UNCHANGED <<count, current, processorVars, elapsed, handles, next_event, next_mutant>>,
           header' \in [Address -> [auto : BOOLEAN, signaled : BOOLEAN]],
           holds' \in [Mutant -> [Thread -> Nat]]
    PROVE  TypeOK' /\ TableInv'
<1>1. /\ state' \in [Thread -> States]
      /\ saved' \in [Thread -> CpuState]
      /\ block' \in [Thread -> WaitBlock]
      /\ event' \in EventTable
      /\ mutant' \in MutantTable
      /\ \A t \in Thread : saved'[t].owner = t
      /\ \A t \in Thread : state'[t] = state[t] \/ (state[t] = "Waiting" /\ state'[t] = "Ready")
  BY WakeByKeyTable
<1>2. TypeOK'
  BY <1>1 DEF TypeOK, processorVars, EventTable, MutantTable
<1>3. TableInv'
  BY SMT, <1>1 DEF TableInv, processorVars, SingleRunning, LiveContext, Interrupted
<1> QED
  BY <1>2, <1>3

LEMMA TimeoutType ==
    ASSUME NEW v \in Timeouts
    PROVE  /\ ReadTimeoutMs(v) \in Nat \cup {Infinite}
           /\ v # NullPointer => v \in Int
           /\ (v # NullPointer /\ v < 0) => Milliseconds(v) \in Nat
<1>1. v = NullPointer \/ (v # NullPointer /\ v \in Int)
  BY InputsAssumption
<1>2. ASSUME v # NullPointer, v \in Int, v < 0 PROVE Milliseconds(v) \in Nat
  BY SMT, <1>2 DEF Milliseconds
<1>3. ReadTimeoutMs(v) \in Nat \cup {Infinite}
  BY SMT, <1>1, <1>2 DEF ReadTimeoutMs
<1> QED
  BY <1>1, <1>2, <1>3

LEMMA ReturnsType ==
    ASSUME TypeOK, NEW status \in Nat, Returns(status)
    PROVE  cpu' \in CpuState /\ cpu'.owner = cpu.owner
  BY DEF Returns, TypeOK, CpuState

(* An unsatisfied wait, and a satisfied one.                               *)
LEMMA PollOrParkTable ==
    ASSUME TypeOK, TableInv, GuestRuns, NEW keys \in Seq(Key), NEW all \in BOOLEAN,
           NEW v \in Timeouts, PollOrPark(keys, all, v)
    PROVE  TypeOK' /\ TableInv'
<1>1. frame' = frame /\ UNCHANGED <<objectVars, elapsed>>
  BY DEF PollOrPark
<1>2. CASE Returns(STATUS_TIMEOUT) /\ UNCHANGED tableVars
  <2>1. cpu' \in CpuState /\ cpu'.owner = cpu.owner
    BY SMT, <1>2, ReturnsType DEF STATUS_TIMEOUT
  <2> QED
    BY <1>1, <1>2, <2>1, TableKept DEF objectVars, TypeOK, EventTable, MutantTable
<1>3. CASE Park(keys, all, ReadTimeoutMs(v), STATUS_TIMEOUT)
  <2>1. ReadTimeoutMs(v) \in Nat \cup {Infinite} /\ STATUS_TIMEOUT \in Nat
    BY SMT, TimeoutType DEF STATUS_TIMEOUT
  <2>2. /\ count' \in 1 .. MaxThreads
        /\ state' \in [Thread -> States]
        /\ saved' \in [Thread -> CpuState]
        /\ block' \in [Thread -> WaitBlock]
        /\ cpu' \in CpuState
        /\ current' \in 0 .. count' - 1
        /\ TableInv'
    BY <1>1, <1>3, <2>1, ParkTable
  <2> QED
    BY <1>1, <2>2 DEF TypeOK, objectVars
<1> QED
  BY <1>2, <1>3 DEF PollOrPark

LEMMA TakeNowTable ==
    ASSUME TypeOK, TableInv, NEW keys, NEW status \in Nat, TakeNow(keys, status)
    PROVE  TypeOK' /\ TableInv'
<1>1. current \in Thread /\ event \in EventTable /\ mutant \in MutantTable
  BY CurrentThread DEF TypeOK, EventTable, MutantTable
<1>2. [k \in keys |-> current] \in [keys -> Thread]
  BY <1>1
<1>3. event' \in EventTable /\ mutant' \in MutantTable
  BY <1>1, <1>2, ConsumeType DEF TakeNow, EventTable, MutantTable
<1>4. holds' \in [Mutant -> [Thread -> Nat]]
  BY SMT DEF TakeNow, Acquired, TypeOK
<1>5. cpu' \in CpuState /\ cpu'.owner = cpu.owner
  BY ReturnsType DEF TakeNow
<1> QED
  BY <1>3, <1>4, <1>5, TableKept DEF TakeNow, TypeOK

LEMMA StutterStep ==
    ASSUME TypeOK, TableInv, UNCHANGED vars
    PROVE  TypeOK' /\ TableInv'
  BY ObjectTypes, TableKept DEF vars, tableVars, processorVars, objectVars, TypeOK

LEMMA FailsStep ==
    ASSUME TypeOK, TableInv, Fails
    PROVE  TypeOK' /\ TableInv'
  BY StutterStep DEF Fails

(* One lemma per operation: it keeps the types and the table's shape.      *)
LEMMA CreateThreadStep ==
    ASSUME TypeOK, TableInv, NEW suspended \in BOOLEAN, PsCreateSystemThreadEx(suspended)
    PROVE  TypeOK' /\ TableInv'
<1> USE CurrentThread
<1>1. CASE Fails
  BY FailsStep, <1>1
<1>2. CASE ~Fails
  <2>1. /\ count < MaxThreads /\ count' = count + 1
        /\ state' = [state EXCEPT ![count] = IF suspended THEN "Suspended" ELSE "Ready"]
        /\ saved' = [saved EXCEPT ![count] = [owner |-> count, eax |-> STATUS_SUCCESS]]
        /\ handles' = handles \cup {ThreadKey(count)}
        /\ UNCHANGED <<block, current, processorVars, next_event, next_mutant,
                       event, mutant, header, elapsed, holds>>
    BY <1>2 DEF PsCreateSystemThreadEx
  <2>2. count \in Thread /\ count' \in 1 .. MaxThreads /\ current' \in 0 .. count' - 1
    BY SMTT(30), <2>1, BoundsAssumption DEF TypeOK, Thread
  <2>3. state' \in [Thread -> States]
    BY <2>1, <2>2 DEF TypeOK, States
  <2>4. saved' \in [Thread -> CpuState]
    BY <2>1, <2>2 DEF TypeOK, CpuState, STATUS_SUCCESS
  <2>5. handles' \subseteq Handle
    BY <2>1, <2>2, KeyTypes DEF TypeOK
  <2>6. TypeOK'
    BY <2>1, <2>2, <2>3, <2>4, <2>5 DEF TypeOK, processorVars
  <2>7. /\ \A t \in Thread : t >= count' => state'[t] = "Absent"
        /\ SingleRunning'
    BY SMTT(30), <2>1, <2>2 DEF TypeOK, TableInv, SingleRunning, Thread
  <2>8. \A t \in Thread : saved'[t].owner = t
    BY <2>1, <2>2 DEF TypeOK, TableInv
  <2>9. LiveContext'.owner = current'
    BY <2>1 DEF TableInv, LiveContext, Interrupted, processorVars
  <2> QED
    BY <2>6, <2>7, <2>8, <2>9 DEF TableInv
<1> QED
  BY <1>1, <1>2

LEMMA TerminateStep ==
    ASSUME TypeOK, TableInv, PsTerminateSystemThread
    PROVE  TypeOK' /\ TableInv'
<1> USE CurrentThread
<1> DEFINE dead == [state EXCEPT ![current] = "Terminated"]
           key == ThreadKey(current)
           kthread == KThreadKey(current)
           joined == Candidates(kthread)
<1>1. PICK W \in SUBSET Candidates(key) :
         LET taken == UNION {Consumed(key, w) : w \in W}
         IN /\ block' = ClearBlocks(W \cup joined)
            /\ event' = ConsumeEvents(event, taken)
            /\ mutant' = ConsumeMutants(mutant, taken, [k \in taken |-> Taker(W, key, k)])
            /\ holds' = Granted(holds, W, key)
            /\ SwitchToReady(
                  ReadyStates(dead, W \cup joined),
                  ReadyContexts(W \cup joined, [t \in W \cup joined |->
                     WakeStatus(IF t \in W THEN key ELSE kthread, t)]), cpu)
  BY DEF PsTerminateSystemThread
<1>2. /\ ~Interrupted /\ state[current] = "Running"
      /\ header' = [header EXCEPT ![kthread].signaled = TRUE]
      /\ UNCHANGED <<count, frame, handles, next_event, next_mutant, elapsed>>
  BY DEF PsTerminateSystemThread
<1> DEFINE taken == UNION {Consumed(key, w) : w \in W}
           V == W \cup joined
           status == [t \in V |-> WakeStatus(IF t \in W THEN key ELSE kthread, t)]
           taker == [k \in taken |-> Taker(W, key, k)]
           st == ReadyStates(dead, V)
           sv == ReadyContexts(V, status)
<1>3. key \in Key /\ kthread \in Key /\ kthread \in Address
  BY KeyTypes
<1>4. V \in SUBSET Thread /\ \A t \in V : state[t] = "Waiting"
  BY DEF Candidates
<1>5. status \in [V -> Nat]
  BY <1>3, WakeStatusType
<1>6. taker \in [taken -> Thread]
  BY <1>4, TakerType
<1>7. event' \in EventTable /\ mutant' \in MutantTable
  <2> HIDE DEF taken
  <2> QED
    BY ObjectTypes, <1>1, <1>6, ConsumeType DEF EventTable, MutantTable, taken
<1>8. holds' \in [Mutant -> [Thread -> Nat]]
  BY ObjectTypes, <1>1, GrantedType
<1>9. header' \in [Address -> [auto : BOOLEAN, signaled : BOOLEAN]]
  BY ObjectTypes, <1>2, <1>3
<1>10. dead \in [Thread -> States]
  BY DEF TypeOK, States
<1>11. /\ st \in [Thread -> States] /\ sv \in [Thread -> CpuState]
       /\ block' \in [Thread -> WaitBlock]
       /\ \A t \in Thread : sv[t].owner = t
  <2> HIDE DEF V, status, dead
  <2>1. block' = ClearBlocks(V)
    BY <1>1 DEF V
  <2>2. \A t \in Thread : saved[t].owner = t
    BY DEF TableInv
  <2> QED
    BY SMTT(30), <1>4, <1>5, <1>10, <2>1, <2>2, ReadyType
<1>12. \A t \in Thread : st[t] # "Running" /\ (t >= count => st[t] = "Absent")
  BY <1>2, <1>4 DEF ReadyStates, TypeOK, TableInv, SingleRunning
<1>13. cpu \in CpuState /\ cpu.owner = current
  BY <1>2 DEF TypeOK, TableInv, LiveContext
<1>14. SwitchToReady(st, sv, cpu)
  BY <1>1
<1> HIDE DEF st, sv
<1>15. /\ state' \in [Thread -> States] /\ saved' \in [Thread -> CpuState]
       /\ cpu' \in CpuState /\ current' \in 0 .. count' - 1 /\ TableInv'
  BY <1>2, <1>11, <1>12, <1>13, <1>14, SwitchTable
<1> HIDE DEF key, kthread, taken, taker, V, status
<1> QED
  BY <1>2, <1>7, <1>8, <1>9, <1>11, <1>15 DEF TypeOK, EventTable, MutantTable

LEMMA CreateEventStep ==
    ASSUME TypeOK, TableInv, NEW manual \in BOOLEAN, NEW signaled \in BOOLEAN,
           NtCreateEvent(manual, signaled)
    PROVE  TypeOK' /\ TableInv'
<1> USE CurrentThread
<1>1. next_event \in Event /\ next_event' \in 0 .. MaxEvents
  BY SMT, BoundsAssumption DEF NtCreateEvent, TypeOK, Event
<1>2. event' \in EventTable
  BY ObjectTypes, <1>1 DEF NtCreateEvent, EventTable
<1> QED
  BY ObjectTypes, <1>1, <1>2, TableKept DEF NtCreateEvent, processorVars, TypeOK

LEMMA SetEventStep ==
    ASSUME TypeOK, TableInv, NEW e \in Event, NtSetEvent(e)
    PROVE  TypeOK' /\ TableInv'
<1> USE CurrentThread
<1> DEFINE ev == [event EXCEPT ![e].signaled = TRUE]
<1>1. ev \in EventTable /\ event[e].manual \in BOOLEAN /\ EventKey(e) \in Key
  BY ObjectTypes, KeyTypes DEF EventTable
<1>2. ASSUME event[e].live PROVE TypeOK' /\ TableInv'
  <2>1. PICK W \in SUBSET Candidates(EventKey(e)) :
           /\ WakeByKey(ev, mutant, EventKey(e), event[e].manual, W)
           /\ holds' = Granted(holds, W, EventKey(e))
    BY <1>2 DEF NtSetEvent, Fails
  <2>2. UNCHANGED <<count, current, processorVars, handles, next_event,
                    next_mutant, header, elapsed>>
    BY <1>2 DEF NtSetEvent
  <2> HIDE DEF ev
  <2> QED
    BY ObjectTypes, <1>1, <2>1, <2>2, WakeTable, GrantedType
<1>3. ASSUME ~event[e].live PROVE TypeOK' /\ TableInv'
  BY FailsStep, <1>3 DEF NtSetEvent
<1> QED
  BY <1>2, <1>3

LEMMA CloseStep ==
    ASSUME TypeOK, TableInv, NEW h \in Handle, NtClose(h)
    PROVE  TypeOK' /\ TableInv'
<1> USE CurrentThread
<1>1. CASE Fails
  BY FailsStep, <1>1
<1>2. CASE h \in handles
  BY ObjectTypes, <1>2, TableKept DEF NtClose, processorVars, TypeOK
<1>3. CASE /\ h \notin handles /\ h[1] = "event" /\ event[h[2]].live
           /\ event' = [event EXCEPT ![h[2]].live = FALSE]
           /\ UNCHANGED <<tableVars, processorVars, handles, next_event,
                          next_mutant, mutant, header, elapsed, holds>>
  <2>1. event' \in EventTable
    BY ObjectTypes, <1>3 DEF EventTable
  <2> QED
    BY ObjectTypes, <1>3, <2>1, TableKept DEF processorVars, TypeOK
<1> QED
  BY <1>1, <1>2, <1>3 DEF NtClose

LEMMA CreateMutantStep ==
    ASSUME TypeOK, TableInv, NEW owned \in BOOLEAN, NtCreateMutant(owned)
    PROVE  TypeOK' /\ TableInv'
<1> USE CurrentThread
<1>0. next_mutant \in Mutant /\ next_mutant' \in 0 .. MaxMutants
  BY SMT, BoundsAssumption DEF NtCreateMutant, TypeOK, Mutant
<1>1. /\ next_mutant \in Mutant /\ next_mutant' \in 0 .. MaxMutants
      /\ MutantKey(next_mutant) \in Handle
  BY <1>0 DEF MutantKey, Handle
<1>2. mutant' \in MutantTable
  BY ObjectTypes, <1>1 DEF NtCreateMutant, MutantTable
<1>3. holds' \in [Mutant -> [Thread -> Nat]]
  BY ObjectTypes, <1>1 DEF NtCreateMutant
<1> QED
  BY ObjectTypes, <1>1, <1>2, <1>3, TableKept DEF NtCreateMutant, processorVars, TypeOK

LEMMA ReleaseMutantStep ==
    ASSUME TypeOK, TableInv, NEW m \in Mutant, NtReleaseMutant(m)
    PROVE  TypeOK' /\ TableInv'
<1> USE CurrentThread
<1> DEFINE left == mutant[m].recursion - 1
           free == [mutant EXCEPT ![m] = [holder |-> Nobody, recursion |-> 0]]
           dropped == [holds EXCEPT ![m][current] = IF @ > 0 THEN @ - 1 ELSE 0]
<1>1. free \in MutantTable /\ left \in Int /\ MutantKey(m) \in Key
  BY SMT, ObjectTypes, KeyTypes DEF MutantTable
<1>2. dropped \in [Mutant -> [Thread -> Nat]]
  BY SMT, ObjectTypes
<1>3. CASE Fails
  BY FailsStep, <1>3
<1>4. CASE /\ left > 0 /\ mutant' = [mutant EXCEPT ![m].recursion = left]
           /\ holds' = dropped
           /\ UNCHANGED <<tableVars, processorVars, handles, next_event,
                          next_mutant, event, header, elapsed>>
  <2>0. left \in Nat
    BY SMT, <1>1, <1>4
  <2>1. mutant' \in MutantTable
    BY ObjectTypes, <1>4, <2>0 DEF MutantTable
  <2> QED
    BY ObjectTypes, <1>2, <1>4, <2>1, TableKept DEF processorVars, TypeOK
<1>5. ASSUME NEW W \in SUBSET Candidates(MutantKey(m)),
             WakeByKey(event, free, MutantKey(m), FALSE, W),
             holds' = Granted(dropped, W, MutantKey(m)),
             UNCHANGED <<count, current, processorVars, handles, next_event,
                         next_mutant, header, elapsed>>
      PROVE  TypeOK' /\ TableInv'
  <2> HIDE DEF free, dropped
  <2> QED
    BY ObjectTypes, <1>1, <1>2, <1>5, WakeTable, GrantedType
<1> QED
  BY <1>3, <1>4, <1>5 DEF NtReleaseMutant

LEMMA WaitSingleStep ==
    ASSUME TypeOK, TableInv, NEW h \in Handle, NEW v \in Timeouts, NtWaitForSingleObject(h, v)
    PROVE  TypeOK' /\ TableInv'
<1> USE CurrentThread
<1>1. CASE Fails
  BY FailsStep, <1>1
<1>2. CASE TakeNow({h}, STATUS_SUCCESS)
  BY <1>2, TakeNowTable DEF STATUS_SUCCESS
<1>3. CASE PollOrPark(<<h>>, FALSE, v)
  <2>1. <<h>> \in Seq(Key) /\ GuestRuns
    BY SMT, KeyTypes DEF NtWaitForSingleObject
  <2> QED
    BY <1>3, <2>1, PollOrParkTable
<1>4. CASE /\ h[1] = "mutant"
           /\ mutant' = [mutant EXCEPT ![h[2]].recursion = @ + 1]
           /\ holds' = Acquired({h})
           /\ Returns(STATUS_SUCCESS)
           /\ UNCHANGED <<tableVars, frame, handles, next_event, next_mutant,
                          event, header, elapsed>>
  <2>0. h[2] \in Mutant
    BY <1>4 DEF Handle
  <2>4. mutant[h[2]].recursion + 1 \in Nat
    BY SMT, ObjectTypes, <2>0 DEF MutantTable
  <2>1. mutant' \in MutantTable
    BY ObjectTypes, <1>4, <2>4 DEF MutantTable
  <2>2. holds' \in [Mutant -> [Thread -> Nat]]
    BY SMT, ObjectTypes, <1>4 DEF Acquired
  <2>3. cpu' \in CpuState /\ cpu'.owner = cpu.owner
    BY <1>4, ReturnsType DEF STATUS_SUCCESS
  <2> QED
    BY ObjectTypes, <1>4, <2>1, <2>2, <2>3, TableKept DEF TypeOK
<1> QED
  BY <1>1, <1>2, <1>3, <1>4 DEF NtWaitForSingleObject

LEMMA WaitMultipleStep ==
    ASSUME TypeOK, TableInv, NEW keys \in MultiKeys, NEW all \in BOOLEAN,
           NEW v \in Timeouts, NtWaitForMultipleObjectsEx(keys, all, v)
    PROVE  TypeOK' /\ TableInv'
<1> USE CurrentThread
<1>0. keys \in Seq(Key) /\ DOMAIN keys \subseteq Nat \ {0}
  BY SMT, InputsAssumption, KeyTypes
<1>1. CASE Fails
  BY FailsStep, <1>1
<1>2. CASE TakeNow(Range(keys), STATUS_SUCCESS)
  BY <1>2, TakeNowTable DEF STATUS_SUCCESS
<1>3. ASSUME NEW i \in DOMAIN keys, TakeNow({keys[i]}, i - 1)
      PROVE  TypeOK' /\ TableInv'
  <2>1. i - 1 \in Nat
    BY SMT, <1>0
  <2> QED
    BY <1>3, <2>1, TakeNowTable
<1>4. CASE PollOrPark(keys, all, v)
  BY <1>0, <1>4, PollOrParkTable DEF NtWaitForMultipleObjectsEx
<1> QED
  BY <1>1, <1>2, <1>3, <1>4 DEF NtWaitForMultipleObjectsEx

LEMMA WaitObjectStep ==
    ASSUME TypeOK, TableInv, NEW a \in Address, NEW v \in Timeouts, KeWaitForSingleObject(a, v)
    PROVE  TypeOK' /\ TableInv'
<1> USE CurrentThread
<1>1. CASE PollOrPark(<<a>>, FALSE, v)
  <2>1. <<a>> \in Seq(Key) /\ GuestRuns
    BY SMT, KeyTypes DEF KeWaitForSingleObject
  <2> QED
    BY <1>1, <2>1, PollOrParkTable
<1>2. CASE /\ header' = [header EXCEPT ![a].signaled = ~header[a].auto]
           /\ Returns(STATUS_SUCCESS)
           /\ UNCHANGED <<tableVars, frame, handles, next_event, next_mutant,
                          event, mutant, elapsed, holds>>
  <2>1. header' \in [Address -> [auto : BOOLEAN, signaled : BOOLEAN]]
    BY ObjectTypes, <1>2
  <2>2. cpu' \in CpuState /\ cpu'.owner = cpu.owner
    BY <1>2, ReturnsType DEF STATUS_SUCCESS
  <2> QED
    BY ObjectTypes, <1>2, <2>1, <2>2, TableKept DEF TypeOK
<1> QED
  BY <1>1, <1>2 DEF KeWaitForSingleObject

LEMMA SetObjectStep ==
    ASSUME TypeOK, TableInv, NEW o \in Object, KeSetEvent(o)
    PROVE  TypeOK' /\ TableInv'
<1> USE CurrentThread
<1> DEFINE a == ObjectKey(o)
<1>1. a \in Key /\ a \in Address
  BY KeyTypes
<1>2. PICK W \in SUBSET Candidates(a) :
         /\ WakeByKey(event, mutant, a, ~header[a].auto, W)
         /\ header' = [header EXCEPT ![a].signaled = ~(header[a].auto /\ W # {})]
  BY DEF KeSetEvent
<1>3. header' \in [Address -> [auto : BOOLEAN, signaled : BOOLEAN]]
  BY ObjectTypes, <1>1, <1>2
<1>4. UNCHANGED <<count, current, processorVars, handles, next_event,
                  next_mutant, elapsed, holds>>
  BY DEF KeSetEvent
<1>5. (~header[a].auto) \in BOOLEAN
  OBVIOUS
<1> HIDE DEF a
<1> QED
  BY ObjectTypes, <1>1, <1>2, <1>3, <1>4, <1>5, WakeTable

LEMMA DelayStep ==
    ASSUME TypeOK, TableInv, NEW v \in Timeouts, KeDelayExecutionThread(v)
    PROVE  TypeOK' /\ TableInv'
<1> USE CurrentThread
<1>1. CASE Fails
  BY FailsStep, <1>1
<1>2. CASE Returns(STATUS_SUCCESS) /\ UNCHANGED <<tableVars, frame, objectVars, elapsed>>
  <2>1. cpu' \in CpuState /\ cpu'.owner = cpu.owner
    BY <1>2, ReturnsType DEF STATUS_SUCCESS
  <2> QED
    BY ObjectTypes, <1>2, <2>1, TableKept DEF TypeOK, objectVars
<1>3. CASE /\ v # NullPointer /\ v < 0
           /\ Park(<< >>, FALSE, Milliseconds(v), STATUS_SUCCESS)
           /\ UNCHANGED <<frame, objectVars, elapsed>>
  <2>1. << >> \in Seq(Key) /\ Milliseconds(v) \in Nat /\ STATUS_SUCCESS \in Nat
    BY SMT, <1>3, TimeoutType DEF STATUS_SUCCESS
  <2>2. /\ count' \in 1 .. MaxThreads
        /\ state' \in [Thread -> States]
        /\ saved' \in [Thread -> CpuState]
        /\ block' \in [Thread -> WaitBlock]
        /\ cpu' \in CpuState
        /\ current' \in 0 .. count' - 1
        /\ TableInv'
    BY <1>3, <2>1, ParkTable DEF KeDelayExecutionThread
  <2> QED
    BY <1>3, <2>2 DEF TypeOK, objectVars
<1> QED
  BY <1>1, <1>2, <1>3 DEF KeDelayExecutionThread

LEMMA ResumeSuspendStep ==
    ASSUME TypeOK, TableInv, NEW t \in Thread, NtResumeThread(t) \/ NtSuspendThread(t)
    PROVE  TypeOK' /\ TableInv'
<1> USE CurrentThread
<1>1. CASE Fails
  BY FailsStep, <1>1
<1>2. ASSUME NEW s \in {"Ready", "Suspended"}, state[t] \in {"Ready", "Suspended", s},
             state' = [state EXCEPT ![t] = s],
             UNCHANGED <<count, block, saved, current, processorVars, objectVars, elapsed>>
      PROVE  TypeOK' /\ TableInv'
  <2>1. TypeOK'
    BY <1>2 DEF TypeOK, States, processorVars, objectVars
  <2>2. TableInv'
    BY <1>2 DEF TypeOK, TableInv, SingleRunning, LiveContext, Interrupted, processorVars
  <2> QED
    BY <2>1, <2>2
<1>3. CASE /\ state' = state
           /\ UNCHANGED <<count, block, saved, current, processorVars, objectVars, elapsed>>
  BY StutterStep, <1>3 DEF vars, tableVars
<1>4. [state EXCEPT ![t] = state[t]] = state
  BY DEF TypeOK
<1> QED
  BY <1>1, <1>2, <1>3, <1>4 DEF NtResumeThread, NtSuspendThread

LEMMA RotateStep ==
    ASSUME TypeOK, TableInv, RotateActive
    PROVE  TypeOK' /\ TableInv'
<1> USE CurrentThread
<1>1. PICK next \in Thread \ {current} :
         /\ state[next] = "Ready"
         /\ saved' = [saved EXCEPT ![current] = cpu]
         /\ state' = [state EXCEPT
                         ![current] = IF @ = "Running" THEN "Ready" ELSE @,
                         ![next] = "Running"]
         /\ cpu' = saved[next]
         /\ current' = next
  BY DEF RotateActive
<1>2. ~Interrupted /\ UNCHANGED <<count, block, frame, objectVars, elapsed>>
  BY DEF RotateActive
<1>3. next \in 0 .. count - 1 /\ cpu.owner = current /\ cpu \in CpuState
  BY SMTT(30), <1>1, <1>2, BoundsAssumption DEF TypeOK, TableInv, Thread, LiveContext
<1>4. /\ state' \in [Thread -> States] /\ saved' \in [Thread -> CpuState]
      /\ cpu' \in CpuState
  BY <1>1, <1>3 DEF TypeOK, States
<1>5. TypeOK'
  BY <1>1, <1>2, <1>3, <1>4 DEF TypeOK, objectVars
<1>6. /\ \A t \in Thread : t >= count' => state'[t] = "Absent"
      /\ \A t \in Thread : saved'[t].owner = t
      /\ SingleRunning'
  BY <1>1, <1>2, <1>3 DEF TypeOK, TableInv, SingleRunning
<1>7. LiveContext'.owner = current'
  BY <1>1, <1>2 DEF TableInv, LiveContext, Interrupted
<1> QED
  BY <1>5, <1>6, <1>7 DEF TableInv

LEMMA ResumeAnyStep ==
    ASSUME TypeOK, TableInv, ResumeAnyReady
    PROVE  TypeOK' /\ TableInv'
<1> USE CurrentThread
<1>1. /\ ~Interrupted /\ state[current] # "Running" /\ SwitchToReady(state, saved, cpu)
      /\ UNCHANGED <<count, block, frame, objectVars, elapsed>>
  BY DEF ResumeAnyReady
<1>2. /\ state \in [Thread -> States] /\ saved \in [Thread -> CpuState]
      /\ cpu \in CpuState /\ cpu.owner = current
      /\ \A t \in Thread : state[t] # "Running" /\ saved[t].owner = t
      /\ \A t \in Thread : t >= count => state[t] = "Absent"
  BY <1>1 DEF TypeOK, TableInv, SingleRunning, LiveContext
<1>3. /\ state' \in [Thread -> States] /\ saved' \in [Thread -> CpuState]
      /\ cpu' \in CpuState /\ current' \in 0 .. count' - 1 /\ TableInv'
  BY <1>1, <1>2, SwitchTable
<1> QED
  BY <1>1, <1>3 DEF TypeOK, objectVars

LEMMA AdvanceStep ==
    ASSUME TypeOK, TableInv, NEW ms \in 1 .. MaxTime, AdvanceTimers(ms)
    PROVE  TypeOK' /\ TableInv'
<1> USE CurrentThread
<1> DEFINE late == Expired(elapsed + ms)
           status == [t \in late |-> block[t].timeout_status]
<1>1. late \in SUBSET Thread /\ status \in [late -> Nat]
  BY DEF Expired, TypeOK, WaitBlock
<1>2. /\ elapsed' = elapsed + ms
      /\ state' = ReadyStates(state, late)
      /\ saved' = ReadyContexts(late, status)
      /\ block' = ClearBlocks(late)
      /\ UNCHANGED <<count, current, cpu, frame, objectVars>>
  BY DEF AdvanceTimers
<1>3. \A t \in Thread : state'[t] = state[t] \/ (state[t] = "Waiting" /\ state'[t] = "Ready")
  BY <1>2 DEF ReadyStates, Expired
<1> HIDE DEF late, status
<1>4. count' = count /\ current' = current /\ cpu' = cpu /\ frame' = frame
  BY <1>2
<1>5. state \in [Thread -> States] /\ \A t \in Thread : saved[t].owner = t
  BY DEF TypeOK, TableInv
<1>6. /\ state' \in [Thread -> States] /\ saved' \in [Thread -> CpuState]
      /\ block' \in [Thread -> WaitBlock] /\ \A t \in Thread : saved'[t].owner = t
  BY SMTT(30), <1>1, <1>2, <1>5, ReadyType
<1>7. TypeOK'
  BY SMTT(30), <1>2, <1>6, BoundsAssumption DEF TypeOK, objectVars
<1>8. /\ \A t \in Thread : t >= count' => state'[t] = "Absent"
      /\ SingleRunning'
  BY <1>3, <1>4 DEF TableInv, SingleRunning
<1>9. LiveContext'.owner = current'
  BY <1>4 DEF TableInv, LiveContext, Interrupted
<1> QED
  BY <1>6, <1>7, <1>8, <1>9 DEF TableInv

LEMMA FrameStep ==
    ASSUME TypeOK, TableInv, DeliverFrame \/ FinishInterrupt
    PROVE  TypeOK' /\ TableInv'
<1> USE CurrentThread
<1>1. UNCHANGED <<tableVars, objectVars, elapsed>> /\ cpu' \in CpuState /\ frame' \in CpuState
  BY SMT DEF DeliverFrame, FinishInterrupt, TypeOK, CpuState, NoFrame, STATUS_SUCCESS
<1>2. TypeOK'
  BY <1>1 DEF TypeOK, tableVars, objectVars
<1>3. LiveContext'.owner = current'
  <2>1. CASE DeliverFrame
    <3>1. frame' = cpu /\ cpu.owner = current /\ current' = current /\ current # Frame
      BY SMT, <2>1 DEF DeliverFrame, TableInv, LiveContext, tableVars, Thread, Frame
    <3>2. frame' # NoFrame
      BY SMT, <3>1 DEF NoFrame
    <3> QED
      BY <3>1, <3>2 DEF LiveContext, Interrupted
  <2>2. CASE FinishInterrupt
    BY <1>1, <2>2 DEF FinishInterrupt, TableInv, LiveContext, Interrupted, tableVars
  <2> QED
    BY <2>1, <2>2
<1> QED
  BY <1>1, <1>2, <1>3 DEF TableInv, SingleRunning, tableVars

(* Every step of the guest and of the run loop keeps the types and the     *)
(* thread table's shape.                                                   *)
LEMMA TableStep ==
    ASSUME TypeOK, TableInv, [Next]_vars
    PROVE  TypeOK' /\ TableInv'
<1>1. CASE ThreadCalls
  BY <1>1, CreateThreadStep, TerminateStep, DelayStep, ResumeSuspendStep,
     StutterStep DEF ThreadCalls, NtYieldExecution
<1>2. CASE ObjectCalls
  BY <1>2, CreateEventStep, SetEventStep, CloseStep, CreateMutantStep,
     ReleaseMutantStep, SetObjectStep DEF ObjectCalls
<1>3. CASE WaitCalls
  BY <1>3, WaitSingleStep, WaitMultipleStep, WaitObjectStep, DelayStep DEF WaitCalls
<1>4. CASE RunLoopSteps
  BY <1>4, RotateStep, ResumeAnyStep, AdvanceStep, FrameStep DEF RunLoopSteps
<1> QED
  BY <1>1, <1>2, <1>3, <1>4, StutterStep DEF Next

(* The thread table is well-typed in every reachable state, whatever the   *)
(* guest calls and wherever slices, deadlines and interrupts fall.         *)
THEOREM TypeCorrect == Spec => []TypeOK
<1>1. TypeOK /\ TableInv /\ [Next]_vars => TypeOK' /\ TableInv'
  BY TableStep
<1> QED
  BY <1>1, InitTable, PTL DEF Spec

(* At most one thread is marked running, and it is the current one: a park,*)
(* an exit, a rotation or an idle resume never leaves two.                 *)
THEOREM OneThreadRuns == Spec => []SingleRunning
<1>1. TypeOK /\ TableInv /\ [Next]_vars => TypeOK' /\ TableInv'
  BY TableStep
<1>2. TableInv => SingleRunning
  BY DEF TableInv
<1> QED
  BY <1>1, <1>2, InitTable, PTL DEF Spec

(* No thread's registers are ever lost to another thread or to an          *)
(* interrupt routine, on either tier.                                      *)
THEOREM ContextsKept == Spec => []ContextIntegrity
<1>1. TypeOK /\ TableInv /\ [Next]_vars => TypeOK' /\ TableInv'
  BY TableStep
<1>2. TypeOK /\ TableInv => ContextIntegrity
  BY DEF TypeOK, TableInv, LiveContext, ContextIntegrity
<1> QED
  BY <1>1, <1>2, InitTable, PTL DEF Spec

(* A join is never lost: an exit wakes every wait-any on the thread,       *)
(* whether it was named by handle or by control block, and nobody parks on *)
(* a thread that has exited (exit_active, park_active).                    *)
THEOREM JoinsKept == Spec => []NoLostJoin
<1>1. TypeOK /\ TableInv /\ JoinInv /\ [Next]_vars => (TypeOK /\ TableInv /\ JoinInv)'
  BY TableStep, JoinStep
<1>2. JoinInv => NoLostJoin
  BY DEF JoinInv
<1> QED
  BY <1>1, <1>2, InitTable, InitJoin, PTL DEF Spec

(* A mutant has one holder, and its recursion count is the number of       *)
(* acquisitions that holder has not released, whatever mix of single and   *)
(* multiple waits, releases and exits handed it over (mutant.rs,           *)
(* consume_key).  The guest is assumed to keep to the documented use: it   *)
(* multi-waits on no mutant it already holds and acquires none from an     *)
(* interrupt routine.                                                      *)
THEOREM MutantsExclude ==
    ASSUME ~MutantMisuse
    PROVE  Spec => []MutantExclusion
<1> DEFINE Inv == TypeOK /\ TableInv /\ NamesInv /\ MutantInv
<1>1. Inv /\ [Next]_vars => Inv'
  BY TableStep, NamesStep, MutantStep
<1>2. Inv => MutantExclusion
  BY SMT, ObjectTypes DEF MutantInv, MutantAccounts, Accounts, MutantExclusion
<1>3. Init => Inv
  BY InitTable, InitMutants
<1> QED
  BY <1>1, <1>2, <1>3, PTL DEF Spec

(* No wakeup is lost: at no moment is a parked thread's wait satisfied by  *)
(* what it names, an any-wait by one signaled key or an all-wait by all of *)
(* them, whichever of wake_by_key, set_event, release_mutant, terminate    *)
(* and the waits themselves came before.  The guest is assumed to keep to  *)
(* the documented use of mutants.                                          *)
THEOREM WakeupsKept ==
    ASSUME ~MutantMisuse
    PROVE  Spec => []NoLostWakeup
<1> DEFINE Inv == TypeOK /\ TableInv /\ NamesInv /\ MutantInv /\ NoLostWakeup
<1>1. Inv /\ [Next]_vars => Inv'
  <2> SUFFICES ASSUME Inv, [Next]_vars PROVE Inv'
    OBVIOUS
  <2>1. TypeOK' /\ TableInv' /\ NamesInv' /\ MutantInv'
    BY TableStep, NamesStep, MutantStep
  <2>2. NoLostWakeup'
    BY <2>1, StepKinds, WakeupUnparking, WakeupParking, WakeupObjects, WakeupSignals
  <2> QED
    BY <2>1, <2>2
<1>2. Init => Inv
  <2>1. Init => NoLostWakeup
    BY DEF Init, NoLostWakeup
  <2> QED
    BY <2>1, InitTable, InitMutants
<1> QED
  BY <1>1, <1>2, PTL DEF Spec

(* A parked thread is only ever woken with the truth in EAX: its own       *)
(* timeout status once its deadline has passed, success when it waited for *)
(* all, or the position of the key this step signaled, a mutant that is    *)
(* now its own or a thread that is now gone (ready_thread_with,            *)
(* wake_by_key, exit_active, advance_timers).                              *)
THEOREM WakesTellTheTruth == Spec => WokenWithReason
<1>1. TypeOK /\ TableInv /\ [Next]_vars => (TypeOK /\ TableInv)'
  BY TableStep
<1>2. TypeOK /\ TableInv /\ [Next]_vars =>
      \A t \in Thread : (state[t] = "Waiting" /\ state'[t] # "Waiting") => Reason(t, Outcome(t))
  BY ReasonStep
<1>3. Init => TypeOK /\ TableInv
  BY InitTable
<1> QED
  BY <1>1, <1>2, <1>3, PTL DEF Spec, WokenWithReason, Reason, Outcome

(* One signal, one waiter: a step of set_event, release_mutant or          *)
(* KeSetEvent that wakes two threads did it for an object that stays       *)
(* signaled; an auto-reset signal and a freed mutant go to one thread.     *)
THEOREM SignalsWakeOne == Spec => OneSignalOneWaiter
<1>1. TypeOK /\ TableInv /\ [Next]_vars => (TypeOK /\ TableInv)'
  BY TableStep
<1>2. TypeOK /\ TableInv /\ [Next]_vars =>
      \A t, u \in Thread :
          /\ t # u
          /\ state[t] = "Waiting" /\ state'[t] # "Waiting"
          /\ state[u] = "Waiting" /\ state'[u] # "Waiting"
          /\ elapsed' = elapsed
          /\ state'[current] # "Terminated"
          => Shared(t, u)
  BY SharedStep
<1>3. Init => TypeOK /\ TableInv
  BY InitTable
<1> QED
  BY <1>1, <1>2, <1>3, PTL DEF Spec, OneSignalOneWaiter, Shared

(* On the hypervisor tier a ready thread resumes with exactly the          *)
(* registers it was made ready with, the wake status included              *)
(* (rotate_active, park_active, exit_active, resume_any_ready).  The       *)
(* interpreter's time slice breaks this: see slice_of_parked_thread.       *)
THEOREM HypervisorKeepsContexts ==
    ASSUME ~Interpreter
    PROVE  Spec => ReadyContextKept
<1>1. TypeOK /\ TableInv /\ [Next]_vars => (TypeOK /\ TableInv)'
  BY TableStep
<1>2. TypeOK /\ TableInv /\ [Next]_vars => \A t \in Thread : ContextKept(t)
  BY ContextStep
<1>3. Init => TypeOK /\ TableInv
  BY InitTable
<1> QED
  BY <1>1, <1>2, <1>3, PTL DEF Spec, ReadyContextKept, ContextKept, Idle
=============================================================================
