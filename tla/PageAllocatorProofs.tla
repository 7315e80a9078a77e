------------------------ MODULE PageAllocatorProofs ------------------------
(***************************************************************************)
(* Theorems about PageAllocator, for any number of pages: the pages        *)
(* below the cursor are handed out or pooled, never both, and the pool     *)
(* stays coalesced.                                                        *)
(***************************************************************************)
EXTENDS PageAllocator, WellFoundedInduction, TLAPS

(* The prover of the steps that name none.                                 *)
USE ZenonT(20)

(* A nonempty set of naturals has a least element, and a greatest when it  *)
(* is bounded.                                                             *)
LEMMA MinOf ==
    ASSUME NEW S \in SUBSET Nat, S # {}
    PROVE  Lowest(S) \in S /\ \A m \in S : Lowest(S) <= m
<1> DEFINE R == OpToRel(<, Nat)
<1>1. IsWellFoundedOn(R, Nat)
  BY NatLessThanWellFounded
<1>2. \A x, y \in Nat : y < x => <<y, x>> \in R
  BY DEF OpToRel
<1> HIDE DEF R
<1>3. PICK n \in S : \A m \in S : <<m, n>> \notin R
  BY <1>1, WFMin
<1>4. \A m \in S : ~(m < n)
  BY <1>2, <1>3
<1>5. n \in S /\ \A m \in S : n <= m
  BY SMT, <1>3, <1>4
<1> QED
  BY <1>5 DEF Lowest

LEMMA MaxOf ==
    ASSUME NEW N \in Nat, NEW S \in SUBSET (0 .. N), S # {}
    PROVE  Highest(S) \in S /\ \A m \in S : m <= Highest(S)
<1> DEFINE D == {d \in Nat : N - d \in S}
<1>1. PICK s \in S : TRUE
  OBVIOUS
<1>2. N - s \in D
  <2>1. s \in 0 .. N /\ N - (N - s) = s /\ N - s \in Nat
    BY SMT, <1>1
  <2> QED
    BY <1>1, <2>1
<1>3. Lowest(D) \in D /\ \A d \in D : Lowest(D) <= d
  BY <1>2, MinOf
<1> DEFINE n == N - Lowest(D)
<1>4. n \in S /\ n \in 0 .. N
  BY <1>3
<1>5. ASSUME NEW m \in S PROVE m <= n
  <2>1. m \in 0 .. N /\ N - m \in Nat /\ N - (N - m) = m
    BY SMT, <1>5
  <2>2. N - m \in D
    BY <1>5, <2>1
  <2>3. Lowest(D) <= N - m /\ Lowest(D) \in Nat
    BY <1>3, <2>2
  <2> HIDE DEF D
  <2> QED
    BY SMT, <2>1, <2>3
<1>6. \A m \in S : n >= m
  BY <1>4, <1>5
<1> QED
  BY <1>4, <1>6 DEF Highest

-----------------------------------------------------------------------------
(* The pool: runs of one page or more, below the cursor, with a gap        *)
(* between any two; and every page below the cursor is held or pooled.     *)
RunTable == UNION {[D -> Nat] : D \in SUBSET Nat}

RunsOK(R, n) ==
    /\ R \in RunTable
    /\ \A s \in DOMAIN R : R[s] \in Nat \ {0} /\ s + R[s] <= n
    /\ \A s, t \in DOMAIN R : s < t => s + R[s] < t

InPool(R, p) == \E s \in DOMAIN R : s <= p /\ p < s + R[s]

Owned(R, n, H) ==
    /\ H \in SUBSET (0 .. n - 1)
    /\ \A p \in Nat : p < n => (p \in H <=> ~InPool(R, p))

AllocOK(a) ==
    /\ a \in [next : 0 .. PageCount, runs : RunTable, held : SUBSET Nat]
    /\ RunsOK(a.runs, a.next)
    /\ Owned(a.runs, a.next, a.held)

LEMMA TableType ==
    ASSUME NEW R \in RunTable
    PROVE  DOMAIN R \in SUBSET Nat /\ \A s \in DOMAIN R : R[s] \in Nat
  BY DEF RunTable

LEMMA MakeTable ==
    ASSUME NEW R, NEW D \in SUBSET Nat, R \in [D -> Nat]
    PROVE  R \in RunTable
  BY DEF RunTable

LEMMA PoolIn ==
    ASSUME NEW a, RunsOK(a.runs, a.next), a.next \in Nat
    PROVE  \A p : p \in Pooled(a) <=> p \in Nat /\ InPool(a.runs, p)
<1>1. DOMAIN a.runs \in SUBSET Nat /\ \A s \in DOMAIN a.runs : a.runs[s] \in Nat
  BY TableType DEF RunsOK
<1>2. \A s \in DOMAIN a.runs : \A p : p \in Span(s, a.runs[s]) <=> p \in Nat /\ s <= p /\ p < s + a.runs[s]
  BY SMT, <1>1 DEF Span
<1> QED
  BY <1>2 DEF Pooled, InPool

(* What the run checks of the allocator follows.                           *)
LEMMA AllocPartitions ==
    ASSUME AllocOK(alloc)
    PROVE  PoolPartition /\ PoolCoalesced
<1>0. PageCount \in Nat
  BY PageCountAssumption
<1>1. alloc.next \in Nat /\ RunsOK(alloc.runs, alloc.next) /\ Owned(alloc.runs, alloc.next, alloc.held)
  BY SMT, <1>0 DEF AllocOK
<1>2. \A p : p \in Pooled(alloc) <=> p \in Nat /\ InPool(alloc.runs, p)
  BY <1>1, PoolIn
<1>3. ASSUME NEW p \in Nat, InPool(alloc.runs, p) PROVE p < alloc.next
  <2>1. PICK s \in DOMAIN alloc.runs : s <= p /\ p < s + alloc.runs[s]
    BY <1>3 DEF InPool
  <2>2. s \in Nat /\ alloc.runs[s] \in Nat /\ s + alloc.runs[s] <= alloc.next
    BY <1>1, TableType DEF RunsOK
  <2> QED
    BY SMT, <1>1, <2>1, <2>2
<1>4. PoolPartition
  <2>1. alloc.held \cap Pooled(alloc) = {}
    BY <1>1, <1>2, <1>3 DEF Owned
  <2>2. \A p : p \in alloc.held \cup Pooled(alloc) <=> p \in 0 .. alloc.next - 1
    BY SMT, <1>1, <1>2, <1>3 DEF Owned
  <2> QED
    BY <2>1, <2>2 DEF PoolPartition
<1>5. PoolCoalesced
  BY <1>1 DEF PoolCoalesced, RunsOK, EndOf
<1> QED
  BY <1>4, <1>5

(* A page is in one run only.                                              *)
LEMMA OneRun ==
    ASSUME NEW n \in Nat, NEW R, RunsOK(R, n), NEW p \in Nat, NEW s \in DOMAIN R, NEW t \in DOMAIN R,
           s <= p, p < s + R[s], t <= p, p < t + R[t]
    PROVE  s = t
<1>1. s \in Nat /\ t \in Nat /\ R[s] \in Nat /\ R[t] \in Nat
  BY TableType DEF RunsOK
<1>2. (s < t => s + R[s] < t) /\ (t < s => t + R[t] < s)
  BY DEF RunsOK
<1> QED
  BY SMT, <1>1, <1>2

(* Taking the first n pages of a run, or all of it.                        *)
LEMMA SplitOK ==
    ASSUME NEW c \in Nat, NEW R, RunsOK(R, c), NEW s \in DOMAIN R, NEW n \in Nat \ {0}, n <= R[s]
    PROVE  /\ RunsOK(Split(R, s, n), c)
           /\ \A p \in Nat : InPool(Split(R, s, n), p) <=> InPool(R, p) /\ ~(s <= p /\ p < s + n)
<1>1. DOMAIN R \in SUBSET Nat /\ \A t \in DOMAIN R : R[t] \in Nat \ {0} /\ t + R[t] <= c
  BY TableType DEF RunsOK
<1>2. \A t, u \in DOMAIN R : t < u => t + R[t] < u
  BY DEF RunsOK
<1>3. s \in Nat /\ R[s] \in Nat /\ n \in Nat
  BY <1>1
<1>4. \A p \in Nat : \A t, u \in DOMAIN R : t <= p /\ p < t + R[t] /\ u <= p /\ p < u + R[u] => t = u
  BY OneRun
<1>5. CASE R[s] > n
  <2> DEFINE Q == Split(R, s, n)
             D == (DOMAIN R \ {s}) \cup {s + n}
  <2>1. Q = [t \in D |-> IF t = s + n THEN R[s] - n ELSE R[t]]
    <3>1. Without(R, s) = [t \in DOMAIN R \ {s} |-> R[t]]
      BY DEF Without
    <3>2. Q = With(Without(R, s), s + n, R[s] - n)
      BY <1>5 DEF Split
    <3> QED
      BY <3>1, <3>2 DEF With
  <2>2. s + n \notin DOMAIN R
    <3>1. ASSUME s + n \in DOMAIN R PROVE FALSE
      <4>1. s < s + n
        BY SMT, <1>3
      <4>2. s + R[s] < s + n
        BY <1>2, <3>1, <4>1
      <4> QED
        BY SMT, <1>3, <1>5, <4>2
    <3> QED
      BY <3>1
  <2>3. /\ DOMAIN Q = D /\ D \in SUBSET Nat
        /\ Q[s + n] = R[s] - n /\ R[s] - n \in Nat \ {0}
        /\ \A t \in DOMAIN R \ {s} : Q[t] = R[t]
    BY SMT, <1>1, <1>3, <1>5, <2>1, <2>2
  <2> HIDE DEF Q
  <2>4. Q \in RunTable
    <3>1. Q \in [D -> Nat]
      BY <1>1, <2>1, <2>3
    <3> QED
      BY <2>3, <3>1, MakeTable
  <2>5. \A t \in DOMAIN Q : Q[t] \in Nat \ {0} /\ t + Q[t] <= c
    BY SMT, <1>1, <1>3, <2>3
  <2>6. ASSUME NEW t \in DOMAIN Q, NEW u \in DOMAIN Q, t < u PROVE t + Q[t] < u
    <3>1. CASE t = s + n /\ u # s + n
      <4>1. u \in DOMAIN R /\ s < u
        BY SMT, <1>1, <1>3, <2>3, <2>6, <3>1
      <4>2. s + R[s] < u /\ u \in Nat
        BY <1>1, <1>2, <4>1
      <4> QED
        BY SMT, <1>3, <2>3, <3>1, <4>2
    <3>2. CASE t # s + n /\ u = s + n
      <4>1. t \in DOMAIN R /\ t # s /\ t \in Nat /\ R[t] \in Nat /\ Q[t] = R[t]
        BY <1>1, <2>3, <3>2
      <4>2. t < s
        <5>1. ASSUME s < t PROVE FALSE
          <6>1. s + R[s] < t
            BY <1>2, <4>1, <5>1
          <6> QED
            BY SMT, <1>3, <1>5, <2>6, <3>2, <4>1, <6>1
        <5> QED
          BY SMT, <1>3, <4>1, <5>1
      <4>3. t + R[t] < s
        BY <1>2, <4>1, <4>2
      <4> QED
        BY SMT, <1>3, <3>2, <4>1, <4>3
    <3>3. CASE t # s + n /\ u # s + n
      BY <1>2, <2>3, <2>6, <3>3
    <3>4. CASE t = s + n /\ u = s + n
      BY SMT, <1>3, <2>6, <3>4
    <3> QED
      BY <3>1, <3>2, <3>3, <3>4
  <2>7. ASSUME NEW p \in Nat
        PROVE  InPool(Q, p) <=> InPool(R, p) /\ ~(s <= p /\ p < s + n)
    <3>1. ASSUME NEW t \in DOMAIN Q, t <= p, p < t + Q[t]
          PROVE  InPool(R, p) /\ ~(s <= p /\ p < s + n)
      <4>1. CASE t = s + n
        <5>1. s <= p /\ p < s + R[s] /\ ~(p < s + n)
          BY SMT, <1>3, <2>3, <3>1, <4>1
        <5> QED
          BY <5>1 DEF InPool
      <4>2. CASE t # s + n
        <5>1. t \in DOMAIN R /\ t # s /\ p < t + R[t]
          BY <2>3, <3>1, <4>2
        <5>2. ~(s <= p /\ p < s + R[s])
          BY <1>4, <3>1, <5>1
        <5>3. ~(s <= p /\ p < s + n)
          BY SMT, <1>3, <1>5, <5>2
        <5> QED
          BY <3>1, <5>1, <5>3 DEF InPool
      <4> QED
        BY <4>1, <4>2
    <3>2. ASSUME NEW t \in DOMAIN R, t <= p, p < t + R[t], ~(s <= p /\ p < s + n)
          PROVE  InPool(Q, p)
      <4>1. CASE t = s
        <5>1. s + n <= p /\ p < (s + n) + Q[s + n] /\ s + n \in DOMAIN Q
          BY SMT, <1>3, <2>3, <3>2, <4>1
        <5> QED
          BY <5>1 DEF InPool
      <4>2. CASE t # s
        <5>1. t \in DOMAIN Q /\ Q[t] = R[t]
          BY <2>3, <4>2
        <5> QED
          BY <3>2, <5>1 DEF InPool
      <4> QED
        BY <4>1, <4>2
    <3> QED
      BY <3>1, <3>2 DEF InPool
  <2> QED
    BY <2>4, <2>5, <2>6, <2>7 DEF RunsOK, Q
<1>6. CASE ~(R[s] > n)
  <2> DEFINE Q == Split(R, s, n)
  <2>1. Q = [t \in DOMAIN R \ {s} |-> R[t]] /\ R[s] = n
    BY SMT, <1>3, <1>6 DEF Split, Without
  <2>2. DOMAIN Q = DOMAIN R \ {s} /\ \A t \in DOMAIN Q : Q[t] = R[t]
    BY <2>1
  <2>3. Q \in RunTable
    <3>1. Q \in [DOMAIN R \ {s} -> Nat] /\ (DOMAIN R \ {s}) \in SUBSET Nat
      BY <1>1, <2>1
    <3> QED
      BY <3>1, MakeTable
  <2> HIDE DEF Q
  <2>4. RunsOK(Q, c)
    BY <1>1, <1>2, <2>2, <2>3 DEF RunsOK
  <2>5. ASSUME NEW p \in Nat
        PROVE  InPool(Q, p) <=> InPool(R, p) /\ ~(s <= p /\ p < s + n)
    BY <1>4, <2>1, <2>2 DEF InPool
  <2> QED
    BY <2>4, <2>5 DEF Q
<1> QED
  BY <1>5, <1>6

(* Putting pages [b, e) back that no run holds: the run they become joins  *)
(* the neighbours it touches.                                              *)
LEMMA JoinedOK ==
    ASSUME NEW c \in Nat, NEW R, RunsOK(R, c), NEW b \in Nat, NEW e \in Nat, b < e, e <= c,
           \A p \in Nat : b <= p /\ p < e => ~InPool(R, p)
    PROVE  /\ RunsOK(Joined(R, b, e), c)
           /\ \A p \in Nat : InPool(Joined(R, b, e), p) <=> InPool(R, p) \/ (b <= p /\ p < e)
<1>1. DOMAIN R \in SUBSET Nat /\ \A t \in DOMAIN R : t \in Nat /\ R[t] \in Nat \ {0} /\ t + R[t] <= c
  BY TableType DEF RunsOK
<1>2. \A t, u \in DOMAIN R : t < u => t + R[t] < u
  BY DEF RunsOK
<1>3. ASSUME NEW t \in DOMAIN R PROVE t + R[t] <= b \/ e <= t
  <2>1. SUFFICES ASSUME b < t + R[t], t < e PROVE FALSE
    BY SMT, <1>1
  <2>2. CASE t <= b
    <3>1. InPool(R, b)
      BY <2>1, <2>2 DEF InPool
    <3> QED
      BY SMT, <3>1
  <2>3. CASE b < t
    <3>1. InPool(R, t) /\ t \in Nat
      BY SMT, <1>1 DEF InPool
    <3> QED
      BY SMT, <2>1, <2>3, <3>1
  <2> QED
    BY SMT, <1>1, <2>2, <2>3
<1> DEFINE swallows == e \in DOMAIN R
           upto     == IF swallows THEN EndOf(R, e) ELSE e
           rest     == IF swallows THEN Without(R, e) ELSE R
           earlier  == {s \in DOMAIN R : EndOf(R, s) = b}
           first    == IF earlier # {} THEN Highest(earlier) ELSE b
           Q        == Joined(R, b, e)
           D        == (DOMAIN R \ {e}) \cup {first}
<1>4. \/ first = b /\ \A t \in DOMAIN R : t + R[t] # b
      \/ first \in DOMAIN R /\ first + R[first] = b
  <2>1. CASE earlier = {}
    BY <2>1 DEF EndOf
  <2>2. CASE earlier # {}
    <3>1. earlier \in SUBSET (0 .. c)
      BY SMT, <1>1
    <3>2. Highest(earlier) \in earlier
      BY <2>2, <3>1, MaxOf
    <3> QED
      BY <2>2, <3>2 DEF EndOf
  <2> QED
    BY <2>1, <2>2
<1>5. \/ e \notin DOMAIN R /\ upto = e
      \/ e \in DOMAIN R /\ upto = e + R[e]
  BY DEF EndOf
<1>6. Q = [t \in D |-> IF t = first THEN upto - first ELSE R[t]]
  <2>1. Q = With(rest, first, upto - first)
    BY DEF Joined
  <2>2. DOMAIN rest = DOMAIN R \ {e} /\ \A t \in DOMAIN R \ {e} : rest[t] = R[t]
    BY DEF Without
  <2> HIDE DEF rest, first, upto, Q
  <2> QED
    BY <2>1, <2>2 DEF With
<1> HIDE DEF swallows, upto, rest, earlier, first, Q
<1>7. first \in Nat /\ upto \in Nat /\ first <= b /\ e <= upto /\ upto <= c
  BY SMT, <1>1, <1>4, <1>5
<1>8. /\ DOMAIN Q = D /\ D \in SUBSET Nat
      /\ first \in D /\ Q[first] = upto - first /\ upto - first \in Nat \ {0}
      /\ \A t \in D \ {first} : t \in DOMAIN R /\ t # e /\ Q[t] = R[t]
  BY SMT, <1>1, <1>6, <1>7
<1>9. ASSUME NEW t \in D \ {first} PROVE t + R[t] < first \/ upto < t
  <2>1. t \in DOMAIN R /\ t # e /\ t # first /\ t \in Nat /\ R[t] \in Nat
    BY <1>1, <1>8
  <2>2. CASE t + R[t] <= b
    <3>1. CASE first = b /\ \A u \in DOMAIN R : u + R[u] # b
      BY SMT, <2>1, <2>2, <3>1
    <3>2. CASE first \in DOMAIN R /\ first + R[first] = b
      <4>1. ~(first < t)
        BY SMT, <1>2, <2>1, <2>2, <3>2
      <4>2. t < first
        BY SMT, <1>7, <2>1, <4>1
      <4> QED
        BY <1>2, <2>1, <3>2, <4>2
    <3> QED
      BY <1>4, <3>1, <3>2
  <2>3. CASE e <= t
    <3>1. e < t
      BY SMT, <2>1, <2>3
    <3> QED
      BY <1>2, <1>5, <2>1, <3>1
  <2> QED
    BY <1>3, <2>1, <2>2, <2>3
<1>10. Q \in RunTable
  <2>1. Q \in [D -> Nat]
    BY <1>1, <1>6, <1>8
  <2> QED
    BY <1>8, <2>1, MakeTable
<1>11. \A t \in DOMAIN Q : Q[t] \in Nat \ {0} /\ t + Q[t] <= c
  BY SMT, <1>1, <1>7, <1>8
<1>12. ASSUME NEW t \in DOMAIN Q, NEW u \in DOMAIN Q, t < u PROVE t + Q[t] < u
  <2>1. CASE t = first /\ u # first
    <3>1. u \in Nat /\ R[u] \in Nat /\ (u + R[u] < first \/ upto < u)
      BY <1>1, <1>8, <1>9, <2>1
    <3> QED
      BY SMT, <1>7, <1>8, <1>12, <2>1, <3>1
  <2>2. CASE t # first /\ u = first
    <3>1. t \in Nat /\ R[t] \in Nat /\ (t + R[t] < first \/ upto < t) /\ Q[t] = R[t]
      BY <1>1, <1>8, <1>9, <2>2
    <3> QED
      BY SMT, <1>7, <1>12, <2>2, <3>1
  <2>3. CASE t # first /\ u # first
    BY <1>2, <1>8, <1>12, <2>3
  <2>4. CASE t = first /\ u = first
    BY SMT, <1>7, <1>12, <2>4
  <2> QED
    BY <2>1, <2>2, <2>3, <2>4
<1>13. ASSUME NEW p \in Nat PROVE InPool(Q, p) <=> InPool(R, p) \/ (b <= p /\ p < e)
  <2>1. ASSUME first <= p, p < upto PROVE InPool(R, p) \/ (b <= p /\ p < e)
    <3>1. CASE p < b
      <4>1. first \in DOMAIN R /\ first + R[first] = b
        BY SMT, <1>4, <1>7, <2>1, <3>1
      <4> QED
        BY <2>1, <3>1, <4>1 DEF InPool
    <3>2. CASE e <= p
      <4>1. e \in DOMAIN R /\ p < e + R[e]
        BY SMT, <1>5, <1>7, <2>1, <3>2
      <4> QED
        BY <3>2, <4>1 DEF InPool
    <3> QED
      BY SMT, <3>1, <3>2
  <2>2. ASSUME NEW t \in DOMAIN Q, t <= p, p < t + Q[t] PROVE InPool(R, p) \/ (b <= p /\ p < e)
    <3>1. CASE t = first
      <4>1. p < upto
        BY SMT, <1>7, <1>8, <2>2, <3>1
      <4> QED
        BY <2>1, <2>2, <3>1, <4>1
    <3>2. CASE t # first
      <4>1. t \in DOMAIN R /\ Q[t] = R[t]
        BY <1>8, <3>2
      <4> QED
        BY <2>2, <4>1 DEF InPool
    <3> QED
      BY <3>1, <3>2
  <2>3. ASSUME first <= p, p < upto PROVE InPool(Q, p)
    <3>1. first \in DOMAIN Q /\ p < first + Q[first]
      BY SMT, <1>7, <1>8, <2>3
    <3> QED
      BY <2>3, <3>1 DEF InPool
  <2>4. ASSUME NEW t \in DOMAIN R, t <= p, p < t + R[t] PROVE InPool(Q, p)
    <3>1. CASE t = e
      <4>1. first <= p /\ p < upto
        BY SMT, <1>5, <1>7, <2>4, <3>1
      <4> QED
        BY <2>3, <4>1
    <3>2. CASE t = first /\ t # e
      <4>1. first + R[first] = b \/ first = b
        BY <1>4
      <4>2. first = b => R[first] = 0 \/ e <= b \/ first + R[first] <= b
        BY <1>1, <1>3, <2>4, <3>2
      <4>3. p < upto
        BY SMT, <1>1, <1>7, <2>4, <3>2, <4>1, <4>2
      <4> QED
        BY <2>3, <2>4, <3>2, <4>3
    <3>3. CASE t # first /\ t # e
      <4>1. t \in DOMAIN Q /\ Q[t] = R[t]
        BY <1>8, <3>3
      <4> QED
        BY <2>4, <4>1 DEF InPool
    <3> QED
      BY <3>1, <3>2, <3>3
  <2>5. ASSUME b <= p, p < e PROVE InPool(Q, p)
    BY SMT, <1>7, <2>3, <2>5
  <2>6. InPool(Q, p) => InPool(R, p) \/ (b <= p /\ p < e)
    BY <2>2 DEF InPool
  <2>7. InPool(R, p) => InPool(Q, p)
    BY <2>4 DEF InPool
  <2> QED
    BY <2>5, <2>6, <2>7
<1> QED
  BY <1>10, <1>11, <1>12, <1>13 DEF RunsOK, Q

(* The conjuncts of AllocOK, with PageCount a natural number.              *)
LEMMA AllocParts ==
    ASSUME NEW a, AllocOK(a)
    PROVE  /\ PageCount \in Nat /\ a.next \in Nat /\ a.next <= PageCount
           /\ RunsOK(a.runs, a.next) /\ Owned(a.runs, a.next, a.held)
           /\ a.runs \in RunTable /\ a.held \in SUBSET (0 .. a.next - 1)
           /\ a = [next |-> a.next, runs |-> a.runs, held |-> a.held]
  BY SMT, PageCountAssumption DEF AllocOK, Owned

LEMMA MakeAlloc ==
    ASSUME NEW c \in Nat, c <= PageCount, NEW R, NEW H, RunsOK(R, c), Owned(R, c, H)
    PROVE  AllocOK([next |-> c, runs |-> R, held |-> H])
<1>1. R \in RunTable /\ H \in SUBSET Nat
  BY SMT DEF RunsOK, Owned
<1> QED
  BY SMT, <1>1, PageCountAssumption DEF AllocOK

LEMMA FieldsOK ==
    ASSUME NEW b \in [next : 0 .. PageCount, runs : RunTable, held : SUBSET Nat],
           RunsOK(b.runs, b.next), Owned(b.runs, b.next, b.held)
    PROVE  AllocOK(b)
  BY DEF AllocOK

(* A record of the allocator after its pool, or its cursor, and its pages  *)
(* are replaced.                                                           *)
LEMMA PoolUpdate ==
    ASSUME NEW a \in [next : 0 .. PageCount, runs : RunTable, held : SUBSET Nat],
           NEW J \in RunTable, NEW K
    PROVE  LET b == [a EXCEPT !.runs = J, !.held = @ \ K]
           IN  /\ b \in [next : 0 .. PageCount, runs : RunTable, held : SUBSET Nat]
               /\ b.next = a.next /\ b.runs = J /\ b.held = a.held \ K
  OBVIOUS

LEMMA CursorUpdate ==
    ASSUME NEW a \in [next : 0 .. PageCount, runs : RunTable, held : SUBSET Nat],
           NEW c \in 0 .. PageCount, NEW K
    PROVE  LET b == [a EXCEPT !.next = c, !.held = @ \ K]
           IN  /\ b \in [next : 0 .. PageCount, runs : RunTable, held : SUBSET Nat]
               /\ b.next = c /\ b.runs = a.runs /\ b.held = a.held \ K
  OBVIOUS

LEMMA SpanIn ==
    ASSUME NEW s \in Nat, NEW n \in Nat
    PROVE  \A p : p \in Span(s, n) <=> p \in Nat /\ s <= p /\ p < s + n
  BY SMT DEF Span

(* allocate, from the pool or the cursor: the pages it takes were free.    *)
LEMMA TakenOK ==
    ASSUME NEW a, AllocOK(a), NEW n \in Nat \ {0}, CanAllocate(a, n)
    PROVE  /\ AllocOK(Taken(a, n))
           /\ Placed(a, n) \in Nat
           /\ Taken(a, n).held = a.held \cup Span(Placed(a, n), n)
           /\ Span(Placed(a, n), n) \cap a.held = {}
<1> DEFINE s == Placed(a, n)
           R == a.runs
           c == a.next
           H == a.held
<1>1. /\ PageCount \in Nat /\ c \in Nat /\ c <= PageCount
      /\ RunsOK(R, c) /\ Owned(R, c, H) /\ H \in SUBSET (0 .. c - 1)
  BY AllocParts
<1>2. DOMAIN R \in SUBSET Nat /\ \A t \in DOMAIN R : R[t] \in Nat \ {0} /\ t + R[t] <= c
  BY <1>1, TableType DEF RunsOK
<1>3. \A p \in Nat : p < c => (p \in H <=> ~InPool(R, p))
  BY <1>1 DEF Owned
<1>4. CASE Fitting(a, n) # {}
  <2>1. s \in DOMAIN R /\ n <= R[s] /\ s \in Nat /\ R[s] \in Nat /\ s + R[s] <= c
    <3>1. Fitting(a, n) \in SUBSET Nat
      BY <1>2 DEF Fitting
    <3>2. Lowest(Fitting(a, n)) \in Fitting(a, n)
      BY <1>4, <3>1, MinOf
    <3>3. s \in Fitting(a, n)
      BY <1>4, <3>2 DEF Placed
    <3>4. s \in DOMAIN R /\ R[s] >= n
      BY <3>3 DEF Fitting
    <3> QED
      BY <1>2, <3>4
  <2>2. Taken(a, n) = [next |-> c, runs |-> Split(R, s, n), held |-> H \cup Span(s, n)]
    BY <1>4 DEF Taken
  <2> HIDE DEF s, R, c, H
  <2>3. \A p : p \in Span(s, n) <=> p \in Nat /\ s <= p /\ p < s + n
    BY <2>1, SpanIn
  <2>4. /\ RunsOK(Split(R, s, n), c)
        /\ \A p \in Nat : InPool(Split(R, s, n), p) <=> InPool(R, p) /\ ~(s <= p /\ p < s + n)
    BY <1>1, <2>1, SplitOK
  <2>5. ASSUME NEW p \in Span(s, n) PROVE p < c /\ InPool(R, p) /\ p \notin H
    <3>1. p \in Nat /\ s <= p /\ p < s + R[s] /\ p < c
      BY SMT, <1>1, <2>1, <2>3
    <3>2. InPool(R, p)
      BY <2>1, <3>1 DEF InPool
    <3> QED
      BY <1>3, <3>1, <3>2
  <2>6. Owned(Split(R, s, n), c, H \cup Span(s, n))
    <3>0. \A p \in Span(s, n) : p \in 0 .. c - 1
      BY SMT, <1>1, <2>3, <2>5
    <3>1. H \cup Span(s, n) \in SUBSET (0 .. c - 1)
      BY <1>1, <3>0
    <3>2. \A p \in Nat : p < c => (p \in H \cup Span(s, n) <=> ~InPool(Split(R, s, n), p))
      BY <1>3, <2>3, <2>4
    <3> QED
      BY <3>1, <3>2 DEF Owned
  <2>7. AllocOK(Taken(a, n))
    BY <1>1, <2>2, <2>4, <2>6, MakeAlloc
  <2> QED
    BY SMT, <2>1, <2>2, <2>5, <2>7 DEF s, H
<1>5. CASE Fitting(a, n) = {}
  <2>1. s = c /\ c + n <= PageCount
    BY <1>5 DEF Placed, CanAllocate
  <2>2. Taken(a, n) = [next |-> c + n, runs |-> R, held |-> H \cup Span(c, n)]
    BY <1>5, <2>1 DEF Taken
  <2> HIDE DEF s, R, c, H
  <2>3. \A p : p \in Span(c, n) <=> p \in Nat /\ c <= p /\ p < c + n
    BY <1>1, SpanIn
  <2>4. RunsOK(R, c + n)
    <3>1. \A t \in DOMAIN R : t + R[t] <= c + n
      BY SMT, <1>1, <1>2
    <3> QED
      BY <1>1, <3>1 DEF RunsOK
  <2>5. ASSUME NEW p \in Nat, c <= p PROVE ~InPool(R, p)
    BY SMT, <1>1, <1>2, <2>5 DEF InPool
  <2>6. Owned(R, c + n, H \cup Span(c, n))
    <3>0. /\ \A p \in Span(c, n) : p \in 0 .. (c + n) - 1
          /\ \A p \in 0 .. c - 1 : p \in 0 .. (c + n) - 1
      BY SMT, <1>1, <2>3
    <3>1. H \cup Span(c, n) \in SUBSET (0 .. (c + n) - 1)
      BY <1>1, <3>0
    <3>2. \A p \in Nat : p < c + n => (p \in H \cup Span(c, n) <=> ~InPool(R, p))
      BY SMT, <1>1, <1>3, <2>3, <2>5
    <3> QED
      BY <3>1, <3>2 DEF Owned
  <2>7. AllocOK(Taken(a, n))
    BY SMT, <1>1, <2>1, <2>2, <2>4, <2>6, MakeAlloc
  <2>8. Span(c, n) \cap H = {}
    BY SMT, <1>1, <2>3
  <2> QED
    BY SMT, <1>1, <2>1, <2>2, <2>7, <2>8 DEF s, H
<1> QED
  BY <1>4, <1>5

(* free, of pages that are handed out.                                     *)
LEMMA ReturnedOK ==
    ASSUME NEW a, AllocOK(a), NEW start \in Nat, NEW n \in Nat \ {0}, Span(start, n) \subseteq a.held
    PROVE  /\ AllocOK(Returned(a, start, n))
           /\ Returned(a, start, n).held = a.held \ Span(start, n)
<1> DEFINE R == a.runs
           c == a.next
           H == a.held
           e == start + n
<1>1. /\ PageCount \in Nat /\ c \in Nat /\ c <= PageCount
      /\ RunsOK(R, c) /\ Owned(R, c, H) /\ H \in SUBSET (0 .. c - 1)
  BY AllocParts
<1>2. DOMAIN R \in SUBSET Nat /\ \A t \in DOMAIN R : R[t] \in Nat \ {0} /\ t + R[t] <= c
  BY <1>1, TableType DEF RunsOK
<1>3. \A p \in Nat : p < c => (p \in H <=> ~InPool(R, p))
  BY <1>1 DEF Owned
<1>4. \A p : p \in Span(start, n) <=> p \in Nat /\ start <= p /\ p < start + n
  BY SpanIn
<1>5. start < e /\ e <= c /\ start < c /\ e \in Nat
  <2>1. e - 1 \in Span(start, n)
    BY SMT, <1>4
  <2>2. e - 1 \in 0 .. c - 1
    BY <1>1, <2>1
  <2> QED
    BY SMT, <1>1, <2>2
<1>6. \A p \in Nat : start <= p /\ p < e => ~InPool(R, p)
  BY SMT, <1>1, <1>3, <1>4, <1>5
<1>7. Before(R, start) # {} => EndOf(R, Highest(Before(R, start))) <= start
  <2>1. SUFFICES ASSUME Before(R, start) # {} PROVE EndOf(R, Highest(Before(R, start))) <= start
    OBVIOUS
  <2>2. Before(R, start) \in SUBSET (0 .. start)
    BY SMT, <1>2 DEF Before
  <2> DEFINE m == Highest(Before(R, start))
  <2>3. m \in Before(R, start)
    BY <2>1, <2>2, MaxOf
  <2> HIDE DEF m
  <2>4. m \in DOMAIN R /\ m <= start
    BY <2>3 DEF Before
  <2>5. ~InPool(R, start)
    BY SMT, <1>5, <1>6
  <2>6. ~(start < m + R[m])
    BY <2>4, <2>5 DEF InPool
  <2>7. m + R[m] <= start
    BY SMT, <1>2, <2>4, <2>6
  <2> QED
    BY <2>7 DEF EndOf, m
<1>8. Returned(a, start, n) = [a EXCEPT !.runs = Joined(R, start, e), !.held = @ \ Span(start, n)]
  <2> DEFINE edge  == IF Before(R, start) = {} THEN start ELSE EndOf(R, Highest(Before(R, start)))
             begin == IF edge > start THEN edge ELSE start
             end   == IF start + n > c THEN c ELSE start + n
  <2>1. edge <= start
    BY SMT, <1>7
  <2>2. edge \in Int
    <3>1. CASE Before(R, start) = {}
      BY SMT, <3>1
    <3>2. CASE Before(R, start) # {}
      <4>1. Before(R, start) \in SUBSET (0 .. start)
        BY SMT, <1>2 DEF Before
      <4>2. Highest(Before(R, start)) \in DOMAIN R
        BY <3>2, <4>1, MaxOf DEF Before
      <4> QED
        BY SMT, <1>2, <3>2, <4>2 DEF EndOf
    <3> QED
      BY <3>1, <3>2
  <2>3. begin = start
    <3> HIDE DEF edge
    <3> QED
      BY SMT, <2>1, <2>2
  <2>4. end = e
    BY SMT, <1>1, <1>5
  <2>5. ~(n = 0 \/ start >= c \/ begin >= end)
    <3> HIDE DEF begin, end
    <3> QED
      BY SMT, <1>1, <1>5, <2>3, <2>4
  <2>6. Returned(a, start, n) = IF n = 0 \/ start >= c \/ begin >= end THEN a
                                ELSE [a EXCEPT !.runs = Joined(R, begin, end), !.held = @ \ Span(start, n)]
    BY DEF Returned
  <2> HIDE DEF begin, end, edge
  <2> QED
    BY <2>3, <2>4, <2>5, <2>6
<1>9. /\ RunsOK(Joined(R, start, e), c)
      /\ \A p \in Nat : InPool(Joined(R, start, e), p) <=> InPool(R, p) \/ (start <= p /\ p < e)
  <2> HIDE DEF R, c, H, e
  <2> QED
    BY <1>1, <1>5, <1>6, JoinedOK
<1>10. Owned(Joined(R, start, e), c, H \ Span(start, n))
  <2> HIDE DEF R, c, H
  <2>1. \A p \in Nat : p < c => (p \in H \ Span(start, n) <=> ~InPool(Joined(R, start, e), p))
    BY <1>3, <1>4, <1>9
  <2> QED
    BY <1>1, <2>1 DEF Owned
<1> DEFINE b == Returned(a, start, n)
<1>11. /\ b \in [next : 0 .. PageCount, runs : RunTable, held : SUBSET Nat]
       /\ b.next = c /\ b.runs = Joined(R, start, e) /\ b.held = H \ Span(start, n)
  <2>1. Joined(R, start, e) \in RunTable
    BY <1>9 DEF RunsOK
  <2>2. a \in [next : 0 .. PageCount, runs : RunTable, held : SUBSET Nat]
    BY DEF AllocOK
  <2> QED
    BY ZenonT(20), <1>8, <2>1, <2>2, PoolUpdate
<1> HIDE DEF R, c, H, e, b
<1>12. AllocOK(b)
  BY <1>9, <1>10, <1>11, FieldsOK
<1> QED
  BY <1>11, <1>12 DEF b, H

(* roll_back, of an allocation just made: the cursor passes no pooled run. *)
LEMMA RolledBackOK ==
    ASSUME NEW a, AllocOK(a), NEW start \in Nat, NEW n \in Nat \ {0}, Span(start, n) \subseteq a.held
    PROVE  /\ AllocOK(RolledBack(a, start, n))
           /\ RolledBack(a, start, n).held = a.held \ Span(start, n)
<1> DEFINE R == a.runs
           c == a.next
           H == a.held
<1>1. /\ PageCount \in Nat /\ c \in Nat /\ c <= PageCount
      /\ RunsOK(R, c) /\ Owned(R, c, H) /\ H \in SUBSET (0 .. c - 1)
      /\ a = [next |-> c, runs |-> R, held |-> H]
  BY AllocParts
<1>2. DOMAIN R \in SUBSET Nat /\ \A t \in DOMAIN R : R[t] \in Nat \ {0} /\ t + R[t] <= c
  BY <1>1, TableType DEF RunsOK
<1>3. \A p \in Nat : p < c => (p \in H <=> ~InPool(R, p))
  BY <1>1 DEF Owned
<1>4. \A p : p \in Span(start, n) <=> p \in Nat /\ start <= p /\ p < start + n
  BY SpanIn
<1>5. CASE c = start + n
  <2>1. RolledBack(a, start, n) = [a EXCEPT !.next = start, !.held = @ \ Span(start, n)]
    BY <1>5 DEF RolledBack
  <2> DEFINE b == RolledBack(a, start, n)
  <2>2. /\ b \in [next : 0 .. PageCount, runs : RunTable, held : SUBSET Nat]
        /\ b.next = start /\ b.runs = R /\ b.held = H \ Span(start, n)
    <3>1. start \in 0 .. PageCount
      BY SMT, <1>1, <1>5
    <3>2. a \in [next : 0 .. PageCount, runs : RunTable, held : SUBSET Nat]
      BY DEF AllocOK
    <3> QED
      BY <2>1, <3>1, <3>2, CursorUpdate
  <2>3. Span(start, n) \subseteq H
    OBVIOUS
  <2> HIDE DEF R, c, H, b
  <2>4. ASSUME NEW t \in DOMAIN R PROVE t + R[t] <= start
    <3> DEFINE p == t + R[t] - 1
    <3>1. p \in Nat /\ t <= p /\ p < t + R[t] /\ p < c /\ t + R[t] = p + 1
      BY SMT, <1>1, <1>2, <2>4
    <3> HIDE DEF p
    <3>2. InPool(R, p)
      BY <2>4, <3>1 DEF InPool
    <3>3. p \notin Span(start, n)
      BY <1>3, <2>3, <3>1, <3>2
    <3>4. p < start
      BY SMT, <1>4, <1>5, <3>1, <3>3
    <3> QED
      BY SMT, <3>1, <3>4
  <2>5. RunsOK(R, start)
    BY <1>1, <2>4 DEF RunsOK
  <2>6. Owned(R, start, H \ Span(start, n))
    <3>0. \A p \in 0 .. c - 1 : p \notin Span(start, n) => p \in 0 .. start - 1
      BY SMT, <1>4, <1>5
    <3>1. H \ Span(start, n) \in SUBSET (0 .. start - 1)
      BY <1>1, <3>0
    <3>2. \A p \in Nat : p < start => (p \in H \ Span(start, n) <=> ~InPool(R, p))
      BY SMT, <1>3, <1>4, <1>5
    <3> QED
      BY <3>1, <3>2 DEF Owned
  <2>7. AllocOK(b)
    BY <2>2, <2>5, <2>6, FieldsOK
  <2> QED
    BY <2>2, <2>7 DEF b, H
<1>6. CASE c # start + n
  <2>1. RolledBack(a, start, n) = Returned(a, start, n)
    BY <1>6 DEF RolledBack
  <2> QED
    BY SMT, <2>1, ReturnedOK
<1> QED
  BY <1>5, <1>6

(* An allocator with no freed run and every page below the cursor held.    *)
LEMMA PlainOK ==
    ASSUME NEW c \in Nat, c <= PageCount
    PROVE  AllocOK([next |-> c, runs |-> << >>, held |-> 0 .. c - 1])
<1>1. DOMAIN << >> = {} /\ << >> \in [{} -> Nat]
  BY SMT
<1>2. << >> \in RunTable
  <2>1. {} \in SUBSET Nat
    OBVIOUS
  <2> QED
    BY <1>1, <2>1, MakeTable
<1>3. RunsOK(<< >>, c)
  BY <1>1, <1>2 DEF RunsOK
<1>4. \A p \in Nat : ~InPool(<< >>, p)
  BY <1>1 DEF InPool
<1>5. Owned(<< >>, c, 0 .. c - 1)
  BY SMT, <1>4 DEF Owned
<1> QED
  BY <1>3, <1>5, MakeAlloc

-----------------------------------------------------------------------------
(* Every operation keeps the inductive invariant.                          *)
LEMMA AllocStep ==
    ASSUME AllocOK(alloc), AllocatorNext
    PROVE  AllocOK(alloc')
<1>0. PageCount \in Nat
  BY PageCountAssumption
<1>1. ASSUME NEW n \in 1 .. PageCount, Allocate(n) PROVE AllocOK(alloc')
  <2>1. n \in Nat \ {0} /\ CanAllocate(alloc, n) /\ alloc' = Taken(alloc, n)
    BY SMT, <1>0, <1>1 DEF Allocate
  <2> QED
    BY <2>1, TakenOK
<1>2. ASSUME NEW n \in 1 .. PageCount, FailedMap(n) PROVE AllocOK(alloc')
  <2>1. n \in Nat \ {0} /\ CanAllocate(alloc, n)
    BY SMT, <1>0, <1>2 DEF FailedMap
  <2>2. AllocOK(Taken(alloc, n)) /\ Placed(alloc, n) \in Nat
        /\ Span(Placed(alloc, n), n) \subseteq Taken(alloc, n).held
    BY <2>1, TakenOK
  <2>3. AllocOK(RolledBack(Taken(alloc, n), Placed(alloc, n), n))
    BY <2>1, <2>2, RolledBackOK
  <2> QED
    BY <1>2, <2>3 DEF FailedMap
<1>3. ASSUME NEW s \in 0 .. PageCount, NEW n \in 1 .. PageCount, FreePages(s, n) PROVE AllocOK(alloc')
  <2>1. /\ s \in Nat /\ n \in Nat \ {0} /\ Span(s, n) \subseteq alloc.held
        /\ alloc' = Returned(alloc, s, n)
    BY SMT, <1>0, <1>3 DEF FreePages
  <2> QED
    BY <2>1, ReturnedOK
<1>4. ASSUME NEW target \in 0 .. PageCount, ReservePhysicalThrough(target) PROVE AllocOK(alloc')
  <2>1. alloc' = alloc \/ alloc' = [next |-> target, runs |-> << >>, held |-> 0 .. target - 1]
    BY <1>4 DEF ReservePhysicalThrough, ReservedThrough
  <2>2. target \in Nat /\ target <= PageCount
    BY SMT, <1>0
  <2>3. AllocOK([next |-> target, runs |-> << >>, held |-> 0 .. target - 1])
    BY <2>2, PlainOK
  <2> QED
    BY <2>1, <2>3
<1> QED
  BY <1>1, <1>2, <1>3, <1>4 DEF AllocatorNext

(* For any number of pages, any sequence of allocations, frees, failed     *)
(* mappings and reservations keeps every page below the cursor with one    *)
(* owner or in the pool, never both, and the pool coalesced (allocator.rs  *)
(* allocate, free, rollback_last).                                         *)
THEOREM PagesNeverShared == AllocatorSpec => []PagesPartitioned
<1>1. AllocatorInit => AllocOK(alloc)
  <2>1. SUFFICES ASSUME AllocatorInit PROVE AllocOK(alloc)
    OBVIOUS
  <2>2. 0 .. 0 - 1 = {}
    BY SMT
  <2>3. AllocOK([next |-> 0, runs |-> << >>, held |-> 0 .. 0 - 1])
    <3>1. 0 \in Nat /\ 0 <= PageCount
      BY SMT, PageCountAssumption
    <3> QED
      BY <3>1, PlainOK
  <2> QED
    BY <2>1, <2>2, <2>3 DEF AllocatorInit, NewAllocator
<1>2. AllocOK(alloc) /\ [AllocatorNext]_alloc => AllocOK(alloc)'
  <2>1. SUFFICES ASSUME AllocOK(alloc), [AllocatorNext]_alloc PROVE AllocOK(alloc')
    OBVIOUS
  <2>2. CASE AllocatorNext
    BY <2>1, <2>2, AllocStep
  <2>3. CASE UNCHANGED alloc
    BY <2>1, <2>3
  <2> QED
    BY <2>1, <2>2, <2>3
<1>3. AllocOK(alloc) => PagesPartitioned
  BY AllocPartitions DEF PagesPartitioned
<1> QED
  BY <1>1, <1>2, <1>3, PTL DEF AllocatorSpec
=============================================================================
