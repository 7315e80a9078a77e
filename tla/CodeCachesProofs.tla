-------------------------- MODULE CodeCachesProofs --------------------------
(***************************************************************************)
(* Theorems about CodeCaches: what the caches serve is what the bytes      *)
(* spell, for any number of pages, slots and generations.                  *)
(***************************************************************************)
EXTENDS CodeCaches, GuestMemoryProofs

(* The prover of the steps that name none.                                 *)
USE ZenonT(20)

(* Entries, and how many pages the code of one takes.                      *)
Stamp == [page : Page, generation : 0 .. GenerationSize - 1, since : 0 .. GenerationSize]
PagesType == [1 .. 1 -> Stamp] \cup [1 .. 2 -> Stamp]
CodeType == [1 .. 1 -> Values] \cup [1 .. 2 -> Values]
Entry == [eip : VirtualPage, pages : PagesType, code : CodeType, machine : BOOLEAN]
Block == [start : VirtualPage, epoch : Nat, pages : PagesType, code : CodeType]
Size(code) == IF code[1] \in LongCode THEN 2 ELSE 1

(* The generation k bumps after g, for k below GenerationSize.             *)
After(g, k) == IF g + k < GenerationSize THEN g + k ELSE g + k - GenerationSize

(* A dependency: until the count wraps, the page's generation tells how    *)
(* often it was written since, and a page not written holds the code.      *)
StampOK(m, s, x) ==
    /\ s.since < GenerationSize => m.generation[s.page] = After(s.generation, s.since)
    /\ s.since = 0 => m.bytes[s.page] = x

Recorded(m, v, pages, code) ==
    /\ pages \in [1 .. Size(code) -> Stamp] /\ code \in [1 .. Size(code) -> Values]
    /\ \A i \in 1 .. Size(code) : v + i - 1 \in VirtualPage /\ StampOK(m, pages[i], code[i])

(* The inductive invariant.  The decoded cache checks the mapping when it  *)
(* is asked; a block's mapping is the one it was compiled under, because   *)
(* the guest cannot remap a page without a new machine.                    *)
CachesInv ==
    /\ epoch \in Nat
    /\ decoded \in [0 .. CacheEntries - 1 -> Entry \cup {NoEntry}]
    /\ blocks \subseteq Block
    /\ \A s \in 0 .. CacheEntries - 1 :
          decoded[s] # NoEntry /\ decoded[s].machine =>
              stopped # "error" /\ Recorded(Now, decoded[s].eip, decoded[s].pages, decoded[s].code)
    /\ \A b \in blocks :
          /\ stopped # "error" /\ Recorded(Now, b.start, b.pages, b.code)
          /\ \A i \in 1 .. Size(b.code) : table[b.start + i - 1].page = b.pages[i].page

-----------------------------------------------------------------------------
LEMMA AfterFacts ==
    ASSUME NEW g \in 0 .. GenerationSize - 1, NEW k \in 0 .. GenerationSize - 1
    PROVE  /\ After(g, k) \in 0 .. GenerationSize - 1
           /\ After(g, 0) = g
           /\ After(g, k) = g => k = 0
           /\ k + 1 < GenerationSize => Bump(After(g, k)) = After(g, k + 1)
<1>1. GenerationSize \in Nat /\ GenerationSize > 1
  BY ConstantFacts
<1>2. After(g, k) \in 0 .. GenerationSize - 1
  BY SMT, <1>1 DEF After
<1>3. Bump(After(g, k)) = IF After(g, k) + 1 = GenerationSize THEN 0 ELSE After(g, k) + 1
  BY <1>2, BumpFacts
<1> QED
  BY SMT, <1>1, <1>2, <1>3 DEF After

(* How a step of the guest may change memory, as the caches see it: mapped *)
(* pages stay where they are, and bytes change only with the generation.   *)
Ticks(m, k) ==
    /\ MemOK(m) /\ MemOK(k)
    /\ \A v \in Outside : Backed(m, v) => k.table[v].page = m.table[v].page
    /\ \A p \in Page : Same(m, k, p) \/ k.generation[p] = Bump(m.generation[p])

LEMMA EvolvesTicks ==
    ASSUME NEW m, NEW k, MemOK(m), Evolves(m, k)
    PROVE  Ticks(m, k)
  BY DEF Ticks, Evolves, Scrubbed

LEMMA TicksSame ==
    ASSUME NEW m, MemOK(m)
    PROVE  Ticks(m, m)
  BY DEF Ticks, Same

LEMMA WriteTicks ==
    ASSUME MemoryInv, NEW v \in VirtualPage, NEW n \in 1 .. MaxSize, NEW x \in Values, GuestWrite(v, n, x)
    PROVE  Ticks(Now, Now') /\ stopped' # "error"
<1> DEFINE d == [w \in Span(v, n) |-> x]
           m == Now
           k == Written(m, v, n, d)
<1>1. Running /\ Accessible(m, v, n, "w") /\ Becomes(k) /\ stopped' = stopped
  BY DEF GuestWrite, session
<1>2. MemOK(m) /\ stopped # "error"
  BY <1>1, RunningInv
<1>3. v \in Nat /\ n \in Nat \ {0}
  BY SMT, AddressFacts, ConstantFacts
<1>4. \A w \in Span(v, n) : w \in VirtualPage /\ Backed(m, w) /\ d[w] \in Values
  <2>1. DOMAIN m.table = VirtualPage
    BY <1>2, MemoryFields DEF MemOK
  <2>2. \A w \in Span(v, n) : w \in VirtualPage /\ "w" \in m.table[w].perms
    BY <1>1, <2>1 DEF Accessible
  <2>3. \A w \in Span(v, n) : d[w] \in Values
    OBVIOUS
  <2> QED
    BY <1>2, <2>2, <2>3, BackedPage
<1> HIDE DEF d, m
<1>5. /\ MemOK(k) /\ k.alloc = m.alloc /\ k.table = m.table
      /\ \A p \in Page : p \notin Backing(m, v, n) => Same(m, k, p)
      /\ \A p \in Backing(m, v, n) :
            /\ \E w \in Span(v, n) : m.table[w].page = p /\ k.bytes[p] = d[w]
            /\ k.generation[p] = Bump(m.generation[p])
  BY SMT, <1>2, <1>3, <1>4, WrittenPages
<1> HIDE DEF k
<1>6. Ticks(m, k)
  BY <1>2, <1>5 DEF Ticks
<1>7. Now' = k
  BY <1>1, <1>5, BecomesNow DEF MemOK
<1> QED
  BY <1>1, <1>2, <1>6, <1>7 DEF m

LEMMA FreeTicks ==
    ASSUME MemoryInv, NEW p \in Page, FreeContiguous(p)
    PROVE  Ticks(Now, Now') /\ stopped' # "error"
<1> DEFINE m == Now
           k == IF InPersisted(p) THEN Now ELSE FreePhysical(Now, p, pool[p])
<1>1. Running /\ p \in DOMAIN pool /\ Becomes(k) /\ stopped' = stopped
  BY DEF FreeContiguous, session
<1>2. MemOK(m) /\ ServicesOK(m, pool, restored, persisted) /\ stopped # "error"
  BY <1>1, RunningInv
<1>3. Ticks(m, k)
  <2>1. CASE InPersisted(p)
    BY <1>2, <2>1, TicksSame
  <2>2. CASE ~InPersisted(p)
    <3>1. k = FreePhysical(m, p, pool[p])
      BY <2>2
    <3>2. \A i \in DOMAIN persisted : Window + p \notin Span(persisted[i].base, persisted[i].n)
      BY <2>2 DEF InPersisted
    <3> HIDE DEF k, m
    <3>3. /\ MemOK(k) /\ k.table = m.table
          /\ \A q \in Page : q \notin Span(p, pool[p]) => Same(m, k, q)
          /\ \A q \in Span(p, pool[p]) : k.bytes[q] = Zeros /\ k.generation[q] = Bump(m.generation[q])
      BY SMT, <1>1, <1>2, <3>1, <3>2, ServicesFree
    <3> QED
      BY <1>2, <3>3 DEF Ticks
  <2> QED
    BY <2>1, <2>2
<1> HIDE DEF k
<1>4. Now' = k
  BY <1>1, <1>3, BecomesNow DEF Ticks, MemOK
<1> QED
  BY <1>1, <1>2, <1>3, <1>4

LEMMA PlacedTicks ==
    ASSUME MemoryInv, Running, NEW k, Evolves(Now, k), Becomes(k), stopped' = stopped
    PROVE  Ticks(Now, Now') /\ stopped' # "error"
<1>1. MemOK(Now) /\ stopped # "error"
  BY RunningInv
<1>2. Ticks(Now, k)
  BY <1>1, EvolvesTicks
<1>3. Now' = k
  BY <1>2, BecomesNow DEF Ticks, MemOK
<1> QED
  BY <1>1, <1>2, <1>3

LEMMA GuestTicks ==
    ASSUME MemoryInv, GuestNext
    PROVE  Ticks(Now, Now') /\ stopped' # "error"
<1>0. Running /\ MemOK(Now) /\ stopped # "error" /\ cursor \in Nat /\ cursor >= UserBase
  <2>1. Running
    BY DEF GuestNext, GuestWrite, AllocateContiguous, FreeContiguous, CreateThread, AllocateFresh,
           AllocateAt, MmPersistContiguousMemory, SetLaunchDataPage, EndRun
  <2> QED
    BY <2>1, RunningInv
<1>1. CASE \E v \in VirtualPage, n \in 1 .. MaxSize, x \in Values : GuestWrite(v, n, x)
  BY <1>1, WriteTicks
<1>2. ASSUME NEW n \in 1 .. MaxSize, AllocateContiguous(n)
      PROVE  Ticks(Now, Now') /\ stopped' # "error"
  <2>1. CanAllocate(Now.alloc, n) /\ Becomes(KernelBlock(Now, n)) /\ stopped' = stopped
    BY <1>2, NowFields DEF AllocateContiguous, session
  <2>2. n \in Nat \ {0}
    BY SMT, ConstantFacts
  <2>3. Evolves(Now, KernelBlock(Now, n))
    BY <1>0, <2>1, <2>2, BlockEvolves
  <2> QED
    BY <1>0, <2>1, <2>3, PlacedTicks
<1>3. CASE \E p \in Page : FreeContiguous(p)
  BY <1>3, FreeTicks
<1>4. CASE CreateThread
  <2>1. Becomes(TryBlock(TryBlock(Guarded(Now)))) /\ stopped' = stopped
    BY <1>4 DEF CreateThread, session
  <2> QED
    BY <1>0, <2>1, ThreadEvolves, PlacedTicks
<1>5. ASSUME NEW n \in 1 .. MaxSize, NEW commit \in BOOLEAN, NEW perms \in {RW, RWX}, AllocateFresh(n, commit, perms)
      PROVE  Ticks(Now, Now') /\ stopped' # "error"
  <2> DEFINE k == IF commit THEN Committed(Now, FreshStart, n, perms) ELSE Now
  <2>1. FreshStart + n <= UserEnd /\ Becomes(k) /\ stopped' = stopped
    BY <1>5 DEF AllocateFresh, session
  <2>2. FreshStart \in Nat /\ FreshStart >= cursor /\ n \in Nat \ {0} /\ UserBase \in Nat /\ UserEnd \in Nat
    BY SMT, <1>0, FreshStartOK, ConstantFacts
  <2>3. Span(FreshStart, n) \subseteq User
    <3>1. \A w \in Span(FreshStart, n) : w \in Nat /\ FreshStart <= w /\ w < FreshStart + n
      BY <2>2, SpanIn
    <3>2. \A w \in Span(FreshStart, n) : w \in User
      BY SMT, <1>0, <2>1, <2>2, <3>1 DEF User
    <3> QED
      BY <3>2
  <2>4. perms \in SUBSET RWX /\ RW \subseteq perms
    BY DEF RW, RWX
  <2>5. Evolves(Now, k)
    <3>1. CASE commit
      BY <1>0, <2>2, <2>3, <2>4, <3>1, CommitEvolves
    <3>2. CASE ~commit
      BY <1>0, <3>2, EvolvesSame
    <3> QED
      BY <3>1, <3>2
  <2> HIDE DEF k
  <2> QED
    BY <1>0, <2>1, <2>5, PlacedTicks
<1>6. ASSUME NEW v \in User, NEW n \in 1 .. MaxSize, NEW perms \in {RW, RWX}, AllocateAt(v, n, perms)
      PROVE  Ticks(Now, Now') /\ stopped' # "error"
  <2>1. Span(v, n) \subseteq User /\ Becomes(Committed(Now, v, n, perms)) /\ stopped' = stopped
    BY <1>6 DEF AllocateAt, session
  <2>2. perms \in SUBSET RWX /\ RW \subseteq perms
    BY DEF RW, RWX
  <2>3. v \in Outside
    BY DEF Outside
  <2>4. v \in Nat /\ n \in Nat
    BY SMT, <2>3, AddressFacts, ConstantFacts
  <2>5. Evolves(Now, Committed(Now, v, n, perms))
    BY <1>0, <2>1, <2>2, <2>4, CommitEvolves
  <2> QED
    BY <1>0, <2>1, <2>5, PlacedTicks
<1>7. CASE (\E base \in VirtualPage, n \in 1 .. MaxSize : MmPersistContiguousMemory(base, n)) \/ SetLaunchDataPage \/ EndRun
  <2>1. UNCHANGED memory /\ (stopped' = stopped \/ stopped' = "reboot")
    BY <1>7 DEF MmPersistContiguousMemory, SetLaunchDataPage, EndRun, session
  <2>2. Now' = Now
    BY <2>1 DEF Now, memory
  <2>3. stopped' # "error"
    BY <1>0, <2>1
  <2>4. Ticks(Now, Now)
    BY <1>0, TicksSame
  <2> QED
    BY <2>2, <2>3, <2>4
<1> QED
  BY <1>1, <1>2, <1>3, <1>4, <1>5, <1>6, <1>7 DEF GuestNext

-----------------------------------------------------------------------------

LEMMA BlockFields ==
    ASSUME NEW b \in Block, NEW P \in PagesType
    PROVE  /\ b.start \in VirtualPage /\ b.pages \in PagesType /\ b.code \in CodeType /\ b.epoch \in Nat
           /\ LET k == [b EXCEPT !.pages = P]
              IN  k \in Block /\ k.start = b.start /\ k.pages = P /\ k.code = b.code
  BY DEF Block

LEMMA StampFields ==
    ASSUME NEW s \in Stamp
    PROVE  /\ s.page \in Page /\ s.generation \in 0 .. GenerationSize - 1 /\ s.since \in 0 .. GenerationSize
           /\ s.since < GenerationSize =>
                 LET k == [s EXCEPT !.since = @ + 1]
                 IN  k \in Stamp /\ k.page = s.page /\ k.generation = s.generation /\ k.since = s.since + 1
<1>1. s.page \in Page /\ s.generation \in 0 .. GenerationSize - 1 /\ s.since \in 0 .. GenerationSize
  BY DEF Stamp
<1>2. ASSUME s.since < GenerationSize
      PROVE  LET k == [s EXCEPT !.since = @ + 1]
             IN  k \in Stamp /\ k.page = s.page /\ k.generation = s.generation /\ k.since = s.since + 1
  <2> DEFINE t == s.since + 1
  <2>1. t \in 0 .. GenerationSize
    BY SMT, <1>1, <1>2, ConstantFacts
  <2> HIDE DEF t
  <2>2. LET k == [s EXCEPT !.since = t]
        IN  k \in Stamp /\ k.page = s.page /\ k.generation = s.generation /\ k.since = t
    BY <2>1 DEF Stamp
  <2>3. [s EXCEPT !.since = @ + 1] = [s EXCEPT !.since = t]
    BY DEF t
  <2> QED
    BY <2>2, <2>3 DEF t
<1> QED
  BY <1>1, <1>2

LEMMA RecordedType ==
    ASSUME NEW m, NEW v, NEW pages, NEW code, Recorded(m, v, pages, code)
    PROVE  /\ pages \in PagesType /\ code \in CodeType
           /\ Size(code) \in {1, 2} /\ DOMAIN pages = 1 .. Size(code) /\ DOMAIN code = 1 .. Size(code)
           /\ \A i \in 1 .. Size(code) : pages[i] \in Stamp
<1>1. pages \in [1 .. Size(code) -> Stamp] /\ code \in [1 .. Size(code) -> Values]
  BY DEF Recorded
<1>2. Size(code) \in {1, 2}
  BY DEF Size
<1> QED
  BY <1>1, <1>2 DEF PagesType, CodeType

(* decode_at and compile: what is recorded is so now.                      *)
LEMMA DecodeRecorded ==
    ASSUME MemOK(Now), NEW v \in VirtualPage, Fetchable(v)
    PROVE  /\ Recorded(Now, v, Dependencies(v), Code(v))
           /\ \A i \in 1 .. Size(Code(v)) : table[v + i - 1].page = Dependencies(v)[i].page
<1> DEFINE L == Length(v)
           D == Dependencies(v)
           C == Code(v)
<1>1. L \in {1, 2} /\ L = (IF At(v) \in LongCode THEN 2 ELSE 1) /\ v \in Nat
  BY AddressFacts DEF Length
<1>2. /\ Now.table = table /\ Now.bytes = bytes /\ Now.generation = generation /\ DOMAIN table = VirtualPage
      /\ bytes \in [Page -> Values] /\ generation \in [Page -> 0 .. GenerationSize - 1]
  BY NowFields, MemoryFields DEF MemOK
<1>3. Accessible(Now, v, L, "x")
  BY DEF Fetchable
<1> HIDE DEF L
<1>4. ASSUME NEW i \in 1 .. L
      PROVE  /\ v + i - 1 \in VirtualPage /\ table[v + i - 1] # Unmapped
             /\ table[v + i - 1].page \in Page /\ At(v + i - 1) = bytes[table[v + i - 1].page]
  <2> DEFINE w == v + i - 1
  <2>1. w \in Span(v, L)
    <3>1. w \in Nat /\ v <= w /\ w < v + L /\ L \in Nat
      BY SMT, <1>1
    <3> QED
      BY <1>1, <3>1, SpanIn
  <2>2. w \in VirtualPage /\ "x" \in Now.table[w].perms
    BY <1>2, <1>3, <2>1 DEF Accessible
  <2>3. Backed(Now, w) /\ Now.table[w].page \in Page
    BY <2>2, BackedPage
  <2> HIDE DEF w
  <2>4. table[w] # Unmapped /\ table[w].page \in Page /\ At(w) = bytes[table[w].page]
    BY <1>2, <2>2, <2>3 DEF Backed, At
  <2> QED
    BY <2>2, <2>4 DEF w
<1>5. C = [i \in 1 .. L |-> At(v + i - 1)]
  BY DEF Code, L
<1>6. D = [i \in 1 .. L |-> [page |-> table[v + i - 1].page, generation |-> generation[table[v + i - 1].page], since |-> 0]]
  BY DEF Dependencies, L
<1> HIDE DEF C, D
<1>7. C \in [1 .. L -> Values] /\ \A i \in 1 .. L : C[i] = bytes[table[v + i - 1].page]
  <2>1. \A i \in 1 .. L : bytes[table[v + i - 1].page] \in Values
    BY <1>2, <1>4
  <2> QED
    BY <1>4, <1>5, <2>1
<1>8. Size(C) = L
  <2>1. 1 \in 1 .. L /\ v + 1 - 1 = v
    BY SMT, <1>1
  <2>2. C[1] = At(v)
    <3>1. C[1] = At(v + 1 - 1)
      BY <1>5, <2>1
    <3> QED
      BY <2>1, <3>1
  <2> QED
    BY <1>1, <2>2 DEF Size
<1>9. ASSUME NEW i \in 1 .. L
      PROVE  /\ D[i] \in Stamp /\ D[i].page = table[v + i - 1].page
             /\ D[i].generation = generation[table[v + i - 1].page] /\ D[i].since = 0
  <2> DEFINE p == table[v + i - 1].page
             g == generation[p]
  <2>1. p \in Page /\ g \in 0 .. GenerationSize - 1 /\ 0 \in 0 .. GenerationSize
    BY SMT, <1>2, <1>4, ConstantFacts
  <2>2. D[i] = [page |-> p, generation |-> g, since |-> 0]
    BY <1>6
  <2> HIDE DEF p, g
  <2>3. D[i] \in Stamp /\ D[i].page = p /\ D[i].generation = g /\ D[i].since = 0
    BY SMT, <2>1, <2>2 DEF Stamp
  <2> QED
    BY <2>3 DEF p, g
<1>10. D \in [1 .. L -> Stamp]
  BY <1>6, <1>9
<1>11. \A i \in 1 .. L : StampOK(Now, D[i], C[i])
  <2>1. ASSUME NEW i \in 1 .. L PROVE StampOK(Now, D[i], C[i])
    <3>1. generation[table[v + i - 1].page] \in 0 .. GenerationSize - 1
      BY <1>2, <1>4
    <3>2. 0 \in 0 .. GenerationSize - 1
      BY SMT, ConstantFacts
    <3>3. After(D[i].generation, 0) = D[i].generation
      BY <1>9, <3>1, <3>2, AfterFacts
    <3> QED
      BY <1>2, <1>7, <1>9, <3>3 DEF StampOK
  <2> QED
    BY <2>1
<1>12. Recorded(Now, v, D, C)
  BY <1>4, <1>7, <1>8, <1>10, <1>11 DEF Recorded
<1> QED
  BY <1>8, <1>9, <1>12 DEF C, D

(* A step of the guest, and the histories that follow it.                  *)
LEMMA AgedRecorded ==
    ASSUME Ticks(Now, Now'), NEW v, NEW pages, NEW code, Recorded(Now, v, pages, code)
    PROVE  /\ Recorded(Now', v, Aged(pages), code)
           /\ \A i \in 1 .. Size(code) : Aged(pages)[i].page = pages[i].page
<1> DEFINE A == Aged(pages)
           L == Size(code)
           Bumps(i) == generation'[pages[i].page] # generation[pages[i].page] /\ pages[i].since < GenerationSize
<1>1. /\ DOMAIN pages = 1 .. L /\ \A i \in 1 .. L : pages[i] \in Stamp
  BY RecordedType
<1>2. A = [i \in 1 .. L |-> IF Bumps(i) THEN [pages[i] EXCEPT !.since = @ + 1] ELSE pages[i]]
  BY <1>1 DEF Aged
<1>3. /\ Now.bytes = bytes /\ Now.generation = generation /\ Now'.bytes = bytes' /\ Now'.generation = generation'
      /\ generation \in [Page -> 0 .. GenerationSize - 1]
  BY MemoryFields DEF Now, Ticks, MemOK
<1>4. GenerationSize \in Nat /\ GenerationSize > 1
  BY ConstantFacts
<1> HIDE DEF A
<1>5. ASSUME NEW i \in 1 .. L
      PROVE  A[i] \in Stamp /\ A[i].page = pages[i].page /\ StampOK(Now', A[i], code[i])
  <2> DEFINE s == pages[i]
             p == s.page
             g == s.generation
             k == s.since
  <2>1. p \in Page /\ g \in 0 .. GenerationSize - 1 /\ k \in 0 .. GenerationSize
    BY <1>1, StampFields
  <2>2. (k < GenerationSize => generation[p] = After(g, k)) /\ (k = 0 => bytes[p] = code[i])
    BY <1>3 DEF Recorded, StampOK
  <2>3. \/ bytes'[p] = bytes[p] /\ generation'[p] = generation[p]
        \/ generation'[p] = Bump(generation[p])
    BY <1>3, <2>1 DEF Ticks, Same
  <2>4. Bump(generation[p]) # generation[p]
    BY <1>3, <2>1, BumpFacts
  <2>5. CASE Bumps(i)
    <3>1. A[i] = [s EXCEPT !.since = @ + 1]
      BY <1>2, <2>5
    <3>2. A[i] \in Stamp /\ A[i].page = p /\ A[i].generation = g /\ A[i].since = k + 1
      BY <1>1, <2>5, <3>1, StampFields
    <3>3. generation'[p] = Bump(generation[p]) /\ generation[p] = After(g, k) /\ k < GenerationSize
      BY <2>2, <2>3, <2>5
    <3> HIDE DEF s, p, g, k
    <3>4. k + 1 # 0 /\ k \in 0 .. GenerationSize - 1
      BY SMT, <1>4, <2>1, <3>3
    <3>5. k + 1 < GenerationSize => Bump(After(g, k)) = After(g, k + 1)
      BY <2>1, <3>4, AfterFacts
    <3>6. StampOK(Now', A[i], code[i])
      BY <1>3, <3>2, <3>3, <3>4, <3>5 DEF StampOK
    <3> QED
      BY <3>2, <3>6 DEF p, s
  <2>6. CASE ~Bumps(i)
    <3>1. A[i] = s
      BY <1>2, <2>6
    <3>2. k < GenerationSize => generation'[p] = generation[p] /\ bytes'[p] = bytes[p]
      BY <2>3, <2>4, <2>6
    <3>3. s \in Stamp
      BY <1>1
    <3>4. k = 0 => k < GenerationSize
      BY SMT, <1>4, <2>1
    <3>5. /\ k < GenerationSize => Now'.generation[p] = After(g, k)
          /\ k = 0 => Now'.bytes[p] = code[i]
      BY <1>3, <2>2, <3>2, <3>4
    <3>6. StampOK(Now', s, code[i])
      BY <3>5 DEF StampOK
    <3> QED
      BY <3>1, <3>3, <3>6
  <2> QED
    BY <2>5, <2>6
<1>6. A \in [1 .. L -> Stamp]
  <2>1. DOMAIN A = 1 .. L
    BY <1>2
  <2>2. A = [i \in 1 .. L |-> A[i]]
    BY <1>2
  <2> QED
    BY <1>5, <2>2
<1>7. Recorded(Now', v, A, code)
  BY <1>5, <1>6 DEF Recorded
<1> QED
  BY <1>5, <1>7 DEF A

-----------------------------------------------------------------------------
Slots == 0 .. CacheEntries - 1

(* CachesInv, entry by entry.                                              *)
EntryOK(m, st, e) ==
    e # NoEntry /\ e.machine => st # "error" /\ Recorded(m, e.eip, e.pages, e.code)
BlockOK(m, st, b) ==
    /\ st # "error" /\ Recorded(m, b.start, b.pages, b.code)
    /\ \A i \in 1 .. Size(b.code) : m.table[b.start + i - 1].page = b.pages[i].page

LEMMA CachesInvParts ==
    CachesInv <=> /\ epoch \in Nat
                  /\ decoded \in [Slots -> Entry \cup {NoEntry}]
                  /\ blocks \subseteq Block
                  /\ \A s \in Slots : EntryOK(Now, stopped, decoded[s])
                  /\ \A b \in blocks : BlockOK(Now, stopped, b)
  BY NowFields DEF CachesInv, Slots, EntryOK, BlockOK

LEMMA CachesInvNext ==
    ASSUME epoch' \in Nat, decoded' \in [Slots -> Entry \cup {NoEntry}], blocks' \subseteq Block,
           \A s \in Slots : EntryOK(Now', stopped', decoded'[s]),
           \A b \in blocks' : BlockOK(Now', stopped', b)
    PROVE  CachesInv'
<1>1. Now'.table = table'
  BY DEF Now
<1> QED
  BY <1>1 DEF CachesInv, Slots, EntryOK, BlockOK

LEMMA NoEntryIsNone == NoEntry \notin Entry /\ \A v \in VirtualPage : NoEntry.eip # v
<1>1. NoEntry.eip = -1 /\ \A v \in VirtualPage : v # -1
  BY SMT, AddressFacts DEF NoEntry
<1>2. \A e \in Entry : e.eip \in VirtualPage
  BY DEF Entry
<1> QED
  BY <1>1, <1>2

(* A guest step does not move a page under a block.                        *)
LEMMA MappingKept ==
    ASSUME Ticks(Now, Now'), NEW w \in VirtualPage, table[w].page \in Page
    PROVE  table'[w].page = table[w].page
<1>1. Now.table = table /\ Now'.table = table'
  BY DEF Now
<1>2. CASE w \in Outside
  <2>1. table[w] # Unmapped
    BY SMT, AddressFacts DEF Unmapped
  <2> QED
    BY <1>1, <1>2, <2>1 DEF Ticks, Backed
<1>3. CASE w \notin Outside
  <2>1. PICK p \in Page : w = Window + p
    BY <1>3, AddressFacts
  <2>2. Now.table[w].page = p /\ Now'.table[w].page = p
    BY <2>1 DEF Ticks, MemOK, WindowOK
  <2> QED
    BY <1>1, <2>2
<1> QED
  BY <1>2, <1>3

LEMMA AgedType ==
    ASSUME NEW P \in PagesType
    PROVE  Aged(P) \in PagesType
<1> DEFINE Change(i) == IF generation'[P[i].page] # generation[P[i].page] /\ P[i].since < GenerationSize
                        THEN [P[i] EXCEPT !.since = @ + 1] ELSE P[i]
<1>1. PICK n \in {1, 2} : P \in [1 .. n -> Stamp]
  BY DEF PagesType
<1>2. \A i \in 1 .. n : Change(i) \in Stamp
  <2>1. ASSUME NEW i \in 1 .. n PROVE Change(i) \in Stamp
    <3>1. P[i] \in Stamp
      BY <1>1
    <3> QED
      BY <3>1, StampFields
  <2> QED
    BY <2>1
<1>3. Aged(P) = [i \in 1 .. n |-> Change(i)]
  BY <1>1 DEF Aged
<1> HIDE DEF Change
<1>4. Aged(P) \in [1 .. n -> Stamp]
  BY <1>2, <1>3
<1> QED
  BY <1>1, <1>4 DEF PagesType

LEMMA GuestAgesInv ==
    ASSUME MemoryInv, CachesInv, GuestNext, GuestAges
    PROVE  CachesInv'
<1>1. Ticks(Now, Now') /\ stopped' # "error"
  BY GuestTicks
<1>2. /\ epoch \in Nat /\ decoded \in [Slots -> Entry \cup {NoEntry}] /\ blocks \subseteq Block
      /\ \A s \in Slots : EntryOK(Now, stopped, decoded[s])
      /\ \A b \in blocks : BlockOK(Now, stopped, b)
  BY CachesInvParts
<1> DEFINE Old(e) == [e EXCEPT !.pages = Aged(e.pages)]
<1>3. /\ decoded' = [s \in Slots |-> IF decoded[s] = NoEntry THEN NoEntry ELSE Old(decoded[s])]
      /\ blocks' = {Old(b) : b \in blocks} /\ epoch' = epoch
  <2>1. DOMAIN decoded = Slots
    BY <1>2
  <2> QED
    BY <2>1 DEF GuestAges, Entries
<1>4. ASSUME NEW e \in Entry, EntryOK(Now, stopped, e)
      PROVE  Old(e) \in Entry /\ EntryOK(Now', stopped', Old(e))
  <2> DEFINE P == Aged(e.pages)
  <2>1. e.pages \in PagesType
    BY DEF Entry
  <2>2. P \in PagesType
    BY <2>1, AgedType
  <2>3. Old(e) = [e EXCEPT !.pages = P]
    OBVIOUS
  <2> HIDE DEF P, Old
  <2>4. /\ Old(e) \in Entry /\ Old(e).eip = e.eip /\ Old(e).pages = P /\ Old(e).code = e.code
        /\ Old(e).machine = e.machine
    BY <2>2, <2>3 DEF Entry
  <2>5. ASSUME e.machine PROVE Recorded(Now', e.eip, P, e.code)
    <3>1. Recorded(Now, e.eip, e.pages, e.code)
      BY <1>4, <2>5, NoEntryIsNone DEF EntryOK
    <3> QED
      BY <1>1, <3>1, AgedRecorded DEF P
  <2>6. Old(e).machine => stopped' # "error" /\ Recorded(Now', Old(e).eip, Old(e).pages, Old(e).code)
    BY <1>1, <2>4, <2>5
  <2> QED
    BY <2>4, <2>6 DEF EntryOK, Old
<1>5. ASSUME NEW b \in Block, BlockOK(Now, stopped, b)
      PROVE  Old(b) \in Block /\ BlockOK(Now', stopped', Old(b))
  <2> DEFINE P == Aged(b.pages)
  <2>1. b.pages \in PagesType
    BY DEF Block
  <2>2. P \in PagesType
    BY <2>1, AgedType
  <2>3. Old(b) = [b EXCEPT !.pages = P]
    OBVIOUS
  <2> HIDE DEF P, Old
  <2>4. Old(b) \in Block /\ Old(b).start = b.start /\ Old(b).pages = P /\ Old(b).code = b.code
    BY SMT, <2>2, <2>3, BlockFields
  <2>5. Recorded(Now, b.start, b.pages, b.code)
    BY <1>5 DEF BlockOK
  <2>6. Recorded(Now', b.start, P, b.code) /\ \A i \in 1 .. Size(b.code) : P[i].page = b.pages[i].page
    BY SMT, <1>1, <2>5, AgedRecorded DEF P
  <2>7. ASSUME NEW i \in 1 .. Size(b.code) PROVE table'[b.start + i - 1].page = P[i].page
    <3>1. b.start + i - 1 \in VirtualPage
      BY <2>5 DEF Recorded
    <3>2. b.pages[i] \in Stamp
      BY <2>5, RecordedType
    <3>3. b.pages[i].page \in Page
      BY <3>2, StampFields
    <3>4. table[b.start + i - 1].page = b.pages[i].page
      BY <1>5, NowFields DEF BlockOK
    <3> QED
      BY <1>1, <2>6, <3>1, <3>3, <3>4, MappingKept
  <2>8. \A i \in 1 .. Size(b.code) : Now'.table[b.start + i - 1].page = P[i].page
    BY <2>7 DEF Now
  <2> QED
    BY <1>1, <2>4, <2>6, <2>8 DEF BlockOK, Old
<1> HIDE DEF Old
<1>6. \A s \in Slots : decoded'[s] \in Entry \cup {NoEntry} /\ EntryOK(Now', stopped', decoded'[s])
  <2>1. ASSUME NEW s \in Slots PROVE decoded'[s] \in Entry \cup {NoEntry} /\ EntryOK(Now', stopped', decoded'[s])
    <3>1. decoded[s] \in Entry \cup {NoEntry} /\ EntryOK(Now, stopped, decoded[s])
      BY <1>2
    <3>2. CASE decoded[s] = NoEntry
      <4>1. decoded'[s] = NoEntry
        BY <1>3, <3>2
      <4> QED
        BY <4>1 DEF EntryOK
    <3>3. CASE decoded[s] # NoEntry
      <4>1. decoded'[s] = Old(decoded[s])
        BY <1>3, <3>3
      <4>2. Old(decoded[s]) \in Entry /\ EntryOK(Now', stopped', Old(decoded[s]))
        BY <1>4, <3>1, <3>3
      <4> QED
        BY <4>1, <4>2 DEF EntryOK
    <3> QED
      BY <3>2, <3>3
  <2> QED
    BY <2>1
<1>7. decoded' \in [Slots -> Entry \cup {NoEntry}]
  BY <1>3, <1>6
<1>8. \A b \in blocks' : b \in Block /\ BlockOK(Now', stopped', b)
  BY <1>2, <1>3, <1>5
<1> QED
  BY <1>2, <1>3, <1>6, <1>7, <1>8, CachesInvNext

LEMMA NewMachineInv ==
    ASSUME CachesInv, NewMachine
    PROVE  CachesInv'
<1>1. epoch \in Nat /\ decoded \in [Slots -> Entry \cup {NoEntry}]
  BY CachesInvParts
<1> DEFINE Gone(e) == [e EXCEPT !.machine = FALSE]
<1>2. /\ decoded' = [s \in Slots |-> IF decoded[s] = NoEntry THEN NoEntry ELSE Gone(decoded[s])]
      /\ blocks' = {} /\ epoch' = epoch + 2
  <2>1. DOMAIN decoded = Slots
    BY <1>1
  <2> QED
    BY <2>1 DEF NewMachine, Entries
<1>3. \A e \in Entry : Gone(e) \in Entry /\ Gone(e).machine = FALSE
  BY DEF Entry
<1> HIDE DEF Gone
<1>4. ASSUME NEW s \in Slots
      PROVE  decoded'[s] \in Entry \cup {NoEntry} /\ EntryOK(Now', stopped', decoded'[s])
  <2>1. \/ decoded'[s] = NoEntry
        \/ decoded'[s] \in Entry /\ decoded'[s].machine = FALSE
    BY <1>1, <1>2, <1>3
  <2> QED
    BY <2>1 DEF EntryOK
<1>5. decoded' \in [Slots -> Entry \cup {NoEntry}]
  BY <1>2, <1>4
<1>6. epoch' \in Nat /\ blocks' \subseteq Block /\ \A b \in blocks' : BlockOK(Now', stopped', b)
  BY SMT, <1>1, <1>2
<1> QED
  BY <1>4, <1>5, <1>6, CachesInvNext

LEMMA UnchangedVars ==
    ASSUME UNCHANGED vars
    PROVE  Now' = Now /\ stopped' = stopped
  BY DEF vars, memory, session, Now

LEMMA ExecuteInv ==
    ASSUME MemoryInv, CachesInv, NEW v \in VirtualPage, Execute(v)
    PROVE  CachesInv'
<1> DEFINE e == DecodedAt(v)
<1>1. /\ Running /\ Fetchable(v) /\ decoded' = [decoded EXCEPT ![Slot(v)] = e]
      /\ blocks' = blocks /\ epoch' = epoch /\ Now' = Now /\ stopped' = stopped
  BY UnchangedVars DEF Execute
<1>2. /\ epoch \in Nat /\ decoded \in [Slots -> Entry \cup {NoEntry}] /\ blocks \subseteq Block
      /\ \A s \in Slots : EntryOK(Now, stopped, decoded[s])
      /\ \A b \in blocks : BlockOK(Now, stopped, b)
  BY CachesInvParts
<1>3. MemOK(Now) /\ stopped # "error"
  BY <1>1, RunningInv
<1>4. Recorded(Now, v, Dependencies(v), Code(v))
  BY <1>1, <1>3, DecodeRecorded
<1>5. Dependencies(v) \in PagesType /\ Code(v) \in CodeType
  BY <1>4, RecordedType
<1>6. e \in Entry /\ EntryOK(Now, stopped, e)
  BY <1>3, <1>4, <1>5 DEF DecodedAt, Entry, EntryOK
<1> HIDE DEF e
<1>7. ASSUME NEW s \in Slots
      PROVE  decoded'[s] \in Entry \cup {NoEntry} /\ EntryOK(Now', stopped', decoded'[s])
  <2>1. decoded'[s] = e \/ decoded'[s] = decoded[s]
    BY <1>1, <1>2
  <2>2. decoded'[s] \in Entry \cup {NoEntry} /\ EntryOK(Now, stopped, decoded'[s])
    BY <1>2, <1>6, <2>1
  <2> QED
    BY <1>1, <2>2
<1>8. decoded' \in [Slots -> Entry \cup {NoEntry}]
  BY <1>1, <1>2, <1>6
<1>9. \A b \in blocks' : BlockOK(Now', stopped', b)
  BY <1>1, <1>2
<1> QED
  BY <1>1, <1>2, <1>7, <1>8, <1>9, CachesInvNext

LEMMA CompileInv ==
    ASSUME MemoryInv, CachesInv, NEW v \in VirtualPage, CompileBlock(v)
    PROVE  CachesInv'
<1> DEFINE n == [start |-> v, epoch |-> epoch, pages |-> Dependencies(v), code |-> Code(v)]
<1>1. /\ Running /\ Fetchable(v) /\ blocks' \subseteq blocks \cup {n}
      /\ decoded' = decoded /\ epoch' = epoch /\ Now' = Now /\ stopped' = stopped
  BY UnchangedVars DEF CompileBlock
<1>2. /\ epoch \in Nat /\ decoded \in [Slots -> Entry \cup {NoEntry}] /\ blocks \subseteq Block
      /\ \A s \in Slots : EntryOK(Now, stopped, decoded[s])
      /\ \A b \in blocks : BlockOK(Now, stopped, b)
  BY CachesInvParts
<1>3. MemOK(Now) /\ stopped # "error"
  BY <1>1, RunningInv
<1>4. /\ Recorded(Now, v, Dependencies(v), Code(v))
      /\ \A i \in 1 .. Size(Code(v)) : Now.table[v + i - 1].page = Dependencies(v)[i].page
  BY <1>1, <1>3, DecodeRecorded, NowFields
<1>5. Dependencies(v) \in PagesType /\ Code(v) \in CodeType
  BY <1>4, RecordedType
<1>6. n \in Block /\ n.start = v /\ n.pages = Dependencies(v) /\ n.code = Code(v)
  BY <1>2, <1>5 DEF Block
<1> HIDE DEF n
<1>7. BlockOK(Now, stopped, n)
  BY <1>3, <1>4, <1>6 DEF BlockOK
<1>8. blocks' \subseteq Block /\ \A b \in blocks' : BlockOK(Now', stopped', b)
  BY <1>1, <1>2, <1>6, <1>7
<1>9. \A s \in Slots : EntryOK(Now', stopped', decoded'[s])
  BY <1>1, <1>2
<1> QED
  BY <1>1, <1>2, <1>8, <1>9, CachesInvNext

LEMMA CachesStep ==
    ASSUME MemoryInv, CachesInv, [CachesNext]_<<vars, caches>>
    PROVE  CachesInv' /\ [Next]_vars
<1>1. CASE GuestNext /\ GuestAges
  BY <1>1, GuestAgesInv DEF Next
<1>2. CASE BootNext /\ NewMachine
  BY <1>2, NewMachineInv DEF Next
<1>3. ASSUME NEW v \in VirtualPage, Execute(v) PROVE CachesInv' /\ [Next]_vars
  BY <1>3, ExecuteInv DEF Execute
<1>4. ASSUME NEW v \in VirtualPage, CompileBlock(v) PROVE CachesInv' /\ [Next]_vars
  BY <1>4, CompileInv DEF CompileBlock
<1>5. CASE UNCHANGED <<vars, caches>>
  <2>1. UNCHANGED vars /\ decoded' = decoded /\ blocks' = blocks /\ epoch' = epoch
    BY <1>5 DEF caches
  <2>2. Now' = Now /\ stopped' = stopped
    BY <2>1, UnchangedVars
  <2>3. /\ epoch \in Nat /\ decoded \in [Slots -> Entry \cup {NoEntry}] /\ blocks \subseteq Block
        /\ \A s \in Slots : EntryOK(Now, stopped, decoded[s])
        /\ \A b \in blocks : BlockOK(Now, stopped, b)
    BY CachesInvParts
  <2>4. /\ \A s \in Slots : EntryOK(Now', stopped', decoded'[s])
        /\ \A b \in blocks' : BlockOK(Now', stopped', b)
    BY <2>1, <2>2, <2>3
  <2>5. CachesInv'
    BY <2>1, <2>3, <2>4, CachesInvNext
  <2> QED
    BY <2>1, <2>5
<1> QED
  BY <1>1, <1>2, <1>3, <1>4, <1>5 DEF CachesNext

LEMMA CachesStart ==
    ASSUME CachesInit
    PROVE  CachesInv
<1>1. epoch \in Nat /\ blocks = {} /\ decoded = [s \in Slots |-> NoEntry]
  BY DEF CachesInit, Slots
<1>2. decoded \in [Slots -> Entry \cup {NoEntry}] /\ \A s \in Slots : EntryOK(Now, stopped, decoded[s])
  BY <1>1 DEF EntryOK
<1> QED
  BY <1>1, <1>2, CachesInvParts

-----------------------------------------------------------------------------
(* Code whose pages are where they were and were not written is what is    *)
(* there.                                                                  *)
LEMMA UnchangedCode ==
    ASSUME MemOK(Now), NEW v \in VirtualPage, NEW pages, NEW code, Recorded(Now, v, pages, code),
           \A i \in DOMAIN pages : table[v + i - 1].page = pages[i].page,
           Unchanged(pages), ~Wrapped(pages)
    PROVE  code = Code(v)
<1> DEFINE L == Size(code)
<1>1. /\ pages \in PagesType /\ code \in CodeType /\ L \in {1, 2}
      /\ DOMAIN pages = 1 .. L /\ DOMAIN code = 1 .. L /\ \A i \in 1 .. L : pages[i] \in Stamp
  BY RecordedType
<1>2. Now.table = table /\ Now.bytes = bytes /\ Now.generation = generation
  BY NowFields
<1>3. code \in [1 .. L -> Values] /\ \A i \in 1 .. L : v + i - 1 \in VirtualPage /\ StampOK(Now, pages[i], code[i])
  BY DEF Recorded
<1>4. v \in Nat
  BY AddressFacts
<1> HIDE DEF L
<1>5. ASSUME NEW i \in 1 .. L PROVE At(v + i - 1) = code[i]
  <2> DEFINE p == pages[i].page
             g == pages[i].generation
             k == pages[i].since
             w == v + i - 1
  <2>1. p \in Page /\ g \in 0 .. GenerationSize - 1 /\ k \in 0 .. GenerationSize
    BY <1>1, StampFields
  <2>2. k # GenerationSize /\ generation[p] = g /\ table[w].page = p
    BY <1>1 DEF Wrapped, Unchanged
  <2>3. /\ k < GenerationSize => generation[p] = After(g, k)
        /\ k = 0 => bytes[p] = code[i]
    BY <1>2, <1>3 DEF StampOK
  <2>4. w \in VirtualPage
    BY <1>3
  <2> HIDE DEF p, g, k, w
  <2>5. k \in 0 .. GenerationSize - 1 /\ k < GenerationSize
    BY SMT, <2>1, <2>2, ConstantFacts
  <2>6. k = 0
    BY <2>1, <2>2, <2>3, <2>5, AfterFacts
  <2>7. table[w] # Unmapped
    BY SMT, <2>1, <2>2, AddressFacts DEF Unmapped
  <2>8. At(w) = code[i]
    BY <2>2, <2>3, <2>4, <2>6, <2>7 DEF At
  <2> QED
    BY <2>8 DEF w
<1>6. Length(v) = L
  <2>1. 1 \in 1 .. L /\ v + 1 - 1 = v
    BY SMT, <1>1, <1>4
  <2>2. At(v + 1 - 1) = code[1]
    BY <1>5, <2>1
  <2> QED
    BY <2>1, <2>2 DEF Length, Size, L
<1>7. Code(v) = [i \in 1 .. L |-> At(v + i - 1)]
  BY <1>6 DEF Code
<1>8. code = [i \in 1 .. L |-> code[i]]
  BY <1>3
<1> QED
  BY <1>5, <1>7, <1>8

LEMMA InvCurrent ==
    ASSUME MemoryInv, CachesInv
    PROVE  CachesCurrent
<1>1. /\ epoch \in Nat /\ decoded \in [Slots -> Entry \cup {NoEntry}] /\ blocks \subseteq Block
      /\ \A s \in Slots : EntryOK(Now, stopped, decoded[s])
      /\ \A b \in blocks : BlockOK(Now, stopped, b)
  BY CachesInvParts
<1>2. stopped # "error" => MemOK(Now)
  BY DEF MemoryInv
<1>3. ASSUME NEW v \in VirtualPage, NEW e, e = decoded[Slot(v)], Hit(e, v), e.machine, ~Wrapped(e.pages)
      PROVE  e.code = Code(v)
  <2>1. Slot(v) \in Slots
    <3>1. v \in Nat /\ CacheEntries \in Nat \ {0}
      BY AddressFacts, CodeCachesAssumption
    <3> QED
      BY SMT, <3>1 DEF Slot, Slots
  <2>2. e # NoEntry /\ EntryOK(Now, stopped, e)
    BY <1>1, <1>3, <2>1, NoEntryIsNone DEF Hit
  <2>3. stopped # "error" /\ Recorded(Now, v, e.pages, e.code)
    BY <1>3, <2>2 DEF EntryOK, Hit
  <2>4. Unchanged(e.pages) /\ \A i \in DOMAIN e.pages : table[v + i - 1].page = e.pages[i].page
    BY <1>3 DEF Hit
  <2> QED
    BY <1>2, <1>3, <2>3, <2>4, UnchangedCode
<1>4. ASSUME NEW b \in blocks, Served(b, b.start), ~Wrapped(b.pages)
      PROVE  b.code = Code(b.start)
  <2>1. b \in Block /\ BlockOK(Now, stopped, b)
    BY <1>1
  <2>2. b.start \in VirtualPage
    BY <2>1 DEF Block
  <2>3. stopped # "error" /\ Recorded(Now, b.start, b.pages, b.code)
    BY <2>1 DEF BlockOK
  <2>4. DOMAIN b.pages = 1 .. Size(b.code)
    BY <2>3, RecordedType
  <2>5. \A i \in DOMAIN b.pages : table[b.start + i - 1].page = b.pages[i].page
    BY <2>1, <2>4, NowFields DEF BlockOK
  <2>6. Unchanged(b.pages)
    BY <1>4 DEF Served
  <2> QED
    BY <1>2, <1>4, <2>2, <2>3, <2>5, <2>6, UnchangedCode
<1> QED
  BY <1>3, <1>4 DEF CachesCurrent

(* What either cache serves is what a decode would give, whatever alias    *)
(* the bytes were changed through, for every number of pages and slots and *)
(* every width of the generation: InstructionCache::get validates page and *)
(* generation, CodeCache::get the generation alone (cache.rs of            *)
(* exbawks-cpu and of exbawks-jit).                                        *)
THEOREM CachesStayCurrent == CachesSpec => []CachesCurrent
<1>1. CachesInit => MemoryInv /\ CachesInv
  BY InitInv, CachesStart DEF CachesInit
<1>2. MemoryInv /\ CachesInv /\ [CachesNext]_<<vars, caches>> => MemoryInv' /\ CachesInv'
  BY CachesStep, StepInv
<1>3. MemoryInv /\ CachesInv => CachesCurrent
  BY InvCurrent
<1> QED
  BY <1>1, <1>2, <1>3, PTL DEF CachesSpec
=============================================================================
