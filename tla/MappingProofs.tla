--------------------------- MODULE MappingProofs ---------------------------
(***************************************************************************)
(* The mappings made from the allocator's pages: lemmas about the          *)
(* operators of GuestMemory, for any layout. What mapping, writing,        *)
(* protecting, committing and freeing do to a memory that is well formed.  *)
(***************************************************************************)
EXTENDS GuestMemory, PageAllocatorProofs

(* The prover of the steps that name none.                                 *)
USE ZenonT(20)

-----------------------------------------------------------------------------
(* Guest memory *)

(* Virtual pages outside the window; the pages of the low region, and the  *)
(* others.                                                                 *)
Outside == {ImageBase} \cup User
Low == 0 .. LowPages - 1
High == LowPages .. PageCount - 1

AllocType == [next : 0 .. PageCount, runs : RunTable, held : SUBSET Nat]
Descriptor == [page : Page \cup {NoPage}, perms : SUBSET RWX]
MemoryType == [alloc : AllocType, table : [VirtualPage -> Descriptor],
               bytes : [Page -> Values], generation : [Page -> 0 .. GenerationSize - 1]]

Backed(m, v) == m.table[v] # Unmapped

(* The window aliases every page and can be read; all but the kernel's     *)
(* image can be written.                                                   *)
WindowOK(m) == \A p \in Page :
    /\ m.table[Window + p].page = p /\ "r" \in m.table[Window + p].perms
    /\ p # LowPages - 1 => "w" \in m.table[Window + p].perms

(* A page behind the image or user memory is handed out, and to one        *)
(* virtual page only.                                                      *)
TableOK(m) ==
    /\ \A v \in Outside : Backed(m, v) =>
          m.table[v].page \in m.alloc.held \cap High /\ RW \subseteq m.table[v].perms
    /\ \A v, w \in Outside : v # w /\ Backed(m, v) /\ Backed(m, w) => m.table[v].page # m.table[w].page

MemOK(m) ==
    /\ m \in MemoryType
    /\ AllocOK(m.alloc)
    /\ Low \subseteq m.alloc.held
    /\ WindowOK(m)
    /\ TableOK(m)

-----------------------------------------------------------------------------
LEMMA ConstantFacts ==
    /\ PageCount \in Nat \ {0} /\ LowPages \in Nat \ {0} /\ BootPages \in Nat \ {0}
    /\ GenerationSize \in Nat /\ GenerationSize > 1 /\ ReserveAlign \in Nat \ {0} /\ MaxSize \in Nat
    /\ ImageBase \in Nat /\ UserBase \in Nat /\ UserEnd \in Nat /\ Window \in Nat
    /\ ImageBase < UserBase /\ UserBase <= UserEnd /\ UserEnd < Window
    /\ LowPages + 1 + BootPages <= PageCount
    /\ Zeros \in Values /\ Images \subseteq Values
  BY GuestMemoryAssumption

LEMMA AddressFacts ==
    /\ Page \in SUBSET Nat /\ VirtualPage \in SUBSET Nat /\ Outside \in SUBSET VirtualPage
    /\ NoPage \notin Page
    /\ \A p \in Page : Window + p \in VirtualPage /\ Window + p \notin Outside
    /\ \A v \in VirtualPage : v \in Outside \/ \E p \in Page : v = Window + p
    /\ \A v \in Outside : ~InWindow(v) /\ v < Window
    /\ \A p \in Page : InWindow(Window + p)
    /\ \A v : InWindow(v) => v - Window \in Page /\ v = Window + (v - Window)
    /\ \A p \in Nat : p < PageCount <=> p \in Page
    /\ Low \in SUBSET Page /\ High \in SUBSET Page
    /\ \A p \in Page : p \in High <=> p \notin Low
    /\ \A p \in Page : p \in Low <=> p < LowPages
  BY SMT, ConstantFacts DEF Page, VirtualPage, Outside, User, NoPage, InWindow, Low, High

(* A write to a page makes its generation another one.                     *)
Bump(g) == (g + 1) % GenerationSize

LEMMA BumpFacts ==
    ASSUME NEW g \in 0 .. GenerationSize - 1
    PROVE  /\ Bump(g) \in 0 .. GenerationSize - 1
           /\ Bump(g) = IF g + 1 = GenerationSize THEN 0 ELSE g + 1
           /\ Bump(g) # g
<1>1. GenerationSize \in Nat /\ GenerationSize > 1
  BY ConstantFacts
<1>2. CASE g + 1 = GenerationSize
  <2>1. GenerationSize % GenerationSize = 0
    BY SMT, <1>1
  <2> QED
    BY SMT, <1>1, <1>2, <2>1 DEF Bump
<1>3. CASE g + 1 # GenerationSize
  <2>1. g + 1 \in Nat /\ g + 1 < GenerationSize
    BY SMT, <1>1, <1>3
  <2>2. (g + 1) % GenerationSize = g + 1
    BY SMT, <1>1, <2>1
  <2> QED
    BY SMT, <1>1, <1>3, <2>2 DEF Bump
<1> QED
  BY <1>2, <1>3

LEMMA BumpedType ==
    ASSUME NEW g \in [Page -> 0 .. GenerationSize - 1], NEW B
    PROVE  /\ Bumped(g, B) \in [Page -> 0 .. GenerationSize - 1]
           /\ \A p \in Page : Bumped(g, B)[p] = IF p \in B THEN Bump(g[p]) ELSE g[p]
<1>1. \A p \in Page : Bump(g[p]) \in 0 .. GenerationSize - 1
  BY BumpFacts
<1> QED
  BY <1>1 DEF Bumped, Bump

-----------------------------------------------------------------------------
(* The fields of a memory after each kind of update.                       *)
LEMMA AllocUpdate ==
    ASSUME NEW m \in MemoryType, NEW a \in AllocType
    PROVE  LET k == [m EXCEPT !.alloc = a]
           IN  /\ k \in MemoryType /\ k.alloc = a /\ k.table = m.table
               /\ k.bytes = m.bytes /\ k.generation = m.generation
  BY DEF MemoryType

LEMMA TableUpdate ==
    ASSUME NEW m \in MemoryType, NEW t \in [VirtualPage -> Descriptor]
    PROVE  LET k == [m EXCEPT !.table = t]
           IN  /\ k \in MemoryType /\ k.alloc = m.alloc /\ k.table = t
               /\ k.bytes = m.bytes /\ k.generation = m.generation
  BY DEF MemoryType

LEMMA MemoryFields ==
    ASSUME NEW m \in MemoryType
    PROVE  /\ m.alloc \in AllocType /\ m.table \in [VirtualPage -> Descriptor]
           /\ m.bytes \in [Page -> Values] /\ m.generation \in [Page -> 0 .. GenerationSize - 1]
           /\ \A v \in VirtualPage : /\ m.table[v].page \in Page \cup {NoPage}
                                     /\ m.table[v].perms \in SUBSET RWX
  BY DEF MemoryType, Descriptor

(* What MemOK says of an address: a page behind it, unless it is unmapped. *)
LEMMA BackedPage ==
    ASSUME NEW m, MemOK(m), NEW v \in VirtualPage
    PROVE  /\ Backed(m, v) <=> m.table[v].page \in Page
           /\ Backed(m, v) => "r" \in m.table[v].perms
           /\ \A access : access \in m.table[v].perms => Backed(m, v)
           /\ v \notin Outside => Backed(m, v)
           /\ v \in Outside /\ Backed(m, v) =>
                 /\ m.table[v].page \in m.alloc.held \cap High
                 /\ RW \subseteq m.table[v].perms
<1>1. m.table[v].page \in Page \cup {NoPage} /\ m.table[v].perms \in SUBSET RWX
  BY MemoryFields DEF MemOK
<1>2. Unmapped.page = NoPage /\ Unmapped.perms = {}
  BY DEF Unmapped
<1>3. CASE v \in Outside
  <2>1. Backed(m, v) => m.table[v].page \in m.alloc.held \cap High /\ RW \subseteq m.table[v].perms
    BY <1>3 DEF MemOK, TableOK
  <2>2. m.table[v].page \in Page => Backed(m, v)
    BY <1>2, AddressFacts DEF Backed
  <2>3. "r" \in RW
    BY DEF RW
  <2>4. High \subseteq Page
    BY AddressFacts
  <2> QED
    BY <1>2, <1>3, <2>1, <2>2, <2>3, <2>4 DEF Backed
<1>4. CASE v \notin Outside
  <2>1. PICK p \in Page : v = Window + p
    BY <1>4, AddressFacts
  <2>2. m.table[v].page = p /\ "r" \in m.table[v].perms
    BY <2>1 DEF MemOK, WindowOK
  <2> QED
    BY <1>2, <1>4, <2>2, AddressFacts DEF Backed
<1> QED
  BY <1>3, <1>4

-----------------------------------------------------------------------------
(* How placing memory may change it: what is handed out stays so, mapped   *)
(* pages stay where they are, new ones and the pages scrubbed were free,   *)
(* and every page scrubbed has the next generation.                        *)
Scrubbed(m, k, p) ==
    /\ p \in k.alloc.held /\ p \notin m.alloc.held
    /\ k.bytes[p] = Zeros /\ k.generation[p] = Bump(m.generation[p])

Same(m, k, p) == k.bytes[p] = m.bytes[p] /\ k.generation[p] = m.generation[p]

Evolves(m, k) ==
    /\ MemOK(k)
    /\ m.alloc.held \subseteq k.alloc.held
    /\ \A v \in Outside : Backed(m, v) => Backed(k, v) /\ k.table[v].page = m.table[v].page
    /\ \A v \in Outside : ~Backed(m, v) /\ Backed(k, v) => k.table[v].page \notin m.alloc.held
    /\ \A p \in Page : Same(m, k, p) \/ Scrubbed(m, k, p)

LEMMA EvolvesSame ==
    ASSUME NEW m, MemOK(m)
    PROVE  Evolves(m, m)
  BY DEF Evolves, Same

LEMMA EvolvesOn ==
    ASSUME NEW m, NEW k, NEW l, Evolves(m, k), Evolves(k, l)
    PROVE  Evolves(m, l)
<1>1. m.alloc.held \subseteq l.alloc.held
  BY DEF Evolves
<1>2. \A v \in Outside : Backed(m, v) => Backed(l, v) /\ l.table[v].page = m.table[v].page
  BY SMT DEF Evolves
<1>3. \A v \in Outside : ~Backed(m, v) /\ Backed(l, v) => l.table[v].page \notin m.alloc.held
  <2> SUFFICES ASSUME NEW v \in Outside, ~Backed(m, v), Backed(l, v) PROVE l.table[v].page \notin m.alloc.held
    OBVIOUS
  <2>1. CASE Backed(k, v)
    BY <2>1 DEF Evolves
  <2>2. CASE ~Backed(k, v)
    BY <2>2 DEF Evolves
  <2> QED
    BY <2>1, <2>2
<1>4. ASSUME NEW p \in Page PROVE Same(m, l, p) \/ Scrubbed(m, l, p)
  <2>1. Same(m, k, p) \/ Scrubbed(m, k, p)
    BY DEF Evolves
  <2>2. Same(k, l, p) \/ Scrubbed(k, l, p)
    BY DEF Evolves
  <2>3. m.alloc.held \subseteq k.alloc.held /\ k.alloc.held \subseteq l.alloc.held
    BY DEF Evolves
  <2> QED
    BY <2>1, <2>2, <2>3 DEF Same, Scrubbed
<1> QED
  BY <1>1, <1>2, <1>3, <1>4 DEF Evolves

(* Pages taken, and nothing else done.                                     *)
LEMMA TakenPages ==
    ASSUME NEW m, MemOK(m), NEW n \in Nat \ {0}, CanAllocate(m.alloc, n)
    PROVE  LET k == [m EXCEPT !.alloc = Taken(@, n)]
               s == Span(Placed(m.alloc, n), n)
           IN  /\ k \in MemoryType /\ k.alloc = Taken(m.alloc, n) /\ k.table = m.table
               /\ k.bytes = m.bytes /\ k.generation = m.generation
               /\ k.alloc.held = m.alloc.held \cup s
               /\ AllocOK(k.alloc) /\ Placed(m.alloc, n) \in Nat
               /\ s \cap m.alloc.held = {} /\ s \subseteq High /\ s \subseteq Page
               /\ Evolves(m, k)
<1> DEFINE k == [m EXCEPT !.alloc = Taken(@, n)]
           s == Span(Placed(m.alloc, n), n)
           a == Taken(m.alloc, n)
<1>1. AllocOK(m.alloc) /\ m \in MemoryType
  BY DEF MemOK
<1>2. AllocOK(a) /\ a.held = m.alloc.held \cup s /\ s \cap m.alloc.held = {} /\ Placed(m.alloc, n) \in Nat
  BY <1>1, TakenOK
<1>3. a \in AllocType
  BY <1>2 DEF AllocOK, AllocType
<1>4. /\ k \in MemoryType /\ k.alloc = a /\ k.table = m.table
      /\ k.bytes = m.bytes /\ k.generation = m.generation
  BY <1>1, <1>3, AllocUpdate
<1>5. s \subseteq Page
  <2>1. a.held \in SUBSET (0 .. a.next - 1) /\ a.next \in Nat /\ a.next <= PageCount /\ PageCount \in Nat
    BY <1>2, AllocParts
  <2>2. 0 .. a.next - 1 \subseteq Page
    BY SMT, <2>1 DEF Page
  <2> QED
    BY <1>2, <2>1, <2>2
<1>6. s \subseteq High
  BY <1>2, <1>5, AddressFacts DEF MemOK
<1> HIDE DEF k, s, a
<1>7. MemOK(k)
  <2>1. WindowOK(k)
    BY <1>4 DEF MemOK, WindowOK
  <2>2. TableOK(k)
    BY <1>2, <1>4 DEF MemOK, TableOK, Backed
  <2>3. Low \subseteq k.alloc.held
    BY <1>2, <1>4 DEF MemOK
  <2> QED
    BY <1>2, <1>4, <2>1, <2>2, <2>3 DEF MemOK
<1>8. Evolves(m, k)
  <2>1. \A p \in Page : Same(m, k, p)
    BY <1>4 DEF Same
  <2>2. \A v : Backed(m, v) <=> Backed(k, v)
    BY <1>4 DEF Backed
  <2> QED
    BY <1>2, <1>4, <1>7, <2>1, <2>2 DEF Evolves
<1> QED
  BY <1>2, <1>4, <1>5, <1>6, <1>8 DEF k, s, a

(* map_anonymous where the range is free.                                  *)
LEMMA MapsFree ==
    ASSUME NEW m, MemOK(m), NEW v \in Nat, NEW n \in Nat \ {0}, CanMap(m, v, n),
           NEW perms \in SUBSET RWX, RW \subseteq perms
    PROVE  LET k == MapAnonymous(m, v, n, perms)
               p == Placed(m.alloc, n)
           IN  /\ Evolves(m, k)
               /\ k.bytes = m.bytes /\ k.generation = m.generation
               /\ k.alloc = Taken(m.alloc, n)
               /\ Span(v, n) \subseteq Outside
               /\ \A w \in Span(v, n) : k.table[w] = [page |-> p + (w - v), perms |-> perms]
               /\ \A w \in Span(v, n) : p + (w - v) \in Span(p, n)
               /\ \A w \in VirtualPage : w \notin Span(v, n) => k.table[w] = m.table[w]
<1> DEFINE k == MapAnonymous(m, v, n, perms)
           t == [m EXCEPT !.alloc = Taken(@, n)]
           p == Placed(m.alloc, n)
           s == Span(p, n)
           f == [w \in VirtualPage |-> IF w \in Span(v, n) THEN [page |-> p + (w - v), perms |-> perms] ELSE m.table[w]]
<1>1. CanAllocate(m.alloc, n) /\ Free(m, v, n)
  BY DEF CanMap
<1>2. /\ t \in MemoryType /\ t.alloc = Taken(m.alloc, n) /\ t.table = m.table
      /\ t.bytes = m.bytes /\ t.generation = m.generation
      /\ t.alloc.held = m.alloc.held \cup s
      /\ AllocOK(t.alloc) /\ p \in Nat
      /\ s \cap m.alloc.held = {} /\ s \subseteq High /\ s \subseteq Page
      /\ Evolves(m, t)
  BY <1>1, TakenPages
<1>3. m \in MemoryType /\ DOMAIN m.table = VirtualPage
  BY MemoryFields DEF MemOK
<1>4. k = [t EXCEPT !.table = f]
  <2>1. k = Mapped(t, v, n, p, perms)
    BY <1>1 DEF MapAnonymous
  <2> HIDE DEF t, p, k
  <2> QED
    BY <1>2, <2>1 DEF Mapped
<1> HIDE DEF t, p, s, k
<1>5. \A w \in Span(v, n) : w \in Nat /\ v <= w /\ w < v + n
  BY SpanIn
<1>6. \A w \in Span(v, n) : p + (w - v) \in s
  <2>1. \A q : q \in s <=> q \in Nat /\ p <= q /\ q < p + n
    BY <1>2, SpanIn DEF s
  <2> QED
    BY SMT, <1>2, <1>5, <2>1
<1>7. f \in [VirtualPage -> Descriptor]
  <2>1. ASSUME NEW w \in VirtualPage PROVE f[w] \in Descriptor
    <3>1. CASE w \in Span(v, n)
      <4>1. p + (w - v) \in Page
        BY <1>2, <1>6, <3>1
      <4> QED
        BY <3>1, <4>1 DEF Descriptor
    <3>2. CASE w \notin Span(v, n)
      BY <1>3, <3>2, MemoryFields
    <3> QED
      BY <3>1, <3>2
  <2> QED
    BY <2>1
<1>8. /\ k \in MemoryType /\ k.alloc = t.alloc /\ k.table = f
      /\ k.bytes = m.bytes /\ k.generation = m.generation
  BY ZenonT(30), <1>2, <1>4, <1>7, TableUpdate
<1>9. \A w \in Span(v, n) : w \in Outside /\ ~Backed(m, w)
  <2>1. \A w \in Span(v, n) : w \in VirtualPage /\ ~Backed(m, w)
    BY <1>1, <1>3 DEF Free, Backed
  <2> QED
    BY <2>1, BackedPage
<1>10. \A w \in Span(v, n) : k.table[w] = [page |-> p + (w - v), perms |-> perms]
  BY <1>8, <1>9, AddressFacts
<1>11. \A w \in VirtualPage : w \notin Span(v, n) => k.table[w] = m.table[w]
  BY <1>8
<1>12. \A w \in Span(v, n) : Backed(k, w) /\ k.table[w].page = p + (w - v) /\ k.table[w].perms = perms
  <2>1. \A w \in Span(v, n) : p + (w - v) \in Page
    BY <1>2, <1>6
  <2>2. \A w \in Span(v, n) : p + (w - v) # NoPage
    BY <2>1, AddressFacts
  <2>3. ASSUME NEW w \in Span(v, n) PROVE k.table[w].page = p + (w - v) /\ k.table[w].perms = perms
    <3> DEFINE q == p + (w - v)
    <3>1. k.table[w] = [page |-> q, perms |-> perms]
      BY <1>10, <2>3
    <3> HIDE DEF q
    <3>2. k.table[w].page = q /\ k.table[w].perms = perms
      BY SMT, <3>1
    <3> QED
      BY <3>2 DEF q
  <2>4. Unmapped.page = NoPage
    BY DEF Unmapped
  <2> QED
    BY <2>2, <2>3, <2>4 DEF Backed
<1>13. \A w \in Outside : w \notin Span(v, n) => (Backed(k, w) <=> Backed(m, w)) /\ k.table[w] = m.table[w]
  BY <1>11, AddressFacts DEF Backed
<1> HIDE DEF f
<1>14. MemOK(k)
  <2>1. WindowOK(k)
    <3>1. \A q \in Page : Window + q \notin Span(v, n) /\ Window + q \in VirtualPage
      BY <1>9, AddressFacts
    <3>2. \A q \in Page : k.table[Window + q] = m.table[Window + q]
      BY <1>11, <3>1
    <3> QED
      BY <3>2 DEF MemOK, WindowOK
  <2>2. Low \subseteq k.alloc.held
    BY <1>2, <1>8 DEF MemOK
  <2>3. ASSUME NEW w \in Outside, Backed(k, w)
        PROVE  k.table[w].page \in k.alloc.held \cap High /\ RW \subseteq k.table[w].perms
    <3>1. CASE w \in Span(v, n)
      BY <1>2, <1>6, <1>8, <1>12, <3>1
    <3>2. CASE w \notin Span(v, n)
      BY <1>2, <1>8, <1>13, <2>3, <3>2 DEF MemOK, TableOK
    <3> QED
      BY <3>1, <3>2
  <2>4. ASSUME NEW w \in Outside, NEW u \in Outside, w # u, Backed(k, w), Backed(k, u)
        PROVE  k.table[w].page # k.table[u].page
    <3>1. CASE w \in Span(v, n) /\ u \in Span(v, n)
      <4>1. p + (w - v) # p + (u - v)
        BY SMT, <1>2, <1>5, <2>4, <3>1
      <4> QED
        BY <1>12, <3>1, <4>1
    <3>2. ASSUME NEW x \in Outside, NEW y \in Outside, x \in Span(v, n), y \notin Span(v, n), Backed(k, y)
          PROVE  k.table[x].page # k.table[y].page
      <4>1. k.table[x].page \in s
        BY <1>6, <1>12, <3>2
      <4>2. k.table[y].page \in m.alloc.held
        BY <1>13, <3>2 DEF MemOK, TableOK
      <4> QED
        BY <1>2, <4>1, <4>2
    <3>3. CASE w \notin Span(v, n) /\ u \notin Span(v, n)
      BY <1>13, <2>4, <3>3 DEF MemOK, TableOK
    <3> QED
      BY <2>4, <3>1, <3>2, <3>3
  <2>5. TableOK(k)
    BY <2>3, <2>4 DEF TableOK
  <2> QED
    BY <1>2, <1>8, <2>1, <2>2, <2>5 DEF MemOK
<1>15. Evolves(m, k)
  <2>1. \A q \in Page : Same(m, k, q)
    BY <1>8 DEF Same
  <2>2. m.alloc.held \subseteq k.alloc.held
    BY <1>2, <1>8
  <2>3. \A w \in Outside : Backed(m, w) => Backed(k, w) /\ k.table[w].page = m.table[w].page
    BY <1>9, <1>13
  <2>4. \A w \in Outside : ~Backed(m, w) /\ Backed(k, w) => k.table[w].page \notin m.alloc.held
    BY <1>2, <1>6, <1>12, <1>13
  <2> QED
    BY <1>14, <2>1, <2>2, <2>3, <2>4 DEF Evolves
<1>16. Span(v, n) \subseteq Outside
  BY <1>9
<1> QED
  BY <1>2, <1>6, <1>8, <1>10, <1>11, <1>15, <1>16 DEF k, p, s

(* map_anonymous where it is not: at most the pool changes.                *)
LEMMA MapsNothing ==
    ASSUME NEW m, MemOK(m), NEW v \in Nat, NEW n \in Nat \ {0}, ~CanMap(m, v, n), NEW perms
    PROVE  LET k == MapAnonymous(m, v, n, perms)
           IN  /\ Evolves(m, k) /\ k.table = m.table /\ k.alloc.held = m.alloc.held
               /\ k.bytes = m.bytes /\ k.generation = m.generation
<1> DEFINE k == MapAnonymous(m, v, n, perms)
           t == [m EXCEPT !.alloc = Taken(@, n)]
           p == Placed(m.alloc, n)
           s == Span(p, n)
<1>1. CASE ~CanAllocate(m.alloc, n)
  BY <1>1, EvolvesSame DEF MapAnonymous
<1>2. CASE CanAllocate(m.alloc, n)
  <2>1. ~Free(m, v, n)
    BY <1>2 DEF CanMap
  <2>2. /\ t \in MemoryType /\ t.alloc = Taken(m.alloc, n) /\ t.table = m.table
        /\ t.bytes = m.bytes /\ t.generation = m.generation
        /\ t.alloc.held = m.alloc.held \cup s
        /\ AllocOK(t.alloc) /\ p \in Nat
        /\ s \cap m.alloc.held = {}
    BY <1>2, TakenPages
  <2>3. k = [t EXCEPT !.alloc = RolledBack(@, p, n)]
    BY <1>2, <2>1 DEF MapAnonymous
  <2> HIDE DEF t, p, s, k
  <2>4. s \subseteq t.alloc.held
    BY <2>2
  <2>5. AllocOK(RolledBack(t.alloc, p, n)) /\ RolledBack(t.alloc, p, n).held = t.alloc.held \ s
    BY SMT, <2>2, <2>4, RolledBackOK DEF s
  <2>6. RolledBack(t.alloc, p, n) \in AllocType
    BY <2>5 DEF AllocOK, AllocType
  <2>7. /\ k \in MemoryType /\ k.alloc = RolledBack(t.alloc, p, n) /\ k.table = m.table
        /\ k.bytes = m.bytes /\ k.generation = m.generation
    BY <2>2, <2>3, <2>6, AllocUpdate
  <2>8. k.alloc.held = m.alloc.held
    BY <2>2, <2>5, <2>7
  <2>9. MemOK(k)
    <3>1. WindowOK(k) /\ Low \subseteq k.alloc.held
      BY <2>7, <2>8 DEF MemOK, WindowOK
    <3>2. TableOK(k)
      BY <2>7, <2>8 DEF MemOK, TableOK, Backed
    <3> QED
      BY <2>5, <2>7, <3>1, <3>2 DEF MemOK
  <2>10. Evolves(m, k)
    <3>1. \A q \in Page : Same(m, k, q)
      BY <2>7 DEF Same
    <3>2. \A w : Backed(m, w) <=> Backed(k, w)
      BY <2>7 DEF Backed
    <3> QED
      BY <2>7, <2>8, <2>9, <3>1, <3>2 DEF Evolves
  <2> QED
    BY <2>7, <2>8, <2>10 DEF k
<1> QED
  BY <1>1, <1>2

(* A checked write: the pages behind the range have its bytes and the next *)
(* generation.                                                             *)
LEMMA WrittenPages ==
    ASSUME NEW m, MemOK(m), NEW v \in Nat, NEW n \in Nat \ {0}, NEW x,
           \A w \in Span(v, n) : w \in VirtualPage /\ Backed(m, w) /\ x[w] \in Values
    PROVE  LET k == Written(m, v, n, x)
           IN  /\ MemOK(k) /\ k.alloc = m.alloc /\ k.table = m.table
               /\ Backing(m, v, n) \subseteq Page
               /\ \A p \in Page : p \notin Backing(m, v, n) => Same(m, k, p)
               /\ \A p \in Backing(m, v, n) :
                     /\ \E w \in Span(v, n) : m.table[w].page = p /\ k.bytes[p] = x[w]
                     /\ k.generation[p] = Bump(m.generation[p])
<1> DEFINE k == Written(m, v, n, x)
           B == Backing(m, v, n)
           C(p) == CHOOSE w \in Span(v, n) : m.table[w].page = p
           f == [p \in Page |-> IF p \in B THEN x[C(p)] ELSE m.bytes[p]]
<1>1. B \subseteq Page
  <2>1. \A w \in Span(v, n) : m.table[w].page \in Page
    BY BackedPage
  <2> QED
    BY <2>1 DEF Backing
<1>2. \A p \in B : C(p) \in Span(v, n) /\ m.table[C(p)].page = p
  BY DEF Backing
<1>3. m \in MemoryType
  BY DEF MemOK
<1>4. k = [m EXCEPT !.bytes = f, !.generation = Bumped(m.generation, B)]
  BY DEF Written
<1> HIDE DEF C, k
<1>5. f \in [Page -> Values]
  <2>1. \A p \in Page : f[p] \in Values
    BY <1>2, <1>3, MemoryFields
  <2> QED
    BY <2>1
<1>6. /\ Bumped(m.generation, B) \in [Page -> 0 .. GenerationSize - 1]
      /\ \A p \in Page : Bumped(m.generation, B)[p] = IF p \in B THEN Bump(m.generation[p]) ELSE m.generation[p]
  BY SMT, <1>3, MemoryFields, BumpedType
<1> HIDE DEF B
<1>7. /\ k \in MemoryType /\ k.alloc = m.alloc /\ k.table = m.table
      /\ k.bytes = f /\ k.generation = Bumped(m.generation, B)
  <2> DEFINE g == Bumped(m.generation, B)
  <2> HIDE DEF f, g
  <2>1. k = [m EXCEPT !.bytes = f, !.generation = g]
    BY <1>4 DEF g
  <2>2. g \in [Page -> 0 .. GenerationSize - 1]
    BY <1>6 DEF g
  <2>3. /\ k \in MemoryType /\ k.alloc = m.alloc /\ k.table = m.table /\ k.bytes = f /\ k.generation = g
    BY <1>3, <1>5, <2>1, <2>2 DEF MemoryType
  <2> QED
    BY <2>3 DEF g
<1>8. MemOK(k)
  <2>1. WindowOK(k)
    BY <1>7 DEF MemOK, WindowOK
  <2>2. TableOK(k)
    BY SMT, <1>7 DEF MemOK, TableOK, Backed
  <2> QED
    BY <1>7, <2>1, <2>2 DEF MemOK
<1>9. \A p \in Page : p \notin B => Same(m, k, p)
  BY <1>6, <1>7 DEF Same
<1>10. ASSUME NEW p \in B
       PROVE  /\ \E w \in Span(v, n) : m.table[w].page = p /\ k.bytes[p] = x[w]
              /\ k.generation[p] = Bump(m.generation[p])
  <2>1. p \in Page
    BY <1>1
  <2>2. k.bytes[p] = x[C(p)]
    BY <1>7, <1>10, <2>1
  <2> QED
    BY <1>2, <1>6, <1>7, <2>1, <2>2
<1> QED
  BY <1>1, <1>7, <1>8, <1>9, <1>10 DEF k, B

Wrote(m, k, v, n, x) ==
    /\ MemOK(k) /\ k.alloc = m.alloc /\ k.table = m.table
    /\ \A p \in Page : p \notin Backing(m, v, n) => Same(m, k, p)
    /\ \A p \in Backing(m, v, n) : /\ \E w \in Span(v, n) : m.table[w].page = p /\ k.bytes[p] = x[w]
                                   /\ k.generation[p] = Bump(m.generation[p])

LEMMA WrittenWrote ==
    ASSUME NEW m, MemOK(m), NEW v \in Nat, NEW n \in Nat \ {0}, NEW x,
           \A w \in Span(v, n) : w \in VirtualPage /\ Backed(m, w) /\ x[w] \in Values
    PROVE  Wrote(m, Written(m, v, n, x), v, n, x)
  BY SMT, WrittenPages DEF Wrote

(* Protection of a mapped page outside the window.                         *)
LEMMA ProtectedPage ==
    ASSUME NEW m, MemOK(m), NEW v \in Outside, Backed(m, v), NEW perms \in SUBSET RWX, RW \subseteq perms
    PROVE  LET k == Protected(m, v, 1, perms)
           IN  /\ Evolves(m, k) /\ k.alloc = m.alloc /\ k.bytes = m.bytes /\ k.generation = m.generation
               /\ \A w \in VirtualPage : k.table[w].page = m.table[w].page
<1> DEFINE k == Protected(m, v, 1, perms)
           f == [w \in VirtualPage |-> IF w \in Span(v, 1) THEN [m.table[w] EXCEPT !.perms = perms] ELSE m.table[w]]
<1>1. m \in MemoryType /\ v \in Nat /\ v \in VirtualPage
  BY AddressFacts DEF MemOK
<1>2. \A w : w \in Span(v, 1) <=> w = v
  BY SMT, <1>1 DEF Span
<1>3. k = [m EXCEPT !.table = f]
  BY DEF Protected
<1> HIDE DEF k
<1>4. ASSUME NEW w \in VirtualPage
      PROVE  /\ f[w] \in Descriptor /\ f[w].page = m.table[w].page
             /\ f[w].perms = IF w = v THEN perms ELSE m.table[w].perms
             /\ w # v => f[w] = m.table[w]
  <2>1. m.table[w] \in Descriptor
    BY <1>1, MemoryFields
  <2> QED
    BY <1>2, <2>1 DEF Descriptor
<1>5. f \in [VirtualPage -> Descriptor]
  BY <1>4
<1>6. /\ k \in MemoryType /\ k.alloc = m.alloc /\ k.table = f
      /\ k.bytes = m.bytes /\ k.generation = m.generation
  BY <1>1, <1>3, <1>5, TableUpdate
<1> HIDE DEF f
<1>7. \A w \in Outside : Backed(k, w) <=> Backed(m, w)
  <2>1. Backed(k, v)
    <3>1. m.table[v].page \in Page
      BY <1>1, BackedPage
    <3>2. f[v].page # NoPage
      BY <1>1, <1>4, <3>1, AddressFacts
    <3> QED
      BY SMT, <1>6, <3>2 DEF Backed, Unmapped
  <2> QED
    BY <1>4, <1>6, <2>1, AddressFacts DEF Backed
<1>8. MemOK(k)
  <2>1. WindowOK(k)
    <3>1. \A p \in Page : Window + p # v /\ Window + p \in VirtualPage
      BY AddressFacts
    <3>2. \A p \in Page : k.table[Window + p] = m.table[Window + p]
      BY <1>4, <1>6, <3>1
    <3> QED
      BY <3>2 DEF MemOK, WindowOK
  <2>2. TableOK(k)
    <3>1. \A w \in Outside : k.table[w].page = m.table[w].page /\ (RW \subseteq m.table[w].perms => RW \subseteq k.table[w].perms)
      BY <1>4, <1>6, AddressFacts
    <3> QED
      BY <1>6, <1>7, <3>1 DEF MemOK, TableOK
  <2> QED
    BY <1>6, <2>1, <2>2 DEF MemOK
<1>9. \A w \in VirtualPage : k.table[w].page = m.table[w].page
  BY <1>4, <1>6
<1>10. Evolves(m, k)
  <2>1. \A p \in Page : Same(m, k, p)
    BY <1>6 DEF Same
  <2> QED
    BY <1>6, <1>7, <1>8, <1>9, <2>1, AddressFacts DEF Evolves
<1> QED
  BY <1>6, <1>9, <1>10 DEF k

(* The window's pages behind a range of it.                                *)
LEMMA WindowSpan ==
    ASSUME NEW m, MemOK(m), NEW p \in Nat, NEW n \in Nat, Span(p, n) \subseteq Page
    PROVE  /\ Backing(m, Window + p, n) = Span(p, n)
           /\ \A w \in Span(Window + p, n) :
                 /\ w \in VirtualPage /\ InWindow(w) /\ Backed(m, w)
                 /\ m.table[w].page = w - Window /\ w - Window \in Span(p, n)
           /\ \A q \in Span(p, n) : Window + q \in Span(Window + p, n)
<1>1. \A q : q \in Span(p, n) <=> q \in Nat /\ p <= q /\ q < p + n
  BY SpanIn
<1>2. Window \in Nat
  BY ConstantFacts
<1>3. \A w : w \in Span(Window + p, n) <=> w \in Nat /\ Window + p <= w /\ w < Window + p + n
  BY SMT, <1>2, SpanIn
<1>4. ASSUME NEW w \in Span(Window + p, n)
      PROVE  /\ w \in VirtualPage /\ InWindow(w) /\ Backed(m, w)
             /\ m.table[w].page = w - Window /\ w - Window \in Span(p, n)
  <2>1. w - Window \in Span(p, n) /\ w = Window + (w - Window)
    BY SMT, <1>1, <1>2, <1>3
  <2>2. w - Window \in Page
    BY <2>1
  <2>3. w \in VirtualPage /\ InWindow(w) /\ w \notin Outside
    BY <2>1, <2>2, AddressFacts
  <2>4. m.table[w].page = w - Window
    BY <2>1, <2>2 DEF MemOK, WindowOK
  <2> QED
    BY <2>1, <2>3, <2>4, BackedPage
<1>5. \A q \in Span(p, n) : Window + q \in Span(Window + p, n) /\ (Window + q) - Window = q
  BY SMT, <1>1, <1>2, <1>3
<1>6. \A q : q \in Backing(m, Window + p, n) <=> q \in Span(p, n)
  BY SMT, <1>4, <1>5 DEF Backing
<1> QED
  BY <1>4, <1>5, <1>6

(* allocate_kernel_block: free pages, scrubbed.                            *)
LEMMA BlockEvolves ==
    ASSUME NEW m, MemOK(m), NEW n \in Nat \ {0}, CanAllocate(m.alloc, n)
    PROVE  LET k == KernelBlock(m, n)
               s == Span(Placed(m.alloc, n), n)
           IN  /\ Evolves(m, k) /\ k.alloc = Taken(m.alloc, n) /\ k.table = m.table
               /\ k.alloc.held = m.alloc.held \cup s
               /\ Placed(m.alloc, n) \in Nat
               /\ s \cap m.alloc.held = {} /\ s \subseteq High /\ s \subseteq Page
               /\ \A p \in Page \ s : Same(m, k, p)
<1> DEFINE k == KernelBlock(m, n)
           t == [m EXCEPT !.alloc = Taken(@, n)]
           p == Placed(m.alloc, n)
           s == Span(p, n)
           x == [w \in Span(Window + p, n) |-> Zeros]
<1>1. /\ t \in MemoryType /\ t.alloc = Taken(m.alloc, n) /\ t.table = m.table
      /\ t.bytes = m.bytes /\ t.generation = m.generation
      /\ t.alloc.held = m.alloc.held \cup s
      /\ AllocOK(t.alloc) /\ p \in Nat
      /\ s \cap m.alloc.held = {} /\ s \subseteq High /\ s \subseteq Page
      /\ Evolves(m, t)
  BY TakenPages
<1>2. k = Written(t, Window + p, n, x)
  BY DEF KernelBlock
<1> HIDE DEF k, t, p
<1>3. MemOK(t)
  BY <1>1 DEF Evolves
<1>4. Window + p \in Nat
  BY SMT, <1>1, ConstantFacts
<1>5. /\ Backing(t, Window + p, n) = s
      /\ \A w \in Span(Window + p, n) : w \in VirtualPage /\ Backed(t, w)
  BY <1>1, <1>3, WindowSpan
<1>6. \A w \in Span(Window + p, n) : x[w] = Zeros /\ x[w] \in Values
  BY ConstantFacts
<1> HIDE DEF x, s
<1>7. /\ MemOK(k) /\ k.alloc = t.alloc /\ k.table = t.table
      /\ \A q \in Page : q \notin s => Same(t, k, q)
      /\ \A q \in s : /\ \E w \in Span(Window + p, n) : t.table[w].page = q /\ k.bytes[q] = x[w]
                      /\ k.generation[q] = Bump(t.generation[q])
  <2>1. \A w \in Span(Window + p, n) : w \in VirtualPage /\ Backed(t, w) /\ x[w] \in Values
    BY <1>5, <1>6
  <2>2. Wrote(t, k, Window + p, n, x)
    BY <1>2, <1>3, <1>4, <2>1, WrittenWrote
  <2> QED
    BY <1>5, <2>2 DEF Wrote
<1>8. \A q \in Page : q \notin s => Same(m, k, q)
  BY <1>1, <1>7 DEF Same
<1>9. \A q \in s : Scrubbed(m, k, q)
  BY <1>1, <1>6, <1>7 DEF Scrubbed
<1>10. Evolves(m, k)
  <2>1. \A v : (Backed(m, v) <=> Backed(k, v)) /\ k.table[v] = m.table[v]
    BY <1>1, <1>7 DEF Backed
  <2>2. m.alloc.held \subseteq k.alloc.held
    BY <1>1, <1>7
  <2> QED
    BY <1>7, <1>8, <1>9, <2>1, <2>2 DEF Evolves
<1> QED
  BY <1>1, <1>7, <1>8, <1>10 DEF k, p, s

(* A thread's pages.                                                       *)
LEMMA ThreadEvolves ==
    ASSUME NEW m, MemOK(m)
    PROVE  Evolves(m, TryBlock(TryBlock(Guarded(m))))
<1>1. ASSUME NEW k, MemOK(k) PROVE Evolves(k, TryBlock(k))
  <2>1. CASE CanAllocate(k.alloc, 1)
    <3>0. 1 \in Nat \ {0}
      BY SMT
    <3>1. Evolves(k, KernelBlock(k, 1))
      BY <1>1, <2>1, <3>0, BlockEvolves
    <3> QED
      BY <2>1, <3>1 DEF TryBlock
  <2>2. CASE ~CanAllocate(k.alloc, 1)
    BY <1>1, <2>2, EvolvesSame DEF TryBlock
  <2> QED
    BY <2>1, <2>2
<1>2. Evolves(m, Guarded(m))
  <2>1. CASE CanAllocate(m.alloc, 1)
    <3>1. Evolves(m, [m EXCEPT !.alloc = Taken(@, 1)])
      BY SMT, <2>1, TakenPages
    <3> QED
      BY <2>1, <3>1 DEF Guarded
  <2>2. CASE ~CanAllocate(m.alloc, 1)
    BY <2>2, EvolvesSame DEF Guarded
  <2> QED
    BY <2>1, <2>2
<1>3. MemOK(Guarded(m))
  BY <1>2 DEF Evolves
<1>4. Evolves(m, TryBlock(Guarded(m)))
  BY <1>1, <1>2, <1>3, EvolvesOn
<1>5. MemOK(TryBlock(Guarded(m)))
  BY <1>4 DEF Evolves
<1> QED
  BY <1>1, <1>4, <1>5, EvolvesOn

-----------------------------------------------------------------------------
(* Induction over the natural numbers, with the property as a set.         *)
LEMMA UpTo ==
    ASSUME NEW n \in Nat, NEW S, 0 \in S, \A i \in 0 .. n - 1 : i \in S => i + 1 \in S
    PROVE  \A i \in 0 .. n : i \in S
<1> DEFINE Bad == {i \in 0 .. n : i \notin S}
<1>1. SUFFICES ASSUME Bad # {} PROVE FALSE
  OBVIOUS
<1>2. Lowest(Bad) \in Bad /\ \A i \in Bad : Lowest(Bad) <= i
  <2>1. Bad \in SUBSET Nat
    BY SMT
  <2> QED
    BY <1>1, <2>1, MinOf
<1> DEFINE b == Lowest(Bad)
<1>3. b \in 0 .. n /\ b \notin S
  BY <1>2
<1>4. b # 0
  BY <1>3
<1>5. b - 1 \in 0 .. n - 1 /\ b - 1 \in 0 .. n /\ (b - 1) + 1 = b
  BY SMT, <1>3, <1>4
<1>6. b - 1 \notin Bad
  BY SMT, <1>2, <1>3, <1>5
<1>7. b - 1 \in S
  BY <1>5, <1>6
<1> QED
  BY <1>3, <1>5, <1>7

(* One page of a commit.                                                   *)
CommitState == [m : MemoryType, ok : BOOLEAN]

LEMMA CommitPageEvolves ==
    ASSUME NEW d \in CommitState, MemOK(d.m), NEW v \in User, NEW perms \in SUBSET RWX, RW \subseteq perms
    PROVE  CommitPage(d, v, perms) \in CommitState /\ Evolves(d.m, CommitPage(d, v, perms).m)
<1> DEFINE tried == MapAnonymous(d.m, v, 1, perms)
           c == CommitPage(d, v, perms)
<1>1. v \in Nat /\ v \in Outside /\ v \in VirtualPage
  BY AddressFacts DEF Outside
<1>2. \A k \in MemoryType : [d EXCEPT !.m = k] \in CommitState /\ [d EXCEPT !.m = k].m = k
  BY DEF CommitState
<1>3. [d EXCEPT !.ok = FALSE] \in CommitState /\ [d EXCEPT !.ok = FALSE].m = d.m
  BY DEF CommitState
<1>4. \A k : Evolves(d.m, k) => k \in MemoryType
  BY DEF Evolves, MemOK
<1>5. CASE ~d.ok
  <2>1. c = d
    BY <1>5 DEF CommitPage
  <2> QED
    BY <2>1, EvolvesSame
<1>6. CASE d.ok /\ CanMap(d.m, v, 1)
  <2>1. c = [d EXCEPT !.m = tried]
    BY <1>6 DEF CommitPage
  <2>2. Evolves(d.m, tried)
    BY SMT, <1>1, <1>6, MapsFree
  <2> QED
    BY <1>2, <1>4, <2>1, <2>2
<1>7. CASE d.ok /\ ~CanMap(d.m, v, 1) /\ d.m.table[v] # Unmapped
  <2>1. c = [d EXCEPT !.m = Protected(tried, v, 1, perms)]
    BY <1>7 DEF CommitPage
  <2>2. Evolves(d.m, tried) /\ tried.table = d.m.table
    BY SMT, <1>1, <1>7, MapsNothing
  <2>3. MemOK(tried) /\ Backed(tried, v)
    BY <1>7, <2>2 DEF Evolves, Backed
  <2> HIDE DEF tried
  <2>4. Evolves(tried, Protected(tried, v, 1, perms))
    BY <1>1, <2>3, ProtectedPage
  <2>5. Evolves(d.m, Protected(tried, v, 1, perms))
    BY <2>2, <2>4, EvolvesOn
  <2> QED
    BY <1>2, <1>4, <2>1, <2>5
<1>8. CASE d.ok /\ ~CanMap(d.m, v, 1) /\ ~(d.m.table[v] # Unmapped)
  <2>1. c = [d EXCEPT !.ok = FALSE]
    BY <1>8 DEF CommitPage
  <2> QED
    BY <1>3, <2>1, EvolvesSame
<1> QED
  BY <1>5, <1>6, <1>7, <1>8

(* The commit's loop is a function of the pages done.                      *)
CommitRun(f, m, v, n, perms) ==
    f = [i \in 0 .. n |-> IF i = 0 THEN [m |-> m, ok |-> TRUE]
                          ELSE CommitPage(f[i - 1], v + i - 1, perms)]

LEMMA CommitRuns ==
    ASSUME NEW m, NEW v, NEW n \in Nat, NEW perms
    PROVE  \E f : CommitRun(f, m, v, n, perms)
<1> DEFINE S == {k \in Nat : \E f : CommitRun(f, m, v, k, perms)}
<1>1. 0 \in S
  <2> DEFINE f == [i \in 0 .. 0 |-> [m |-> m, ok |-> TRUE]]
  <2>1. f = [i \in 0 .. 0 |-> IF i = 0 THEN [m |-> m, ok |-> TRUE]
                              ELSE CommitPage(f[i - 1], v + i - 1, perms)]
    BY SMT
  <2>2. CommitRun(f, m, v, 0, perms)
    BY <2>1 DEF CommitRun
  <2> QED
    BY <2>2
<1>2. ASSUME NEW j \in 0 .. n - 1, j \in S PROVE j + 1 \in S
  <2> DEFINE k == j + 1
  <2>1. j \in Nat /\ k \in Nat /\ k # 0 /\ k - 1 = j
    BY SMT, <1>2
  <2>2. PICK g : CommitRun(g, m, v, j, perms)
    BY <1>2
  <2> DEFINE h == [i \in 0 .. k |-> IF i < k THEN g[i] ELSE CommitPage(g[j], v + k - 1, perms)]
  <2> HIDE DEF k
  <2>3. ASSUME NEW i \in 0 .. k
        PROVE  h[i] = IF i = 0 THEN [m |-> m, ok |-> TRUE] ELSE CommitPage(h[i - 1], v + i - 1, perms)
    <3>1. CASE i = 0
      <4>1. h[i] = g[0] /\ 0 \in 0 .. j
        BY SMT, <2>1, <3>1
      <4> QED
        BY <2>2, <3>1, <4>1 DEF CommitRun
    <3>2. CASE i # 0 /\ i < k
      <4>1. h[i] = g[i] /\ h[i - 1] = g[i - 1] /\ i \in 0 .. j
        BY SMT, <2>1, <3>2
      <4> QED
        BY <2>2, <3>2, <4>1 DEF CommitRun
    <3>3. CASE i = k
      <4>1. h[i] = CommitPage(g[j], v + k - 1, perms) /\ h[i - 1] = g[j]
        BY SMT, <2>1, <3>3
      <4> QED
        BY <2>1, <3>3, <4>1
    <3> QED
      BY SMT, <2>1, <3>1, <3>2, <3>3
  <2>4. CommitRun(h, m, v, k, perms)
    BY <2>3 DEF CommitRun
  <2> HIDE DEF h
  <2>5. \E f : CommitRun(f, m, v, k, perms)
    BY <2>4
  <2> QED
    BY <2>1, <2>5 DEF k
<1> HIDE DEF S
<1>3. n \in S
  <2>1. \A i \in 0 .. n : i \in S
    BY <1>1, <1>2, UpTo
  <2> QED
    BY SMT, <2>1
<1> QED
  BY <1>3 DEF S

LEMMA CommitUnfolds ==
    ASSUME NEW m, NEW v, NEW n \in Nat, NEW perms
    PROVE  \E f : CommitRun(f, m, v, n, perms) /\ Committed(m, v, n, perms) = f[n].m
<1> DEFINE C == CHOOSE f : CommitRun(f, m, v, n, perms)
<1>1. CommitRun(C, m, v, n, perms)
  BY CommitRuns
<1>2. Committed(m, v, n, perms) = C[n].m
  BY DEF Committed, CommitRun
<1> HIDE DEF C
<1> QED
  BY <1>1, <1>2

(* A commit, however far it gets.                                          *)
LEMMA CommitEvolves ==
    ASSUME NEW m, MemOK(m), NEW v \in Nat, NEW n \in Nat, Span(v, n) \subseteq User,
           NEW perms \in SUBSET RWX, RW \subseteq perms
    PROVE  Evolves(m, Committed(m, v, n, perms))
<1>1. PICK f : CommitRun(f, m, v, n, perms) /\ Committed(m, v, n, perms) = f[n].m
  BY SMT, CommitUnfolds
<1>2. f[0] = [m |-> m, ok |-> TRUE] /\ \A i \in 1 .. n : f[i] = CommitPage(f[i - 1], v + i - 1, perms)
  <2>1. f = [i \in 0 .. n |-> IF i = 0 THEN [m |-> m, ok |-> TRUE]
                              ELSE CommitPage(f[i - 1], v + i - 1, perms)]
    BY <1>1 DEF CommitRun
  <2> HIDE DEF CommitPage
  <2>2. f[0] = [m |-> m, ok |-> TRUE]
    BY SMT, <2>1
  <2>3. ASSUME NEW i \in 1 .. n PROVE f[i] = CommitPage(f[i - 1], v + i - 1, perms)
    <3>1. i \in 0 .. n /\ i # 0
      BY SMT, <2>3
    <3> QED
      BY <2>1, <3>1
  <2> QED
    BY <2>2, <2>3
<1> DEFINE S == {i \in Nat : f[i] \in CommitState /\ Evolves(m, f[i].m)}
<1>3. 0 \in S
  <2>1. m \in MemoryType
    BY DEF MemOK
  <2>2. f[0] \in CommitState /\ f[0].m = m
    BY SMT, <1>2, <2>1 DEF CommitState
  <2> QED
    BY <2>2, EvolvesSame
<1>4. ASSUME NEW i \in 0 .. n - 1, i \in S PROVE i + 1 \in S
  <2> DEFINE d == f[i]
             u == v + (i + 1) - 1
  <2>1. f[i + 1] = CommitPage(d, u, perms)
    <3>1. i + 1 \in 1 .. n /\ (i + 1) - 1 = i
      BY SMT, <1>4
    <3> QED
      BY <1>2, <3>1
  <2>2. u \in User
    <3>1. u \in Nat /\ v <= u /\ u < v + n
      BY SMT, <1>4
    <3>2. u \in Span(v, n)
      BY <3>1, SpanIn
    <3> QED
      BY <3>2
  <2>3. d \in CommitState /\ Evolves(m, d.m) /\ MemOK(d.m)
    BY <1>4 DEF Evolves
  <2> HIDE DEF d, u
  <2>4. CommitPage(d, u, perms) \in CommitState /\ Evolves(d.m, CommitPage(d, u, perms).m)
    BY <2>2, <2>3, CommitPageEvolves
  <2>5. Evolves(m, CommitPage(d, u, perms).m)
    BY <2>3, <2>4, EvolvesOn
  <2> QED
    BY SMT, <1>4, <2>1, <2>4, <2>5
<1> HIDE DEF S
<1>5. n \in S
  <2>1. \A i \in 0 .. n : i \in S
    BY <1>3, <1>4, UpTo
  <2> QED
    BY SMT, <2>1
<1> QED
  BY <1>1, <1>5 DEF S

-----------------------------------------------------------------------------
(* free_physical, of pages that are handed out and not mapped.             *)
LEMMA FreedPages ==
    ASSUME NEW m, MemOK(m), NEW p \in Nat, NEW n \in Nat \ {0},
           Span(p, n) \subseteq m.alloc.held \cap High,
           \A v \in Outside : Backed(m, v) => m.table[v].page \notin Span(p, n)
    PROVE  LET k == FreePhysical(m, p, n)
           IN  /\ MemOK(k) /\ k.table = m.table /\ k.alloc.held = m.alloc.held \ Span(p, n)
               /\ \A q \in Page : q \notin Span(p, n) => Same(m, k, q)
               /\ \A q \in Span(p, n) : k.bytes[q] = Zeros /\ k.generation[q] = Bump(m.generation[q])
<1> DEFINE k == FreePhysical(m, p, n)
           s == Span(p, n)
           a == Returned(m.alloc, p, n)
           b == [q \in Page |-> IF q \in s THEN Zeros ELSE m.bytes[q]]
           g == Bumped(m.generation, s)
<1>1. m \in MemoryType /\ AllocOK(m.alloc)
  BY DEF MemOK
<1>2. AllocOK(a) /\ a.held = m.alloc.held \ s
  BY <1>1, ReturnedOK
<1>3. a \in AllocType
  <2> HIDE DEF a
  <2> QED
    BY <1>2 DEF AllocOK, AllocType
<1>4. b \in [Page -> Values]
  BY <1>1, MemoryFields, ConstantFacts
<1>5. /\ g \in [Page -> 0 .. GenerationSize - 1]
      /\ \A q \in Page : g[q] = IF q \in s THEN Bump(m.generation[q]) ELSE m.generation[q]
  BY SMT, <1>1, MemoryFields, BumpedType
<1>6. s \subseteq Page
  BY AddressFacts
<1>7. \A q \in Page : b[q] = IF q \in s THEN Zeros ELSE m.bytes[q]
  OBVIOUS
<1>8. k = [m EXCEPT !.alloc = a, !.bytes = b, !.generation = g]
  BY DEF FreePhysical
<1> HIDE DEF k, s, a, b, g
<1>9. /\ k \in MemoryType /\ k.alloc = a /\ k.table = m.table /\ k.bytes = b /\ k.generation = g
  BY <1>1, <1>3, <1>4, <1>5, <1>8 DEF MemoryType
<1>10. MemOK(k)
  <2>1. WindowOK(k)
    BY <1>9 DEF MemOK, WindowOK
  <2>2. TableOK(k)
    BY <1>2, <1>9 DEF MemOK, TableOK, Backed, s
  <2>3. Low \subseteq k.alloc.held
    <3>1. \A q \in Low : q \notin s
      BY AddressFacts DEF s
    <3> QED
      BY <1>2, <1>9, <3>1 DEF MemOK
  <2> QED
    BY <1>2, <1>9, <2>1, <2>2, <2>3 DEF MemOK
<1>11. \A q \in Page : q \notin s => Same(m, k, q)
  BY <1>5, <1>7, <1>9 DEF Same
<1>12. \A q \in s : k.bytes[q] = Zeros /\ k.generation[q] = Bump(m.generation[q])
  BY <1>5, <1>6, <1>7, <1>9
<1> QED
  BY <1>2, <1>9, <1>10, <1>11, <1>12 DEF k, s

-----------------------------------------------------------------------------
(* A machine that load_xbe is building: c is its cursor, and nothing was   *)
(* ever freed.                                                             *)
Plain(a, c) == a.next = c /\ a.runs = << >> /\ a.held = 0 .. c - 1

LEMMA PlainAlloc ==
    ASSUME NEW c \in Nat, c <= PageCount
    PROVE  LET a == [next |-> c, runs |-> << >>, held |-> 0 .. c - 1]
           IN  AllocOK(a) /\ a \in AllocType /\ Plain(a, c)
<1> DEFINE a == [next |-> c, runs |-> << >>, held |-> 0 .. c - 1]
<1>1. AllocOK(a)
  BY PlainOK
<1>2. Plain(a, c)
  BY DEF Plain
<1>3. a \in AllocType
  <2> HIDE DEF a
  <2> QED
    BY <1>1 DEF AllocOK, AllocType
<1> QED
  BY <1>1, <1>2, <1>3

(* From an allocator that never freed, pages come from the cursor.         *)
LEMMA PlainTakes ==
    ASSUME NEW c \in Nat, NEW n \in Nat \ {0}, NEW a, Plain(a, c), c + n <= PageCount
    PROVE  /\ CanAllocate(a, n) /\ Placed(a, n) = c
           /\ Plain(Taken(a, n), c + n)
           /\ Taken(a, n) = [next |-> c + n, runs |-> << >>, held |-> 0 .. (c + n) - 1]
<1>1. a.next = c /\ a.runs = << >> /\ a.held = 0 .. c - 1
  BY DEF Plain
<1>2. Fitting(a, n) = {}
  BY SMT, <1>1 DEF Fitting
<1>3. CanAllocate(a, n) /\ Placed(a, n) = c
  BY <1>1, <1>2 DEF CanAllocate, Placed
<1>4. (0 .. c - 1) \cup Span(c, n) = 0 .. (c + n) - 1
  <2>1. \A p : p \in Span(c, n) <=> p \in Nat /\ c <= p /\ p < c + n
    BY SpanIn
  <2>2. \A p : p \in (0 .. c - 1) \cup Span(c, n) <=> p \in 0 .. (c + n) - 1
    BY SMT, <2>1
  <2> QED
    BY <2>2
<1>5. Taken(a, n) = [next |-> c + n, runs |-> << >>, held |-> 0 .. (c + n) - 1]
  BY <1>1, <1>2, <1>3, <1>4 DEF Taken
<1> QED
  BY SMT, <1>3, <1>5 DEF Plain
=============================================================================
