------------------------- MODULE GuestMemoryProofs -------------------------
(***************************************************************************)
(* Theorems about GuestMemory, for any number of pages, images and sizes:  *)
(* every page has one owner, what can be handed out is zeroed, and a soft  *)
(* reboot brings back what was persisted.                                  *)
(***************************************************************************)
EXTENDS MappingProofs

(* The prover of the steps that name none.                                 *)
USE ZenonT(20)

(* The low region and the window.                                          *)
LEMMA LowMemoryOK ==
    /\ MemOK(LowMemory) /\ Plain(LowMemory.alloc, LowPages)
    /\ \A v \in Outside : ~Backed(LowMemory, v)
    /\ \A p \in Page : LowMemory.bytes[p] = Zeros
<1> DEFINE t == [Empty EXCEPT !.alloc = Taken(@, LowPages)]
           a == [next |-> LowPages, runs |-> << >>, held |-> 0 .. LowPages - 1]
           f == [w \in VirtualPage |-> IF w \in Span(Window, PageCount)
                                       THEN [page |-> 0 + (w - Window), perms |-> RW] ELSE Unmapped]
           z == [p \in Page |-> Zeros]
           g == [p \in Page |-> 0]
<1>1. /\ PageCount \in Nat \ {0} /\ LowPages \in Nat \ {0} /\ LowPages <= PageCount
      /\ Window \in Nat /\ GenerationSize \in Nat /\ GenerationSize > 1 /\ Zeros \in Values
  BY SMT, ConstantFacts
<1>2. AllocOK(a) /\ a \in AllocType /\ Plain(a, LowPages)
  BY <1>1, PlainAlloc
<1>3. Taken(NewAllocator, LowPages) = a
  <2>1. Plain(NewAllocator, 0)
    BY SMT DEF Plain, NewAllocator
  <2>2. Taken(NewAllocator, LowPages) = [next |-> 0 + LowPages, runs |-> << >>, held |-> 0 .. (0 + LowPages) - 1]
    BY SMT, <1>1, <2>1, PlainTakes
  <2> QED
    BY SMT, <1>1, <2>2
<1>4. t = [alloc |-> a, table |-> [v \in VirtualPage |-> Unmapped], bytes |-> z, generation |-> g]
  BY SMT, <1>3 DEF Empty
<1>5. LowMemory = [t EXCEPT !.table = [w \in VirtualPage |->
                      IF w \in Span(Window, PageCount) THEN [page |-> 0 + (w - Window), perms |-> RW] ELSE t.table[w]]]
  BY DEF LowMemory, Mapped
<1> HIDE DEF t, a
<1>6. LowMemory = [alloc |-> a, table |-> f, bytes |-> z, generation |-> g]
  BY <1>4, <1>5
<1>7. \A w : w \in Span(Window, PageCount) <=> InWindow(w)
  BY DEF Span, InWindow
<1>8. \A v \in Outside : f[v] = Unmapped
  BY <1>7, AddressFacts
<1>9. ASSUME NEW p \in Page PROVE f[Window + p].page = p /\ f[Window + p].perms = RW
  <2>1. 0 + ((Window + p) - Window) = p
    BY SMT, <1>1, AddressFacts
  <2>2. f[Window + p] = [page |-> 0 + ((Window + p) - Window), perms |-> RW]
    BY <1>7, AddressFacts
  <2> HIDE DEF f
  <2>3. f[Window + p] = [page |-> p, perms |-> RW]
    BY <2>1, <2>2
  <2> QED
    BY SMT, <2>3
<1>10. f \in [VirtualPage -> Descriptor]
  <2>1. Unmapped \in Descriptor
    BY DEF Unmapped, Descriptor
  <2>2. ASSUME NEW p \in Page PROVE f[Window + p] \in Descriptor
    <3>1. 0 + ((Window + p) - Window) = p
      BY SMT, <1>1, AddressFacts
    <3>2. f[Window + p] = [page |-> 0 + ((Window + p) - Window), perms |-> RW]
      BY <1>7, AddressFacts
    <3>3. [page |-> p, perms |-> RW] \in Descriptor
      BY DEF Descriptor, RW, RWX
    <3> HIDE DEF f
    <3> QED
      BY <3>1, <3>2, <3>3
  <2>3. \A w \in VirtualPage : f[w] \in Descriptor
    BY <1>8, <2>1, <2>2, AddressFacts
  <2> QED
    BY <2>3
<1>11. z \in [Page -> Values] /\ g \in [Page -> 0 .. GenerationSize - 1] /\ \A p \in Page : z[p] = Zeros
  BY SMT, <1>1
<1> HIDE DEF f, z, g
<1>12. LowMemory \in MemoryType
  BY <1>2, <1>6, <1>10, <1>11 DEF MemoryType
<1>13. LowMemory.alloc = a /\ LowMemory.table = f /\ LowMemory.bytes = z
  BY <1>6
<1>14. \A v \in Outside : ~Backed(LowMemory, v)
  BY <1>8, <1>13 DEF Backed
<1>15. MemOK(LowMemory)
  <2>1. WindowOK(LowMemory)
    BY <1>9, <1>13 DEF WindowOK, RW
  <2>2. TableOK(LowMemory)
    BY <1>14 DEF TableOK
  <2>3. Low \subseteq LowMemory.alloc.held
    BY <1>2, <1>13 DEF Plain, Low
  <2> QED
    BY <1>2, <1>12, <1>13, <2>1, <2>2, <2>3 DEF MemOK
<1> QED
  BY <1>2, <1>11, <1>13, <1>14, <1>15

(* The pages below `through' are set aside before anything else is placed. *)
LEMMA ReservedOK ==
    ASSUME NEW through \in Nat, through <= PageCount
    PROVE  LET m == Reserved(LowMemory, through)
           IN  /\ MemOK(m)
               /\ \A v \in Outside : ~Backed(m, v)
               /\ \A p \in Page : m.bytes[p] = Zeros
               /\ \E c \in Nat : /\ Plain(m.alloc, c) /\ LowPages <= c /\ through <= c
                                 /\ c = LowPages \/ c = through
<1> DEFINE m == Reserved(LowMemory, through)
           a == ReservedThrough(LowMemory.alloc, through)
<1>1. PageCount \in Nat /\ LowPages \in Nat /\ LowPages <= PageCount
  BY SMT, ConstantFacts
<1>2. m = [LowMemory EXCEPT !.alloc = a]
  BY SMT, <1>1 DEF Reserved
<1>3. LowMemory \in MemoryType /\ LowMemory.alloc \in AllocType /\ AllocOK(LowMemory.alloc) /\ Plain(LowMemory.alloc, LowPages)
  BY LowMemoryOK, MemoryFields DEF MemOK
<1>4. PICK c \in Nat : /\ AllocOK(a) /\ a \in AllocType /\ Plain(a, c) /\ LowPages <= c /\ through <= c
                       /\ c = LowPages \/ c = through
  <2>1. LowMemory.alloc.next = LowPages
    BY <1>3 DEF Plain
  <2>2. CASE LowPages >= through
    <3>1. a = LowMemory.alloc
      BY <2>1, <2>2 DEF ReservedThrough
    <3> QED
      BY SMT, <1>1, <1>3, <2>2, <3>1
  <2>3. CASE ~(LowPages >= through)
    <3>1. a = [next |-> through, runs |-> << >>, held |-> 0 .. through - 1]
      BY <2>1, <2>3 DEF ReservedThrough
    <3>2. AllocOK(a) /\ a \in AllocType /\ Plain(a, through)
      BY <3>1, PlainAlloc
    <3> QED
      BY SMT, <1>1, <2>3, <3>2
  <2> QED
    BY <2>2, <2>3
<1> HIDE DEF a, m
<1>5. /\ m \in MemoryType /\ m.alloc = a /\ m.table = LowMemory.table /\ m.bytes = LowMemory.bytes
  BY <1>2, <1>3, <1>4, AllocUpdate
<1>6. \A v \in Outside : ~Backed(m, v)
  BY <1>5, LowMemoryOK DEF Backed
<1>7. \A p \in Page : m.bytes[p] = Zeros
  BY <1>5, LowMemoryOK
<1>8. MemOK(m)
  <2>1. WindowOK(m)
    BY <1>5, LowMemoryOK DEF MemOK, WindowOK
  <2>2. TableOK(m)
    BY <1>6 DEF TableOK
  <2>3. Low \subseteq m.alloc.held
    <3>1. m.alloc.held = 0 .. c - 1
      BY <1>4, <1>5 DEF Plain
    <3> QED
      BY SMT, <1>1, <1>4, <3>1 DEF Low
  <2> QED
    BY <1>4, <1>5, <2>1, <2>2, <2>3 DEF MemOK
<1> QED
  BY <1>4, <1>5, <1>6, <1>7, <1>8 DEF m

(* map_xbe.                                                                *)
LEMMA MapXbeOK ==
    ASSUME NEW m, MemOK(m), NEW c \in Nat, Plain(m.alloc, c), LowPages <= c, c + 1 <= PageCount,
           \A v \in Outside : ~Backed(m, v), NEW img \in Values
    PROVE  LET k == MapXbe(m, img)
           IN  /\ MemOK(k) /\ Plain(k.alloc, c + 1) /\ c \in High
               /\ Backed(k, ImageBase) /\ k.table[ImageBase].page = c
               /\ \A v \in User : ~Backed(k, v)
               /\ k.bytes[c] = img
               /\ \A p \in Page : p # c => k.bytes[p] = m.bytes[p]
<1> DEFINE x == [w \in {ImageBase} |-> img]
           k == MapXbe(m, img)
           t == MapAnonymous(m, ImageBase, 1, RW)
           u == Written(t, ImageBase, 1, x)
<1>1. ImageBase \in Nat /\ ImageBase \in Outside /\ ImageBase \in VirtualPage /\ ImageBase \notin User
  BY SMT, ConstantFacts, AddressFacts DEF Outside, User
<1>2. c \in High /\ c \in Page
  BY SMT, ConstantFacts DEF High, Page
<1>3. \A w : w \in Span(ImageBase, 1) <=> w = ImageBase
  BY SMT, <1>1 DEF Span
<1>4. RW \in SUBSET RWX /\ RWX \in SUBSET RWX /\ RW \subseteq RW /\ RW \subseteq RWX
  BY DEF RW, RWX
<1>5. /\ CanAllocate(m.alloc, 1) /\ Placed(m.alloc, 1) = c
      /\ Plain(Taken(m.alloc, 1), c + 1)
  BY SMT, PlainTakes
<1>6. CanMap(m, ImageBase, 1)
  <2>1. DOMAIN m.table = VirtualPage
    BY MemoryFields DEF MemOK
  <2> QED
    BY <1>1, <1>3, <1>5, <2>1 DEF CanMap, Free, Backed
<1>7. /\ Evolves(m, t)
      /\ t.bytes = m.bytes /\ t.alloc = Taken(m.alloc, 1)
      /\ \A w \in Span(ImageBase, 1) : t.table[w] = [page |-> c + (w - ImageBase), perms |-> RW]
      /\ \A w \in VirtualPage : w \notin Span(ImageBase, 1) => t.table[w] = m.table[w]
  BY SMT, <1>1, <1>4, <1>5, <1>6, MapsFree
<1> HIDE DEF t
<1>8. MemOK(t) /\ t.table[ImageBase].page = c /\ Backed(t, ImageBase)
  <2>1. MemOK(t)
    BY <1>7 DEF Evolves
  <2>2. t.table[ImageBase] = [page |-> c, perms |-> RW]
    <3>1. t.table[ImageBase] = [page |-> c + (ImageBase - ImageBase), perms |-> RW]
      BY <1>3, <1>7
    <3>2. c + (ImageBase - ImageBase) = c
      BY SMT, <1>1
    <3> QED
      BY <3>1, <3>2
  <2> QED
    BY SMT, <1>1, <1>2, <2>1, <2>2, BackedPage
<1>9. \A v \in User : ~Backed(t, v)
  <2>1. \A v \in User : v \in Outside /\ v \in VirtualPage /\ v \notin Span(ImageBase, 1)
    BY <1>1, <1>3, AddressFacts DEF Outside
  <2> QED
    BY <1>7, <2>1 DEF Backed
<1>10. Backing(t, ImageBase, 1) = {c}
  BY SMT, <1>3, <1>8 DEF Backing
<1>11. x[ImageBase] = img
  OBVIOUS
<1> HIDE DEF x
<1>12. /\ MemOK(u) /\ u.alloc = t.alloc /\ u.table = t.table
       /\ \A p \in Page : p \notin {c} => Same(t, u, p)
       /\ \A p \in {c} : \E w \in Span(ImageBase, 1) : t.table[w].page = p /\ u.bytes[p] = x[w]
  <2>1. \A w \in Span(ImageBase, 1) : w \in VirtualPage /\ Backed(t, w) /\ x[w] \in Values
    BY <1>1, <1>3, <1>8, <1>11
  <2> QED
    BY SMT, <1>1, <1>8, <1>10, <2>1, WrittenPages
<1>13. k = Protected(u, ImageBase, 1, RWX)
  BY DEF MapXbe, t, x
<1> HIDE DEF u, k
<1>14. u.bytes[c] = img
  BY <1>3, <1>11, <1>12
<1>15. Backed(u, ImageBase) /\ \A v \in User : ~Backed(u, v)
  BY <1>8, <1>9, <1>12 DEF Backed
<1>16. /\ Evolves(u, k) /\ k.alloc = u.alloc /\ k.bytes = u.bytes
       /\ \A w \in VirtualPage : k.table[w].page = u.table[w].page
  BY <1>1, <1>4, <1>12, <1>13, <1>15, ProtectedPage
<1>17. MemOK(k) /\ Backed(k, ImageBase) /\ \A v \in User : ~Backed(k, v)
  <2>1. MemOK(k)
    BY <1>16 DEF Evolves
  <2>2. \A w \in VirtualPage : Backed(k, w) <=> Backed(u, w)
    BY <1>12, <1>16, <2>1, BackedPage
  <2> QED
    BY <1>1, <1>15, <2>1, <2>2, AddressFacts DEF Outside
<1>18. k.table[ImageBase].page = c
  BY <1>1, <1>8, <1>12, <1>16
<1>19. \A p \in Page : p # c => k.bytes[p] = m.bytes[p]
  BY <1>7, <1>12, <1>16 DEF Same
<1>20. Plain(k.alloc, c + 1) /\ k.bytes[c] = img
  BY <1>5, <1>7, <1>12, <1>14, <1>16
<1> QED
  BY <1>2, <1>17, <1>18, <1>19, <1>20 DEF k

(* The kernel's image.                                                     *)
LEMMA MapKernelImageOK ==
    ASSUME NEW m, MemOK(m)
    PROVE  LET k == MapKernelImage(m)
           IN  /\ MemOK(k) /\ k.alloc = m.alloc
               /\ \A v \in Outside : k.table[v] = m.table[v]
               /\ \A p \in Page : k.bytes[p] = IF p = LowPages - 1 THEN Zeros ELSE m.bytes[p]
<1> DEFINE l == LowPages - 1
           v == Window + l
           x == [w \in {v} |-> Zeros]
           rx == {"r", "x"}
           k == MapKernelImage(m)
           u == Written(m, v, 1, x)
           f == [w \in VirtualPage |-> IF w \in Span(v, 1) THEN [u.table[w] EXCEPT !.perms = rx] ELSE u.table[w]]
<1>1. l \in Nat /\ l \in Page /\ Window \in Nat /\ v \in Nat
  BY SMT, ConstantFacts DEF Page
<1>2. Window + LowPages - 1 = v
  BY ConstantFacts
<1>3. k = Protected(u, v, 1, rx)
  BY <1>2 DEF MapKernelImage
<1>4. x[v] = Zeros
  OBVIOUS
<1> HIDE DEF l, x, v
<1>5. v \in VirtualPage /\ v \notin Outside /\ m.table[v].page = l
  BY <1>1, AddressFacts DEF v, MemOK, WindowOK
<1>6. \A w : w \in Span(v, 1) <=> w = v
  BY SMT, <1>1, SpanIn
<1>7. Backing(m, v, 1) = {l}
  BY <1>5, <1>6 DEF Backing
<1>8. /\ MemOK(u) /\ u.alloc = m.alloc /\ u.table = m.table
      /\ \A p \in Page : p \notin {l} => Same(m, u, p)
      /\ \A p \in {l} : \E w \in Span(v, 1) : m.table[w].page = p /\ u.bytes[p] = x[w]
  <2>1. \A w \in Span(v, 1) : w \in VirtualPage /\ Backed(m, w) /\ x[w] \in Values
    BY <1>4, <1>5, <1>6, BackedPage, ConstantFacts
  <2> QED
    BY SMT, <1>1, <1>7, <2>1, WrittenPages
<1>9. k = [u EXCEPT !.table = f]
  BY <1>3 DEF Protected
<1> HIDE DEF u, k, rx
<1>10. rx \in SUBSET RWX /\ "r" \in rx
  BY DEF rx, RWX
<1>11. ASSUME NEW w \in VirtualPage
       PROVE  /\ f[w] \in Descriptor /\ f[w].page = m.table[w].page
              /\ w = v => f[w].perms = rx
              /\ w # v => f[w] = m.table[w]
  <2>1. u.table[w] \in Descriptor
    BY <1>8, MemoryFields DEF MemOK
  <2> QED
    BY <1>6, <1>8, <1>10, <2>1 DEF Descriptor
<1>12. f \in [VirtualPage -> Descriptor]
  BY <1>11
<1> HIDE DEF f
<1>13. k \in MemoryType /\ k.alloc = u.alloc /\ k.table = f /\ k.bytes = u.bytes
  BY <1>8, <1>9, <1>12, TableUpdate DEF MemOK
<1>14. \A w \in Outside : k.table[w] = m.table[w]
  BY <1>5, <1>11, <1>13, AddressFacts
<1>15. MemOK(k)
  <2>1. ASSUME NEW p \in Page
        PROVE  /\ k.table[Window + p].page = p /\ "r" \in k.table[Window + p].perms
               /\ p # l => "w" \in k.table[Window + p].perms
    <3>1. Window + p \in VirtualPage /\ (Window + p = v <=> p = l)
      BY SMT, <1>1, AddressFacts DEF v
    <3>2. CASE p = l
      BY <1>10, <1>11, <1>13, <3>1, <3>2 DEF MemOK, WindowOK
    <3>3. CASE p # l
      BY <1>11, <1>13, <3>1, <3>3 DEF MemOK, WindowOK, l
    <3> QED
      BY <3>2, <3>3
  <2>2. WindowOK(k)
    BY <2>1 DEF WindowOK, l
  <2>3. TableOK(k)
    BY SMT, <1>8, <1>13, <1>14 DEF MemOK, TableOK, Backed
  <2> QED
    BY <1>8, <1>13, <2>2, <2>3 DEF MemOK
<1>16. \A p \in Page : k.bytes[p] = IF p = l THEN Zeros ELSE m.bytes[p]
  BY <1>4, <1>6, <1>8, <1>13 DEF Same
<1> QED
  BY <1>8, <1>13, <1>14, <1>15, <1>16 DEF k, l

(* A machine as load_xbe or a soft reboot leaves it: the image is at page  *)
(* c, above the pages that were set aside, and what is not handed out is   *)
(* zeroed.                                                                 *)
Fresh(m, c, img) ==
    /\ MemOK(m) /\ c \in High
    /\ \A p \in Page : p <= c => p \in m.alloc.held
    /\ Backed(m, ImageBase) /\ m.table[ImageBase].page = c /\ m.bytes[c] = img
    /\ \A v \in User : Backed(m, v) => m.table[v].page > c
    /\ \A p \in Page : p \notin m.alloc.held => m.bytes[p] = Zeros

LEMMA LoadOK ==
    ASSUME NEW img \in Images, NEW through \in Nat, CanLoad(through)
    PROVE  \E c \in Nat : through <= c /\ Fresh(Load(img, through), c, img)
<1> DEFINE r == Reserved(LowMemory, through)
           x == MapXbe(r, img)
           i == MapKernelImage(x)
           k == KernelBlock(i, BootPages)
<1>1. /\ PageCount \in Nat /\ LowPages \in Nat \ {0} /\ BootPages \in Nat \ {0}
      /\ LowPages + 1 + BootPages <= PageCount /\ through + 1 + BootPages <= PageCount
      /\ through <= PageCount /\ img \in Values
  BY SMT, ConstantFacts DEF CanLoad
<1>2. Load(img, through) = k
  BY DEF Load
<1>3. /\ MemOK(r)
      /\ \A v \in Outside : ~Backed(r, v)
      /\ \A p \in Page : r.bytes[p] = Zeros
      /\ \E c \in Nat : /\ Plain(r.alloc, c) /\ LowPages <= c /\ through <= c
                        /\ c = LowPages \/ c = through
  BY <1>1, ReservedOK
<1>4. PICK c \in Nat : /\ Plain(r.alloc, c) /\ LowPages <= c /\ through <= c
                       /\ c = LowPages \/ c = through
  BY <1>3
<1>5. c + 1 <= PageCount /\ (c + 1) + BootPages <= PageCount /\ c + 1 \in Nat
  BY SMT, <1>1, <1>4
<1> HIDE DEF r
<1>6. /\ MemOK(x) /\ Plain(x.alloc, c + 1) /\ c \in High
      /\ Backed(x, ImageBase) /\ x.table[ImageBase].page = c
      /\ \A v \in User : ~Backed(x, v)
      /\ x.bytes[c] = img
      /\ \A p \in Page : p # c => x.bytes[p] = r.bytes[p]
  BY SMT, <1>1, <1>3, <1>4, <1>5, MapXbeOK
<1> HIDE DEF x
<1>7. /\ MemOK(i) /\ i.alloc = x.alloc
      /\ \A v \in Outside : i.table[v] = x.table[v]
      /\ \A p \in Page : i.bytes[p] = IF p = LowPages - 1 THEN Zeros ELSE x.bytes[p]
  BY <1>6, MapKernelImageOK
<1> HIDE DEF i
<1>8. /\ CanAllocate(i.alloc, BootPages)
      /\ Taken(i.alloc, BootPages) = [next |-> (c + 1) + BootPages, runs |-> << >>, held |-> 0 .. ((c + 1) + BootPages) - 1]
  BY <1>1, <1>5, <1>6, <1>7, PlainTakes
<1>9. /\ Evolves(i, k) /\ k.alloc = Taken(i.alloc, BootPages) /\ k.table = i.table
  BY <1>1, <1>7, <1>8, BlockEvolves
<1> HIDE DEF k
<1>10. i.alloc.held = 0 .. (c + 1) - 1
  BY <1>6, <1>7 DEF Plain
<1>11. c \in Page /\ c # LowPages - 1 /\ c \in i.alloc.held
  BY SMT, <1>1, <1>4, <1>5, <1>10 DEF Page
<1>12. k.bytes[c] = img
  <2>1. i.bytes[c] = img
    BY <1>6, <1>7, <1>11
  <2>2. Same(i, k, c)
    BY <1>9, <1>11 DEF Evolves, Scrubbed
  <2> QED
    BY <2>1, <2>2 DEF Same
<1>13. \A p \in Page : p <= c => p \in k.alloc.held
  <2>1. k.alloc.held = 0 .. ((c + 1) + BootPages) - 1
    BY SMT, <1>8, <1>9
  <2> QED
    BY SMT, <1>1, <2>1 DEF Page
<1>14. \A p \in Page : p # c => k.bytes[p] = Zeros
  <2>1. \A p \in Page : p # c => i.bytes[p] = Zeros
    BY <1>3, <1>6, <1>7
  <2> QED
    BY <1>9, <2>1 DEF Evolves, Same, Scrubbed
<1>15. MemOK(k) /\ Backed(k, ImageBase) /\ k.table[ImageBase].page = c /\ \A v \in User : ~Backed(k, v)
  <2>1. ImageBase \in Outside /\ User \subseteq Outside
    BY DEF Outside
  <2> QED
    BY <1>6, <1>7, <1>9, <2>1 DEF Evolves, Backed
<1>16. \A p \in Page : p \notin k.alloc.held => k.bytes[p] = Zeros
  BY <1>1, <1>4, <1>11, <1>13, <1>14
<1>17. Fresh(k, c, img)
  BY <1>6, <1>12, <1>13, <1>15, <1>16 DEF Fresh
<1> QED
  BY <1>2, <1>4, <1>17

-----------------------------------------------------------------------------
(* The snapshots: when every region can be read, all of them, in order.    *)
Region == [base : Nat, n : Nat \ {0}]

PushRun(f) ==
    f = [i \in 0 .. Len(persisted) |->
            IF i = 0 THEN << >>
            ELSE IF Accessible(Now, persisted[i].base, persisted[i].n, "r")
                 THEN Append(f[i - 1], persisted[i]) ELSE f[i - 1]]

LEMMA SeqFacts ==
    ASSUME NEW s \in Seq(Region)
    PROVE  /\ Len(s) \in Nat /\ DOMAIN s = 1 .. Len(s) /\ \A i \in 1 .. Len(s) : s[i] \in Region
           /\ SubSeq(s, 1, 0) = << >> /\ SubSeq(s, 1, Len(s)) = s
  BY SMT

LEMMA PushOne ==
    ASSUME NEW s \in Seq(Region), NEW i \in 1 .. Len(s)
    PROVE  Append(SubSeq(s, 1, i - 1), s[i]) = SubSeq(s, 1, i)
  BY SMT

LEMMA AllReadable ==
    ASSUME persisted \in Seq(Region),
           \A i \in DOMAIN persisted : Accessible(Now, persisted[i].base, persisted[i].n, "r")
    PROVE  Readable = persisted
<1> DEFINE L == Len(persisted)
           h == [i \in 0 .. L |-> SubSeq(persisted, 1, i)]
           C == CHOOSE f : PushRun(f)
<1>1. L \in Nat /\ DOMAIN persisted = 1 .. L
  BY SMT
<1>2. SubSeq(persisted, 1, 0) = << >>
  BY SeqFacts
<1>3. PushRun(h)
  <2>1. ASSUME NEW i \in 0 .. L
        PROVE  h[i] = IF i = 0 THEN << >>
                      ELSE IF Accessible(Now, persisted[i].base, persisted[i].n, "r")
                           THEN Append(h[i - 1], persisted[i]) ELSE h[i - 1]
    <3>1. CASE i = 0
      BY <1>2, <3>1
    <3>2. CASE i # 0
      <4>1. i \in 1 .. L /\ i - 1 \in 0 .. L
        BY SMT, <1>1, <3>2
      <4>2. h[i] = SubSeq(persisted, 1, i) /\ h[i - 1] = SubSeq(persisted, 1, i - 1)
        BY <4>1
      <4>3. Append(SubSeq(persisted, 1, i - 1), persisted[i]) = SubSeq(persisted, 1, i)
        BY <4>1, PushOne
      <4> HIDE DEF h
      <4>4. Accessible(Now, persisted[i].base, persisted[i].n, "r")
        BY <1>1, <4>1
      <4> QED
        BY <3>2, <4>2, <4>3, <4>4
    <3> QED
      BY <3>1, <3>2
  <2> QED
    BY <2>1 DEF PushRun
<1>4. PushRun(C)
  BY <1>3
<1>5. Readable = C[L]
  BY DEF Readable, PushRun
<1> HIDE DEF C, h
<1> DEFINE S == {i \in 0 .. L : C[i] = SubSeq(persisted, 1, i)}
<1>6. 0 \in S
  <2>1. 0 \in 0 .. L
    BY SMT, <1>1
  <2>2. C[0] = << >>
    BY <1>4, <2>1 DEF PushRun
  <2> QED
    BY <1>2, <2>1, <2>2
<1>7. ASSUME NEW j \in 0 .. L - 1, j \in S PROVE j + 1 \in S
  <2> DEFINE i == j + 1
  <2>1. i \in 0 .. L /\ i \in 1 .. L /\ i # 0 /\ i - 1 = j
    BY SMT, <1>1, <1>7
  <2>2. Accessible(Now, persisted[i].base, persisted[i].n, "r")
    BY <1>1, <2>1
  <2> HIDE DEF i
  <2>3. C[i] = Append(C[i - 1], persisted[i])
    BY <1>4, <2>1, <2>2 DEF PushRun
  <2>4. C[j] = SubSeq(persisted, 1, j)
    BY <1>7
  <2>5. Append(SubSeq(persisted, 1, i - 1), persisted[i]) = SubSeq(persisted, 1, i)
    BY <2>1, PushOne
  <2>6. C[i] = SubSeq(persisted, 1, i)
    BY <2>1, <2>3, <2>4, <2>5
  <2> QED
    BY <2>1, <2>6 DEF i
<1> HIDE DEF S
<1>8. L \in S
  <2>1. \A i \in 0 .. L : i \in S
    BY <1>1, <1>6, <1>7, UpTo
  <2> QED
    BY SMT, <1>1, <2>1
<1>9. C[L] = SubSeq(persisted, 1, L)
  BY <1>8 DEF S
<1> QED
  BY <1>5, <1>9, SeqFacts

-----------------------------------------------------------------------------
(* A snapshot of bytes old, of a window region or of user pages.           *)
SnapshotOK(s, old) ==
    /\ s.base \in Nat /\ s.n \in Nat \ {0}
    /\ \A w \in Span(s.base, s.n) : s.data[w] \in Values
    /\ \/ /\ InWindow(s.base) /\ Span(s.base - Window, s.n) \subseteq High
          /\ \A w \in Span(s.base, s.n) : s.data[w] = old[w - Window]
       \/ ~InWindow(s.base) /\ Span(s.base, s.n) \subseteq User

(* Where the pages end that the reboot keeps.                              *)
LEMMA KeepThroughOK ==
    ASSUME NEW snaps, NEW old, \A i \in DOMAIN snaps : SnapshotOK(snaps[i], old)
    PROVE  /\ KeepThrough(snaps) \in Nat
           /\ \A i \in DOMAIN snaps : InWindow(snaps[i].base) =>
                 /\ snaps[i].base - Window \in Nat
                 /\ (snaps[i].base - Window) + snaps[i].n <= KeepThrough(snaps)
<1> DEFINE End(i) == snaps[i].base - Window + snaps[i].n
           I == {j \in DOMAIN snaps : InWindow(snaps[j].base)}
           T == {0} \cup {End(i) : i \in I}
<1>1. PageCount \in Nat /\ Window \in Nat
  BY ConstantFacts
<1>2. ASSUME NEW i \in I
      PROVE  /\ snaps[i].base - Window \in Nat /\ snaps[i].n \in Nat /\ End(i) \in 0 .. PageCount
             /\ End(i) = (snaps[i].base - Window) + snaps[i].n
  <2> DEFINE p == snaps[i].base - Window
             n == snaps[i].n
             q == p + n - 1
  <2>1. p \in Page /\ p \in Nat /\ n \in Nat \ {0} /\ Span(p, n) \subseteq High
    BY <1>2, AddressFacts DEF SnapshotOK
  <2>2. q \in Span(p, n)
    <3> HIDE DEF p, n
    <3>1. q \in Nat /\ p <= q /\ q < p + n
      BY SMT, <2>1
    <3> QED
      BY <2>1, <3>1, SpanIn
  <2>3. q \in Page
    BY <2>1, <2>2, AddressFacts
  <2>4. End(i) = p + n
    OBVIOUS
  <2> HIDE DEF p, n
  <2>5. p + n \in 0 .. PageCount
    BY SMT, <1>1, <2>1, <2>3 DEF Page
  <2> QED
    BY <2>1, <2>4, <2>5 DEF p, n
<1> HIDE DEF End
<1>3. T \in SUBSET (0 .. PageCount) /\ T # {}
  BY SMT, <1>1, <1>2
<1>4. Highest(T) \in T /\ \A t \in T : t <= Highest(T)
  BY <1>1, <1>3, MaxOf
<1>5. KeepThrough(snaps) = Highest(T)
  BY DEF KeepThrough, End
<1>6. Highest(T) \in Nat
  BY SMT, <1>1, <1>3, <1>4
<1>7. ASSUME NEW i \in DOMAIN snaps, InWindow(snaps[i].base)
      PROVE  snaps[i].base - Window \in Nat /\ (snaps[i].base - Window) + snaps[i].n <= Highest(T)
  <2>1. i \in I /\ End(i) \in T
    BY <1>7
  <2> QED
    BY <1>2, <1>4, <2>1
<1> QED
  BY <1>5, <1>6, <1>7

(* One region put back: a window region in place, another behind pages     *)
(* that were free, and so above the image.                                 *)
LEMMA RestoreOK ==
    ASSUME NEW m, NEW c \in Nat, NEW img, Fresh(m, c, img), NEW old, NEW s, SnapshotOK(s, old),
           InWindow(s.base) => (s.base - Window) + s.n <= c
    PROVE  LET k == Restore(m, s)
           IN  /\ Fresh(k, c, img)
               /\ \A p \in Page : p <= c => k.bytes[p] = old[p] \/ k.bytes[p] = m.bytes[p]
               /\ InWindow(s.base) => \A p \in Span(s.base - Window, s.n) : k.bytes[p] = old[p]
<1> DEFINE k == Restore(m, s)
           v == s.base
           n == s.n
           x == s.data
           t == MapAnonymous(m, v, n, RW)
<1>1. MemOK(m) /\ v \in Nat /\ n \in Nat \ {0} /\ \A w \in Span(v, n) : x[w] \in Values
  BY DEF Fresh, SnapshotOK
<1>2. CASE InWindow(v)
  <2> DEFINE p == v - Window
  <2>1. p \in Page /\ v = Window + p /\ Span(p, n) \subseteq High /\ p + n <= c /\ p \in Nat
    BY <1>2, AddressFacts DEF SnapshotOK
  <2>2. Span(p, n) \subseteq Page
    BY <2>1, AddressFacts
  <2>3. \A w \in Span(v, n) : x[w] = old[w - Window]
    BY <1>2, AddressFacts DEF SnapshotOK
  <2> HIDE DEF p
  <2>4. /\ Backing(m, v, n) = Span(p, n)
        /\ \A w \in Span(v, n) :
              /\ w \in VirtualPage /\ InWindow(w) /\ Backed(m, w)
              /\ m.table[w].page = w - Window /\ w - Window \in Span(p, n)
    BY SMT, <1>1, <2>1, <2>2, WindowSpan
  <2>5. Accessible(m, v, n, "w")
    <3>1. ASSUME NEW w \in Span(v, n) PROVE w \in DOMAIN m.table /\ "w" \in m.table[w].perms
      <4>1. w - Window \in High /\ w - Window \in Page /\ w = Window + (w - Window)
        BY <2>1, <2>2, <2>4, AddressFacts
      <4>2. w - Window # LowPages - 1
        BY SMT, <4>1, ConstantFacts DEF High
      <4>3. DOMAIN m.table = VirtualPage
        BY <1>1, MemoryFields DEF MemOK
      <4> QED
        BY <1>1, <2>4, <4>1, <4>2, <4>3 DEF MemOK, WindowOK
    <3> QED
      BY <3>1 DEF Accessible
  <2>6. k = Written(m, v, n, x)
    BY <1>2, <2>5 DEF Restore
  <2> HIDE DEF k, x, v, n
  <2>7. /\ MemOK(k) /\ k.alloc = m.alloc /\ k.table = m.table
        /\ \A q \in Page : q \notin Span(p, n) => Same(m, k, q)
        /\ \A q \in Span(p, n) : \E w \in Span(v, n) : m.table[w].page = q /\ k.bytes[q] = x[w]
    BY SMT, <1>1, <2>4, <2>6, WrittenPages
  <2>8. \A q \in Span(p, n) : k.bytes[q] = old[q]
    BY SMT, <2>3, <2>4, <2>7
  <2>9. \A q \in Span(p, n) : q < c
    <3>1. \A q \in Span(p, n) : q \in Nat /\ q < p + n
      BY <1>1, <2>1, SpanIn
    <3> QED
      BY SMT, <1>1, <2>1, <3>1
  <2>10. \A q \in Page : q \notin Span(p, n) => k.bytes[q] = m.bytes[q]
    BY <2>7 DEF Same
  <2>11. Fresh(k, c, img)
    <3>1. c \in Page /\ c \notin Span(p, n)
      BY SMT, <2>9, AddressFacts DEF Fresh
    <3>2. k.bytes[c] = img
      BY <2>10, <3>1 DEF Fresh
    <3>3. ASSUME NEW q \in Page, q \notin k.alloc.held PROVE k.bytes[q] = Zeros
      <4>1. q \notin Span(p, n)
        BY SMT, <2>7, <2>9, <3>3, AddressFacts DEF Fresh
      <4> QED
        BY <2>7, <2>10, <3>3, <4>1 DEF Fresh
    <3> QED
      BY <2>7, <3>2, <3>3 DEF Fresh, Backed
  <2> QED
    BY <2>8, <2>10, <2>11 DEF k, p, v, n
<1>3. CASE ~InWindow(v) /\ ~CanMap(m, v, n)
  <2>1. k = t
    BY <1>3 DEF Restore
  <2>2. /\ Evolves(m, t) /\ t.table = m.table /\ t.alloc.held = m.alloc.held /\ t.bytes = m.bytes
    BY SMT, <1>1, <1>3, MapsNothing
  <2> HIDE DEF k, t
  <2>3. Fresh(k, c, img)
    BY <2>1, <2>2 DEF Fresh, Evolves, Backed
  <2> QED
    BY <1>3, <2>1, <2>2, <2>3 DEF k, v
<1>4. CASE ~InWindow(v) /\ CanMap(m, v, n)
  <2> DEFINE p == Placed(m.alloc, n)
             B == Backing(t, v, n)
  <2>0. RW \in SUBSET RWX /\ RW \subseteq RW /\ "w" \in RW
    BY DEF RW, RWX
  <2>1. /\ Evolves(m, t)
        /\ t.bytes = m.bytes
        /\ Span(v, n) \subseteq Outside
        /\ \A w \in Span(v, n) : t.table[w] = [page |-> p + (w - v), perms |-> RW]
        /\ \A w \in VirtualPage : w \notin Span(v, n) => t.table[w] = m.table[w]
    BY SMT, <1>1, <1>4, <2>0, MapsFree
  <2>2. MemOK(t) /\ Span(v, n) \subseteq User
    BY <1>4, <2>1 DEF Evolves, SnapshotOK
  <2>3. \A w \in Span(v, n) : w \in VirtualPage /\ "w" \in t.table[w].perms /\ Backed(t, w)
    <3>1. \A w \in Span(v, n) : w \in VirtualPage
      BY <2>1, AddressFacts
    <3>2. ASSUME NEW w \in Span(v, n) PROVE "w" \in t.table[w].perms
      <4> DEFINE q == p + (w - v)
      <4>1. t.table[w] = [page |-> q, perms |-> RW]
        BY <2>1
      <4> HIDE DEF q, t
      <4> QED
        BY SMT, <2>0, <4>1
    <3> QED
      BY <2>2, <3>1, <3>2, BackedPage
  <2> HIDE DEF p
  <2>4. Accessible(t, v, n, "w")
    <3>1. DOMAIN t.table = VirtualPage
      BY <2>2, MemoryFields DEF MemOK
    <3> QED
      BY <2>3, <3>1 DEF Accessible
  <2>5. k = Written(t, v, n, x)
    BY <1>4, <2>4 DEF Restore
  <2> HIDE DEF k, x, v, n, t
  <2>6. /\ MemOK(k) /\ k.alloc = t.alloc /\ k.table = t.table
        /\ B \subseteq Page
        /\ \A q \in Page : q \notin B => Same(t, k, q)
    <3>1. \A w \in Span(v, n) : w \in VirtualPage /\ Backed(t, w) /\ x[w] \in Values
      BY <1>1, <2>3
    <3>2. Wrote(t, k, v, n, x)
      BY <1>1, <2>2, <2>5, <3>1, WrittenWrote
    <3>3. B \subseteq Page
      BY <2>2, <3>1, BackedPage DEF Backing
    <3> QED
      BY <3>2, <3>3 DEF Wrote
  <2>7. \A w \in Span(v, n) : ~Backed(m, w)
    BY <1>4 DEF CanMap, Free, Backed
  <2>8. ASSUME NEW w \in Span(v, n)
        PROVE  t.table[w].page \in t.alloc.held /\ t.table[w].page \in Page /\ t.table[w].page > c
    <3>1. w \in Outside /\ Backed(t, w) /\ ~Backed(m, w)
      BY <2>1, <2>3, <2>7
    <3>2. t.table[w].page \in t.alloc.held \cap High /\ t.table[w].page \notin m.alloc.held
      BY <2>1, <2>2, <3>1 DEF Evolves, MemOK, TableOK
    <3>3. t.table[w].page \in Page /\ t.table[w].page \in Nat
      BY <3>2, AddressFacts
    <3> QED
      BY SMT, <3>2, <3>3 DEF Fresh
  <2>9. \A q \in B : q \in t.alloc.held /\ q > c
    BY <2>8 DEF Backing
  <2>10. \A q \in Page : q \notin B => k.bytes[q] = m.bytes[q]
    BY <2>1, <2>6 DEF Same
  <2>11. \A q \in Page : q <= c => k.bytes[q] = m.bytes[q]
    BY SMT, <2>9, <2>10, AddressFacts
  <2>12. Fresh(k, c, img)
    <3>1. \A q \in Page : q <= c => q \in k.alloc.held
      BY <2>1, <2>6 DEF Fresh, Evolves
    <3>2. Backed(k, ImageBase) /\ k.table[ImageBase].page = c
      BY <2>1, <2>6 DEF Fresh, Evolves, Backed, Outside
    <3>3. c \in Page /\ c <= c /\ c \in High
      BY SMT, AddressFacts DEF Fresh
    <3>4. k.bytes[c] = img
      BY <2>11, <3>3 DEF Fresh
    <3>5. ASSUME NEW u \in User, Backed(k, u) PROVE k.table[u].page > c
      <4>1. CASE u \in Span(v, n)
        BY <2>6, <2>8, <4>1
      <4>2. CASE u \notin Span(v, n)
        <5>1. k.table[u] = m.table[u]
          BY <2>1, <2>6, <4>2, AddressFacts DEF Outside
        <5> QED
          BY <3>5, <5>1 DEF Fresh, Backed
      <4> QED
        BY <4>1, <4>2
    <3>6. ASSUME NEW q \in Page, q \notin k.alloc.held PROVE k.bytes[q] = Zeros
      BY <2>1, <2>6, <2>9, <2>10, <3>6 DEF Fresh, Evolves
    <3> QED
      BY <2>6, <3>1, <3>2, <3>3, <3>4, <3>5, <3>6 DEF Fresh
  <2> QED
    BY <1>4, <2>11, <2>12 DEF k, v
<1> QED
  BY <1>2, <1>3, <1>4

(* The relaunch's loop is a function of the regions put back.              *)
RestoreRun(f, m, snaps, n) ==
    f = [i \in 0 .. n |-> IF i = 0 THEN m ELSE Restore(f[i - 1], snaps[i])]

LEMMA RestoreRuns ==
    ASSUME NEW m, NEW snaps, NEW n \in Nat
    PROVE  \E f : RestoreRun(f, m, snaps, n)
<1> DEFINE S == {k \in Nat : \E f : RestoreRun(f, m, snaps, k)}
<1>1. 0 \in S
  <2> DEFINE f == [i \in 0 .. 0 |-> m]
  <2>1. f = [i \in 0 .. 0 |-> IF i = 0 THEN m ELSE Restore(f[i - 1], snaps[i])]
    BY SMT
  <2>2. RestoreRun(f, m, snaps, 0)
    BY <2>1 DEF RestoreRun
  <2> QED
    BY <2>2
<1>2. ASSUME NEW j \in 0 .. n - 1, j \in S PROVE j + 1 \in S
  <2> DEFINE k == j + 1
  <2>1. j \in Nat /\ k \in Nat /\ k # 0 /\ k - 1 = j
    BY SMT, <1>2
  <2>2. PICK g : RestoreRun(g, m, snaps, j)
    BY <1>2
  <2> DEFINE h == [i \in 0 .. k |-> IF i < k THEN g[i] ELSE Restore(g[j], snaps[k])]
  <2> HIDE DEF k
  <2>3. ASSUME NEW i \in 0 .. k
        PROVE  h[i] = IF i = 0 THEN m ELSE Restore(h[i - 1], snaps[i])
    <3>1. CASE i = 0
      <4>1. h[i] = g[0] /\ 0 \in 0 .. j
        BY SMT, <2>1, <3>1
      <4> QED
        BY <2>2, <3>1, <4>1 DEF RestoreRun
    <3>2. CASE i # 0 /\ i < k
      <4>1. h[i] = g[i] /\ h[i - 1] = g[i - 1] /\ i \in 0 .. j
        BY SMT, <2>1, <3>2
      <4> QED
        BY <2>2, <3>2, <4>1 DEF RestoreRun
    <3>3. CASE i = k
      <4>1. h[i] = Restore(g[j], snaps[k]) /\ h[i - 1] = g[j]
        BY SMT, <2>1, <3>3
      <4> QED
        BY <2>1, <3>3, <4>1
    <3> QED
      BY SMT, <2>1, <3>1, <3>2, <3>3
  <2>4. RestoreRun(h, m, snaps, k)
    BY <2>3 DEF RestoreRun
  <2> HIDE DEF h
  <2>5. \E f : RestoreRun(f, m, snaps, k)
    BY <2>4
  <2> QED
    BY <2>1, <2>5 DEF k
<1> HIDE DEF S
<1>3. n \in S
  <2>1. \A i \in 0 .. n : i \in S
    BY <1>1, <1>2, UpTo
  <2> QED
    BY SMT, <2>1
<1> QED
  BY <1>3 DEF S

LEMMA RestoreUnfolds ==
    ASSUME NEW snaps, Len(snaps) \in Nat
    PROVE  \E f : /\ RestoreRun(f, Load(image, KeepThrough(snaps)), snaps, Len(snaps))
                  /\ Relaunched(snaps) = f[Len(snaps)]
<1> DEFINE m == Load(image, KeepThrough(snaps))
           C == CHOOSE f : RestoreRun(f, m, snaps, Len(snaps))
<1>1. RestoreRun(C, m, snaps, Len(snaps))
  BY RestoreRuns
<1>2. Relaunched(snaps) = C[Len(snaps)]
  BY DEF Relaunched, RestoreRun
<1> HIDE DEF C
<1> QED
  BY <1>1, <1>2

(* The soft reboot: the image is intact, and so is every region of the     *)
(* window, whatever the regions after it overwrote.                        *)
LEMMA RelaunchedOK ==
    ASSUME NEW snaps, NEW old, Len(snaps) \in Nat, DOMAIN snaps = 1 .. Len(snaps),
           \A i \in DOMAIN snaps : SnapshotOK(snaps[i], old),
           image \in Images, CanLoad(KeepThrough(snaps))
    PROVE  \E c \in Nat :
              /\ KeepThrough(snaps) <= c
              /\ Fresh(Relaunched(snaps), c, image)
              /\ \A i \in DOMAIN snaps : InWindow(snaps[i].base) =>
                    \A p \in Span(snaps[i].base - Window, snaps[i].n) :
                        p \in Page /\ p < c /\ Relaunched(snaps).bytes[p] = old[p]
<1> DEFINE L == Len(snaps)
           T == KeepThrough(snaps)
<1>1. /\ T \in Nat
      /\ \A i \in 1 .. L : InWindow(snaps[i].base) =>
            /\ snaps[i].base - Window \in Nat
            /\ (snaps[i].base - Window) + snaps[i].n <= T
  BY KeepThroughOK
<1>2. PICK c \in Nat : T <= c /\ Fresh(Load(image, T), c, image)
  BY <1>1, LoadOK
<1>3. PICK f : RestoreRun(f, Load(image, T), snaps, L) /\ Relaunched(snaps) = f[L]
  BY RestoreUnfolds
<1>4. \A i \in 1 .. L : SnapshotOK(snaps[i], old)
  OBVIOUS
<1>5. L \in Nat
  OBVIOUS
<1> HIDE DEF T, L
<1>6. f[0] = Load(image, T) /\ \A i \in 1 .. L : f[i] = Restore(f[i - 1], snaps[i])
  <2>1. f = [i \in 0 .. L |-> IF i = 0 THEN Load(image, T) ELSE Restore(f[i - 1], snaps[i])]
    BY <1>3 DEF RestoreRun
  <2>2. 0 \in 0 .. L
    BY SMT, <1>5
  <2>3. f[0] = Load(image, T)
    BY <2>1, <2>2
  <2>4. ASSUME NEW i \in 1 .. L PROVE f[i] = Restore(f[i - 1], snaps[i])
    <3>1. i \in 0 .. L /\ i # 0
      BY SMT, <1>5, <2>4
    <3> QED
      BY <2>1, <3>1
  <2> QED
    BY <2>3, <2>4
<1>7. ASSUME NEW i \in 1 .. L, InWindow(snaps[i].base), NEW p \in Span(snaps[i].base - Window, snaps[i].n)
      PROVE  p \in Page /\ p \in Nat /\ p < c
  <2>1. snaps[i].base - Window \in Nat /\ snaps[i].n \in Nat /\ Span(snaps[i].base - Window, snaps[i].n) \subseteq Page
    BY <1>1, <1>4, <1>7, AddressFacts DEF SnapshotOK
  <2> DEFINE b == snaps[i].base - Window
             n == snaps[i].n
  <2>2. b + n <= T
    BY <1>1, <1>7
  <2> HIDE DEF b, n
  <2>3. p \in Nat /\ p < b + n
    <3>1. b \in Nat /\ n \in Nat /\ p \in Span(b, n)
      BY <1>7, <2>1 DEF b, n
    <3> QED
      BY <3>1, SpanIn
  <2>4. b \in Nat /\ n \in Nat
    BY <2>1 DEF b, n
  <2>5. p < c
    BY SMT, <1>1, <1>2, <2>2, <2>3, <2>4
  <2> QED
    BY <1>7, <2>1, <2>3, <2>5
<1> DEFINE Kept(m, i) == InWindow(snaps[i].base) =>
                            \A p \in Span(snaps[i].base - Window, snaps[i].n) : m.bytes[p] = old[p]
           S == {k \in Nat : Fresh(f[k], c, image) /\ \A i \in 1 .. k : Kept(f[k], i)}
<1>8. 0 \in S
  BY SMT, <1>2, <1>6
<1>9. ASSUME NEW j \in 0 .. L - 1, j \in S PROVE j + 1 \in S
  <2> DEFINE k == j + 1
             s == snaps[k]
             m == f[j]
  <2>1. j \in Nat /\ k \in Nat /\ k \in 1 .. L /\ k - 1 = j /\ f[k] = Restore(m, s)
    <3>1. j \in Nat /\ k \in Nat /\ k \in 1 .. L /\ k - 1 = j
      BY SMT, <1>5, <1>9
    <3> QED
      BY <1>6, <3>1
  <2>2. Fresh(m, c, image) /\ \A i \in 1 .. j : Kept(m, i)
    BY <1>9
  <2>3. SnapshotOK(s, old) /\ (InWindow(s.base) => (s.base - Window) + s.n <= c)
    <3>1. SnapshotOK(s, old)
      BY <1>4, <2>1
    <3>2. ASSUME InWindow(s.base) PROVE (s.base - Window) + s.n <= c
      <4>1. (s.base - Window) \in Nat /\ (s.base - Window) + s.n <= T /\ s.n \in Nat
        BY <1>1, <2>1, <3>1, <3>2 DEF SnapshotOK
      <4> QED
        BY SMT, <1>1, <1>2, <4>1
    <3> QED
      BY <3>1, <3>2
  <2> HIDE DEF m, s, k
  <2>4. /\ Fresh(f[k], c, image)
        /\ \A p \in Page : p <= c => f[k].bytes[p] = old[p] \/ f[k].bytes[p] = m.bytes[p]
        /\ InWindow(s.base) => \A p \in Span(s.base - Window, s.n) : f[k].bytes[p] = old[p]
    <3> DEFINE r == Restore(m, s)
    <3>1. /\ Fresh(r, c, image)
          /\ \A p \in Page : p <= c => r.bytes[p] = old[p] \/ r.bytes[p] = m.bytes[p]
          /\ InWindow(s.base) => \A p \in Span(s.base - Window, s.n) : r.bytes[p] = old[p]
      BY SMT, <2>2, <2>3, RestoreOK
    <3>2. f[k] = r
      BY <2>1
    <3> HIDE DEF r
    <3> QED
      BY <3>1, <3>2
  <2>5. ASSUME NEW i \in 1 .. k PROVE Kept(f[k], i)
    <3>1. CASE i = k
      BY <2>4, <3>1 DEF s
    <3>2. CASE i # k
      <4>1. i \in 1 .. j /\ i \in 1 .. L
        BY SMT, <1>5, <2>1, <2>5, <3>2
      <4>2. ASSUME InWindow(snaps[i].base), NEW p \in Span(snaps[i].base - Window, snaps[i].n)
            PROVE  f[k].bytes[p] = old[p]
        <5>1. m.bytes[p] = old[p]
          BY <2>2, <4>1, <4>2
        <5>2. p \in Page /\ p <= c
          <6>1. p \in Page /\ p \in Nat /\ p < c
            BY <1>7, <4>1, <4>2
          <6> QED
            BY SMT, <6>1
        <5> QED
          BY <2>4, <5>1, <5>2
      <4> QED
        BY <4>2
    <3> QED
      BY <3>1, <3>2
  <2> HIDE DEF Kept
  <2>6. k \in S
    BY <2>1, <2>4, <2>5
  <2> QED
    BY <2>6 DEF k
<1> HIDE DEF S, Kept
<1>10. L \in S
  <2>1. \A i \in 0 .. L : i \in S
    BY <1>5, <1>8, <1>9, UpTo
  <2> QED
    BY SMT, <1>5, <2>1
<1>11. Fresh(f[L], c, image) /\ \A i \in 1 .. L : Kept(f[L], i)
  BY <1>10 DEF S
<1>12. ASSUME NEW i \in 1 .. L, InWindow(snaps[i].base), NEW p \in Span(snaps[i].base - Window, snaps[i].n)
       PROVE  p \in Page /\ p < c /\ Relaunched(snaps).bytes[p] = old[p]
  BY <1>3, <1>7, <1>11, <1>12 DEF Kept
<1> QED
  BY <1>2, <1>3, <1>11, <1>12 DEF T, L

-----------------------------------------------------------------------------
(* What the kernel services own, in memory m: the blocks of P, the pages R *)
(* that a relaunch restored and the regions Q persisted.                   *)
PagesOf(r) == Span(r.base - Window, r.n)

BlocksOK(m, P) ==
    /\ P \in RunTable
    /\ \A q \in DOMAIN P : P[q] # 0 /\ Span(q, P[q]) \subseteq m.alloc.held \cap High
    /\ \A p, q \in DOMAIN P : p # q => Span(p, P[p]) \cap Span(q, P[q]) = {}
    /\ \A v \in Outside : Backed(m, v) => \A q \in DOMAIN P : m.table[v].page \notin Span(q, P[q])

RestoredOK(m, P, R) ==
    /\ R \subseteq m.alloc.held \cap High
    /\ \A q \in DOMAIN P : R \cap Span(q, P[q]) = {}
    /\ \A v \in Outside : Backed(m, v) => m.table[v].page \notin R

(* A block that a region has pages of begins where the region does: the    *)
(* free that finds no region at its address takes no region's pages.       *)
WindowRegion(m, P, r) ==
    /\ InWindow(r.base) /\ PagesOf(r) \subseteq m.alloc.held \cap High
    /\ \A q \in DOMAIN P : PagesOf(r) \cap Span(q, P[q]) # {} => q = r.base - Window

UserRegion(m, r) ==
    Span(r.base, r.n) \subseteq User /\ \A v \in Span(r.base, r.n) : Backed(m, v)

RegionsOK(m, P, Q) ==
    /\ Q \in Seq(Region)
    /\ \A i \in DOMAIN Q : WindowRegion(m, P, Q[i]) \/ UserRegion(m, Q[i])

ServicesOK(m, P, R, Q) == BlocksOK(m, P) /\ RestoredOK(m, P, R) /\ RegionsOK(m, P, Q)

(* The part of Evolves that is about owners.                               *)
Grows(m, k) ==
    /\ MemOK(k) /\ m.alloc.held \subseteq k.alloc.held
    /\ \A v \in Outside : Backed(m, v) => Backed(k, v) /\ k.table[v].page = m.table[v].page
    /\ \A v \in Outside : ~Backed(m, v) /\ Backed(k, v) => k.table[v].page \notin m.alloc.held

LEMMA ServicesGrow ==
    ASSUME NEW m, NEW k, Grows(m, k), NEW P, NEW R, NEW Q, ServicesOK(m, P, R, Q)
    PROVE  ServicesOK(k, P, R, Q)
<1>1. \A v \in Outside : Backed(k, v) =>
          k.table[v].page \notin m.alloc.held \/ (Backed(m, v) /\ k.table[v].page = m.table[v].page)
  BY DEF Grows
<1>2. m.alloc.held \subseteq k.alloc.held
  BY DEF Grows
<1>3. BlocksOK(k, P)
  <2>1. BlocksOK(m, P)
    BY DEF ServicesOK
  <2> QED
    BY <1>1, <1>2, <2>1 DEF BlocksOK
<1>4. RestoredOK(k, P, R)
  <2>1. RestoredOK(m, P, R)
    BY DEF ServicesOK
  <2> QED
    BY <1>1, <1>2, <2>1 DEF RestoredOK
<1>5. RegionsOK(k, P, Q)
  <2>1. ASSUME NEW i \in DOMAIN Q PROVE WindowRegion(k, P, Q[i]) \/ UserRegion(k, Q[i])
    <3>1. CASE WindowRegion(m, P, Q[i])
      BY <1>2, <3>1 DEF WindowRegion
    <3>2. CASE UserRegion(m, Q[i])
      <4>1. \A v \in Span(Q[i].base, Q[i].n) : v \in Outside /\ Backed(m, v)
        BY <3>2 DEF UserRegion, Outside
      <4> QED
        BY <3>2, <4>1 DEF UserRegion, Grows
    <3> QED
      BY <3>1, <3>2 DEF ServicesOK, RegionsOK
  <2> QED
    BY <2>1 DEF ServicesOK, RegionsOK
<1> QED
  BY <1>3, <1>4, <1>5 DEF ServicesOK

LEMMA EvolvesGrows ==
    ASSUME NEW m, NEW k, Evolves(m, k)
    PROVE  Grows(m, k)
  BY DEF Evolves, Grows

(* A table of blocks with one more, and with one less.                     *)
LEMMA WithTable ==
    ASSUME NEW P \in RunTable, NEW p \in Nat, NEW n \in Nat
    PROVE  With(P, p, n) \in RunTable
<1>1. DOMAIN P \in SUBSET Nat /\ \A s \in DOMAIN P : P[s] \in Nat
  BY TableType
<1>2. With(P, p, n) \in [DOMAIN P \cup {p} -> Nat]
  BY <1>1 DEF With
<1> QED
  BY <1>1, <1>2, MakeTable

LEMMA WithoutTable ==
    ASSUME NEW P \in RunTable, NEW p
    PROVE  /\ Without(P, p) \in RunTable /\ DOMAIN Without(P, p) = DOMAIN P \ {p}
           /\ \A q \in DOMAIN P : q # p => Without(P, p)[q] = P[q]
<1>1. DOMAIN P \in SUBSET Nat /\ \A s \in DOMAIN P : P[s] \in Nat
  BY TableType
<1>2. Without(P, p) \in [DOMAIN P \ {p} -> Nat]
  BY <1>1 DEF Without
<1>3. Without(P, p) \in RunTable
  BY <1>1, <1>2, MakeTable
<1> QED
  BY <1>3 DEF Without

(* A new block.                                                            *)
LEMMA ServicesAllocate ==
    ASSUME NEW m, MemOK(m), NEW P, NEW R, NEW Q, ServicesOK(m, P, R, Q),
           NEW n \in Nat \ {0}, CanAllocate(m.alloc, n)
    PROVE  ServicesOK(KernelBlock(m, n), With(P, Placed(m.alloc, n), n), R, Q)
<1> DEFINE k == KernelBlock(m, n)
           p == Placed(m.alloc, n)
           s == Span(p, n)
           W == With(P, p, n)
<1>1. /\ Evolves(m, k) /\ k.table = m.table /\ k.alloc.held = m.alloc.held \cup s
      /\ p \in Nat /\ s \cap m.alloc.held = {} /\ s \subseteq High
  BY BlockEvolves
<1> HIDE DEF k, p
<1>2. ServicesOK(k, P, R, Q) /\ BlocksOK(m, P) /\ RestoredOK(m, P, R) /\ RegionsOK(m, P, Q)
  BY <1>1, EvolvesGrows, ServicesGrow DEF ServicesOK
<1>3. P \in RunTable /\ DOMAIN P \in SUBSET Nat /\ \A q \in DOMAIN P : P[q] \in Nat
  BY <1>2, TableType DEF BlocksOK
<1>4. /\ W \in RunTable /\ DOMAIN W = DOMAIN P \cup {p} /\ W[p] = n
      /\ \A q \in DOMAIN P : q # p => W[q] = P[q]
  <2>1. n \in Nat /\ p \in Nat /\ P \in RunTable
    BY <1>1, <1>3
  <2>2. W \in RunTable
    BY <2>1, WithTable
  <2>3. DOMAIN W = DOMAIN P \cup {p}
    BY DEF With
  <2>4. \A q \in DOMAIN P \cup {p} : W[q] = IF q = p THEN n ELSE P[q]
    BY DEF With
  <2> HIDE DEF W
  <2> QED
    BY <2>2, <2>3, <2>4
<1> HIDE DEF W, s
<1>5. \A q \in DOMAIN P : Span(q, P[q]) \cap s = {}
  BY <1>1, <1>2 DEF BlocksOK
<1>6. p \notin DOMAIN P
  <2>1. SUFFICES ASSUME p \in DOMAIN P PROVE FALSE
    OBVIOUS
  <2>2. p \in s
    BY SMT, <1>1, SpanIn DEF s
  <2>3. P[p] \in Nat /\ P[p] # 0
    BY <1>2, <1>3, <2>1 DEF BlocksOK
  <2>4. p \in Span(p, P[p])
    BY SMT, <1>1, <2>3, SpanIn
  <2> QED
    BY <1>5, <2>1, <2>2, <2>4
<1>7. \A q \in DOMAIN W : (q = p /\ Span(q, W[q]) = s) \/ (q # p /\ q \in DOMAIN P /\ Span(q, W[q]) = Span(q, P[q]) /\ W[q] = P[q])
  BY <1>4, <1>6 DEF s
<1>8. BlocksOK(k, W)
  <2>1. \A q \in DOMAIN W : W[q] # 0 /\ Span(q, W[q]) \subseteq k.alloc.held \cap High
    BY <1>1, <1>2, <1>4, <1>7 DEF BlocksOK
  <2>2. \A a, b \in DOMAIN W : a # b => Span(a, W[a]) \cap Span(b, W[b]) = {}
    BY <1>2, <1>5, <1>7 DEF BlocksOK
  <2>3. ASSUME NEW v \in Outside, Backed(k, v), NEW q \in DOMAIN W PROVE k.table[v].page \notin Span(q, W[q])
    <3>1. Backed(m, v) /\ k.table[v].page = m.table[v].page
      BY <1>1, <2>3 DEF Backed
    <3>2. m.table[v].page \in m.alloc.held
      BY <3>1 DEF MemOK, TableOK
    <3> QED
      BY <1>1, <1>2, <1>7, <2>3, <3>1, <3>2 DEF BlocksOK
  <2> QED
    BY <1>4, <2>1, <2>2, <2>3 DEF BlocksOK
<1>9. RestoredOK(k, W, R)
  BY <1>1, <1>2, <1>7 DEF RestoredOK, ServicesOK
<1>10. RegionsOK(k, W, Q)
  <2>1. ASSUME NEW i \in DOMAIN Q PROVE WindowRegion(k, W, Q[i]) \/ UserRegion(k, Q[i])
    <3>1. CASE WindowRegion(m, P, Q[i])
      BY <1>1, <1>7, <3>1 DEF WindowRegion
    <3>2. CASE UserRegion(m, Q[i])
      BY <1>1, <3>2 DEF UserRegion, Backed
    <3> QED
      BY <1>2, <3>1, <3>2 DEF RegionsOK
  <2> QED
    BY <1>2, <2>1 DEF RegionsOK
<1> QED
  BY <1>8, <1>9, <1>10 DEF ServicesOK, k, p, W

(* A block forgotten.                                                      *)
LEMMA ServicesForget ==
    ASSUME NEW m, NEW P, NEW R, NEW Q, ServicesOK(m, P, R, Q), NEW p \in DOMAIN P
    PROVE  ServicesOK(m, Without(P, p), R, Q)
<1> DEFINE W == Without(P, p)
<1>1. BlocksOK(m, P) /\ RestoredOK(m, P, R) /\ RegionsOK(m, P, Q) /\ P \in RunTable
  BY DEF ServicesOK, BlocksOK
<1>2. W \in RunTable /\ \A q \in DOMAIN W : q \in DOMAIN P /\ q # p /\ W[q] = P[q]
  <2>1. /\ W \in RunTable /\ DOMAIN W = DOMAIN P \ {p}
        /\ \A q \in DOMAIN P : q # p => W[q] = P[q]
    BY <1>1, WithoutTable
  <2> HIDE DEF W
  <2> QED
    BY <2>1
<1> HIDE DEF W
<1>3. BlocksOK(m, W)
  BY <1>1, <1>2 DEF BlocksOK
<1>4. RestoredOK(m, W, R)
  BY <1>1, <1>2 DEF RestoredOK
<1>5. RegionsOK(m, W, Q)
  <2>1. \A i \in DOMAIN Q : WindowRegion(m, P, Q[i]) => WindowRegion(m, W, Q[i])
    BY <1>2 DEF WindowRegion
  <2> QED
    BY <1>1, <2>1 DEF RegionsOK
<1> QED
  BY <1>3, <1>4, <1>5 DEF ServicesOK, W

(* A block freed that no region is at.                                     *)
LEMMA ServicesFree ==
    ASSUME NEW m, MemOK(m), NEW P, NEW R, NEW Q, ServicesOK(m, P, R, Q), NEW p \in DOMAIN P,
           \A i \in DOMAIN Q : Window + p \notin Span(Q[i].base, Q[i].n)
    PROVE  LET k == FreePhysical(m, p, P[p])
           IN  /\ ServicesOK(k, Without(P, p), R, Q)
               /\ MemOK(k) /\ k.table = m.table /\ k.alloc.held = m.alloc.held \ Span(p, P[p])
               /\ \A q \in Page : q \notin Span(p, P[p]) => Same(m, k, q)
               /\ \A q \in Span(p, P[p]) : k.bytes[q] = Zeros /\ k.generation[q] = Bump(m.generation[q])
<1> DEFINE k == FreePhysical(m, p, P[p])
           s == Span(p, P[p])
           W == Without(P, p)
<1>1. BlocksOK(m, P) /\ RestoredOK(m, P, R) /\ RegionsOK(m, P, Q) /\ P \in RunTable
  BY DEF ServicesOK, BlocksOK
<1>2. p \in Nat /\ P[p] \in Nat \ {0}
  BY <1>1, TableType DEF BlocksOK
<1>3. /\ s \subseteq m.alloc.held \cap High
      /\ \A v \in Outside : Backed(m, v) => m.table[v].page \notin s
  BY <1>1 DEF BlocksOK
<1>4. /\ MemOK(k) /\ k.table = m.table /\ k.alloc.held = m.alloc.held \ s
      /\ \A q \in Page : q \notin s => Same(m, k, q)
      /\ \A q \in s : k.bytes[q] = Zeros /\ k.generation[q] = Bump(m.generation[q])
  BY SMT, <1>2, <1>3, FreedPages
<1>5. W \in RunTable /\ \A q \in DOMAIN W : q \in DOMAIN P /\ q # p /\ W[q] = P[q]
  <2>1. /\ W \in RunTable /\ DOMAIN W = DOMAIN P \ {p}
        /\ \A q \in DOMAIN P : q # p => W[q] = P[q]
    BY <1>1, WithoutTable
  <2> HIDE DEF W
  <2> QED
    BY <2>1
<1> HIDE DEF k, W
<1>6. \A q \in DOMAIN W : Span(q, W[q]) \cap s = {} /\ Span(q, W[q]) = Span(q, P[q])
  BY <1>1, <1>5 DEF BlocksOK
<1>7. BlocksOK(k, W)
  <2>1. \A q \in DOMAIN W : W[q] # 0 /\ Span(q, W[q]) \subseteq k.alloc.held \cap High
    BY <1>1, <1>4, <1>5, <1>6 DEF BlocksOK
  <2>2. \A a, b \in DOMAIN W : a # b => Span(a, W[a]) \cap Span(b, W[b]) = {}
    BY <1>1, <1>5 DEF BlocksOK
  <2>3. \A v \in Outside : Backed(k, v) => \A q \in DOMAIN W : k.table[v].page \notin Span(q, W[q])
    BY <1>1, <1>4, <1>5 DEF BlocksOK, Backed
  <2> QED
    BY <1>5, <2>1, <2>2, <2>3 DEF BlocksOK
<1>8. RestoredOK(k, W, R)
  <2>1. R \cap s = {}
    BY <1>1 DEF RestoredOK
  <2> QED
    BY <1>1, <1>4, <1>5, <2>1 DEF RestoredOK, Backed
<1>9. RegionsOK(k, W, Q)
  <2>1. ASSUME NEW i \in DOMAIN Q PROVE WindowRegion(k, W, Q[i]) \/ UserRegion(k, Q[i])
    <3>1. CASE WindowRegion(m, P, Q[i])
      <4>1. PagesOf(Q[i]) \cap s = {}
        <5>1. SUFFICES ASSUME PagesOf(Q[i]) \cap s # {} PROVE FALSE
          OBVIOUS
        <5>2. p = Q[i].base - Window
          BY <3>1, <5>1 DEF WindowRegion
        <5>3. Q[i] \in Region
          BY <1>1, SeqFacts DEF RegionsOK
        <5>4. Q[i].base \in Nat /\ Q[i].n \in Nat \ {0}
          BY <5>3 DEF Region
        <5>5. Window + p = Q[i].base
          BY SMT, <5>2, <5>4, ConstantFacts
        <5>6. Q[i].base \in Span(Q[i].base, Q[i].n)
          BY SMT, <5>4, SpanIn
        <5> QED
          BY <5>5, <5>6
      <4>2. PagesOf(Q[i]) \subseteq k.alloc.held \cap High
        BY <1>4, <3>1, <4>1 DEF WindowRegion
      <4> QED
        BY <1>5, <3>1, <4>2 DEF WindowRegion
    <3>2. CASE UserRegion(m, Q[i])
      BY <1>4, <3>2 DEF UserRegion, Backed
    <3> QED
      BY <1>1, <3>1, <3>2 DEF RegionsOK
  <2> QED
    BY <1>1, <2>1 DEF RegionsOK
<1> QED
  BY <1>4, <1>7, <1>8, <1>9 DEF ServicesOK, k, W

(* What a title may persist is a region that holds.                        *)
LEMMA ServicesPersist ==
    ASSUME MemOK(Now), ServicesOK(Now, pool, restored, persisted),
           NEW base \in Nat, NEW n \in Nat \ {0}, Persistable(base, n)
    PROVE  ServicesOK(Now, pool, restored, PersistMemory(base, n))
<1> DEFINE r == [base |-> base, n |-> n]
           Q == PersistMemory(base, n)
           Good(x) == WindowRegion(Now, pool, x) \/ UserRegion(Now, x)
<1>1. r \in Region /\ r.base = base /\ r.n = n
  BY DEF Region
<1>2. /\ BlocksOK(Now, pool) /\ RestoredOK(Now, pool, restored) /\ RegionsOK(Now, pool, persisted)
      /\ pool \in RunTable
  BY DEF ServicesOK, BlocksOK
<1> HIDE DEF r
<1>3. Good(r)
  <2>1. CASE \E p \in DOMAIN pool : base = Window + p /\ n <= pool[p]
    <3>1. PICK p \in DOMAIN pool : base = Window + p /\ n <= pool[p]
      BY <2>1
    <3>2. p \in Nat /\ pool[p] \in Nat /\ pool[p] # 0 /\ Window \in Nat
      BY <1>2, TableType, ConstantFacts DEF BlocksOK
    <3>3. base - Window = p
      BY SMT, <3>1, <3>2
    <3>4. PagesOf(r) = Span(p, n)
      BY <1>1, <3>3 DEF PagesOf
    <3>5. Span(p, n) \subseteq Span(p, pool[p])
      <4>1. \A q \in Span(p, n) : q \in Nat /\ p <= q /\ q < p + n
        BY <3>2, SpanIn
      <4>2. \A q \in Span(p, n) : q \in Nat /\ p <= q /\ q < p + pool[p]
        BY SMT, <3>1, <3>2, <4>1
      <4>3. \A q \in Span(p, n) : q \in Span(p, pool[p])
        BY <3>2, <4>2, SpanIn
      <4> QED
        BY <4>3
    <3>6. Span(p, pool[p]) \subseteq Now.alloc.held \cap High
      BY <1>2 DEF BlocksOK
    <3>7. InWindow(base)
      <4>1. p \in Span(p, pool[p])
        BY SMT, <3>2, SpanIn
      <4>2. p \in Page
        BY <3>6, <4>1, AddressFacts
      <4> QED
        BY <3>1, <4>2, AddressFacts
    <3>8. \A q \in DOMAIN pool : PagesOf(r) \cap Span(q, pool[q]) # {} => q = p
      BY <1>2, <3>4, <3>5 DEF BlocksOK
    <3>9. WindowRegion(Now, pool, r)
      BY <1>1, <3>3, <3>4, <3>5, <3>6, <3>7, <3>8 DEF WindowRegion
    <3> QED
      BY <3>9
  <2>2. CASE InWindow(base) /\ {v - Window : v \in Span(base, n)} \subseteq restored
    <3>1. base - Window \in Page /\ base - Window \in Nat /\ Window \in Nat
      BY <2>2, AddressFacts, ConstantFacts
    <3>2. PagesOf(r) \subseteq restored
      <4>1. ASSUME NEW p \in PagesOf(r) PROVE p \in restored
        <5> DEFINE b == base - Window
        <5>1. p \in Span(b, n)
          BY <1>1, <4>1 DEF PagesOf
        <5> HIDE DEF b
        <5>2. p \in Nat /\ b <= p /\ p < b + n /\ b \in Nat
          BY <3>1, <5>1, SpanIn DEF b
        <5>3. Window + p \in Nat /\ base <= Window + p /\ Window + p < base + n /\ (Window + p) - Window = p
          BY SMT, <3>1, <5>2 DEF b
        <5>4. Window + p \in Span(base, n)
          BY <5>3, SpanIn
        <5>5. (Window + p) - Window \in restored
          BY <2>2, <5>4
        <5> QED
          BY <5>3, <5>5
      <4> QED
        BY <4>1
    <3>3. WindowRegion(Now, pool, r)
      BY <1>1, <1>2, <2>2, <3>2 DEF WindowRegion, RestoredOK
    <3> QED
      BY <3>3
  <2>3. CASE Span(base, n) \subseteq User /\ Accessible(Now, base, n, "r")
    <3>1. \A v \in Span(base, n) : v \in VirtualPage /\ "r" \in Now.table[v].perms
      BY <2>3, AddressFacts DEF Accessible, Outside
    <3>2. \A v \in Span(base, n) : Backed(Now, v)
      BY <3>1, BackedPage
    <3> QED
      BY <1>1, <2>3, <3>2 DEF UserRegion
  <2> QED
    BY <2>1, <2>2, <2>3 DEF Persistable
<1>4. persisted \in Seq(Region) /\ \A i \in DOMAIN persisted : Good(persisted[i]) /\ persisted[i] \in Region
  BY <1>2, SeqFacts DEF RegionsOK
<1> HIDE DEF Good
<1>5. Q \in Seq(Region) /\ \A i \in DOMAIN Q : Good(Q[i])
  <2>1. CASE \E i \in DOMAIN persisted : persisted[i].base = base
    <3> DEFINE e(i) == IF persisted[i].base = base /\ n > persisted[i].n
                       THEN [persisted[i] EXCEPT !.n = n] ELSE persisted[i]
    <3>1. Q = [i \in DOMAIN persisted |-> e(i)]
      BY <2>1 DEF PersistMemory
    <3>2. ASSUME NEW i \in DOMAIN persisted PROVE e(i) \in Region /\ Good(e(i))
      <4>1. CASE persisted[i].base = base /\ n > persisted[i].n
        <5>1. [persisted[i] EXCEPT !.n = n] = r
          BY SMT, <1>4, <4>1 DEF Region, r
        <5> QED
          BY <1>1, <1>3, <4>1, <5>1
      <4>2. CASE ~(persisted[i].base = base /\ n > persisted[i].n)
        BY <1>4, <4>2
      <4> QED
        BY <4>1, <4>2
    <3> HIDE DEF e, Q
    <3>3. Len(persisted) \in Nat /\ DOMAIN persisted = 1 .. Len(persisted)
      BY <1>4, SeqFacts
    <3>4. Q \in Seq(Region)
      BY SMT, <3>1, <3>2, <3>3
    <3> QED
      BY <3>1, <3>2, <3>4
  <2>2. CASE ~\E i \in DOMAIN persisted : persisted[i].base = base
    <3>1. Q = Append(persisted, r)
      BY <2>2 DEF PersistMemory, r
    <3> HIDE DEF Q
    <3>2. Q \in Seq(Region) /\ \A i \in DOMAIN Q : Q[i] = r \/ (i \in DOMAIN persisted /\ Q[i] = persisted[i])
      BY SMT, <1>1, <1>4, <3>1
    <3> QED
      BY <1>3, <1>4, <3>2
  <2> QED
    BY <2>1, <2>2
<1>6. RegionsOK(Now, pool, Q)
  BY <1>5 DEF RegionsOK, Good
<1> QED
  BY <1>2, <1>6 DEF ServicesOK

(* The snapshots of a machine whose regions hold.                          *)
LEMMA SnapshotsOK ==
    ASSUME MemOK(Now), RegionsOK(Now, pool, persisted)
    PROVE  /\ Len(Snapshots) \in Nat /\ DOMAIN Snapshots = 1 .. Len(Snapshots)
           /\ DOMAIN Snapshots = DOMAIN persisted
           /\ \A i \in DOMAIN persisted :
                 /\ Snapshots[i].base = persisted[i].base /\ Snapshots[i].n = persisted[i].n
                 /\ SnapshotOK(Snapshots[i], bytes)
<1>1. persisted \in Seq(Region) /\ Len(persisted) \in Nat /\ DOMAIN persisted = 1 .. Len(persisted)
  BY SeqFacts DEF RegionsOK
<1>2. \A i \in DOMAIN persisted : persisted[i] \in Region /\ persisted[i].base \in Nat /\ persisted[i].n \in Nat \ {0}
  <2>1. \A i \in DOMAIN persisted : persisted[i] \in Region
    BY <1>1, SeqFacts
  <2> QED
    BY <2>1 DEF Region
<1>3. /\ Now.table = table /\ Now.bytes = bytes /\ DOMAIN table = VirtualPage
      /\ bytes \in [Page -> Values]
  BY MemoryFields DEF MemOK, Now
<1>4. ASSUME NEW i \in DOMAIN persisted, WindowRegion(Now, pool, persisted[i])
      PROVE  LET b == persisted[i].base
                 n == persisted[i].n
             IN  \A w \in Span(b, n) : w \in VirtualPage /\ Backed(Now, w) /\ Now.table[w].page = w - Window
  <2> DEFINE b == persisted[i].base
             n == persisted[i].n
             p == b - Window
  <2>1. p \in Nat /\ b = Window + p /\ Span(p, n) \subseteq Page
    BY <1>4, AddressFacts DEF WindowRegion, PagesOf
  <2>2. n \in Nat
    BY <1>2
  <2> HIDE DEF p, b, n
  <2>3. \A w \in Span(Window + p, n) : w \in VirtualPage /\ Backed(Now, w) /\ Now.table[w].page = w - Window
    BY SMT, <2>1, <2>2, WindowSpan
  <2> QED
    BY <2>1, <2>3 DEF b, n
<1>5. ASSUME NEW i \in DOMAIN persisted
      PROVE  \A w \in Span(persisted[i].base, persisted[i].n) : w \in VirtualPage /\ Backed(Now, w)
  <2>1. CASE WindowRegion(Now, pool, persisted[i])
    BY <1>4, <2>1
  <2>2. CASE UserRegion(Now, persisted[i])
    BY <2>2, AddressFacts DEF UserRegion, Outside
  <2> QED
    BY <2>1, <2>2 DEF RegionsOK
<1>6. \A i \in DOMAIN persisted : Accessible(Now, persisted[i].base, persisted[i].n, "r")
  BY <1>3, <1>5, BackedPage DEF Accessible
<1>7. Readable = persisted
  BY <1>1, <1>6, AllReadable
<1>8. Snapshots = [i \in DOMAIN persisted |->
                     [base |-> persisted[i].base, n |-> persisted[i].n,
                      data |-> [w \in Span(persisted[i].base, persisted[i].n) |-> bytes[table[w].page]]]]
  BY <1>7 DEF Snapshots
<1>9. DOMAIN Snapshots = DOMAIN persisted
  BY <1>8
<1>10. Len(Snapshots) = Len(persisted)
  BY SMT, <1>1, <1>8
<1>11. ASSUME NEW i \in DOMAIN persisted
       PROVE  /\ Snapshots[i].base = persisted[i].base /\ Snapshots[i].n = persisted[i].n
              /\ SnapshotOK(Snapshots[i], bytes)
  <2> DEFINE s == Snapshots[i]
             b == persisted[i].base
             n == persisted[i].n
  <2>1. s = [base |-> b, n |-> n, data |-> [w \in Span(b, n) |-> bytes[table[w].page]]]
    BY <1>8
  <2> HIDE DEF s
  <2>2. s.base = b /\ s.n = n /\ s.data = [w \in Span(b, n) |-> bytes[table[w].page]]
    BY <2>1
  <2>3. \A w \in Span(b, n) : s.data[w] = bytes[table[w].page]
    BY <2>2
  <2>4. \A w \in Span(b, n) : table[w].page \in Page
    BY <1>3, <1>5, BackedPage
  <2>5. \A w \in Span(b, n) : s.data[w] \in Values
    BY <1>3, <2>3, <2>4
  <2>6. b \in Nat /\ n \in Nat \ {0}
    BY <1>2
  <2>7. CASE WindowRegion(Now, pool, persisted[i])
    <3>1. InWindow(b) /\ Span(b - Window, n) \subseteq High
      BY <2>7 DEF WindowRegion, PagesOf
    <3>2. \A w \in Span(b, n) : table[w].page = w - Window
      BY <1>3, <1>4, <2>7
    <3> HIDE DEF b, n
    <3>3. SnapshotOK(s, bytes)
      BY <2>2, <2>3, <2>5, <2>6, <3>1, <3>2 DEF SnapshotOK
    <3> QED
      BY <2>2, <3>3 DEF s, b, n
  <2>8. CASE UserRegion(Now, persisted[i])
    <3>1. Span(b, n) \subseteq User
      BY <2>8 DEF UserRegion
    <3>2. b \in User
      BY SMT, <2>6, <3>1, SpanIn
    <3>3. ~InWindow(b)
      BY <3>2, AddressFacts DEF Outside
    <3> HIDE DEF b, n
    <3>4. SnapshotOK(s, bytes)
      BY <2>2, <2>5, <2>6, <3>1, <3>3 DEF SnapshotOK
    <3> QED
      BY <2>2, <3>4 DEF s, b, n
  <2> QED
    BY <2>7, <2>8 DEF RegionsOK
<1> QED
  BY <1>1, <1>9, <1>10, <1>11

(* NtAllocateVirtualMemory's own choice never goes below the user range.   *)
LEMMA FreshStartOK ==
    ASSUME cursor \in Nat
    PROVE  FreshStart \in Nat /\ FreshStart >= cursor
<1> DEFINE A == ReserveAlign
           x == cursor + A - 1
<1>1. A \in Nat \ {0} /\ x \in Nat
  BY SMT, ConstantFacts
<1> HIDE DEF A
<1>2. x \div A \in Nat /\ (x \div A) * A > x - A
  <2> HIDE DEF x
  <2>1. x \div A \in Int /\ x \div A >= 0
    BY SMT, <1>1
  <2>2. (x \div A) * A > x - A
    BY SMT, <1>1
  <2> QED
    BY SMT, <2>1, <2>2
<1> DEFINE q == x \div A
           y == q * A
<1>3. y \in Nat
  <2> HIDE DEF q
  <2>1. q \in Nat
    BY <1>2 DEF q
  <2> QED
    BY SMT, <1>1, <2>1
<1>4. y > x - A
  BY <1>2
<1>5. FreshStart = y
  BY DEF FreshStart, A
<1> HIDE DEF y
<1>6. y >= cursor
  BY SMT, <1>1, <1>3, <1>4
<1> QED
  BY <1>3, <1>5, <1>6

-----------------------------------------------------------------------------
(* The inductive invariant: a machine with owners that are apart, or the   *)
(* empty one a failed relaunch leaves.                                     *)
MemoryInv ==
    /\ relaunches \in Nat /\ image \in Images /\ cursor \in Nat /\ cursor >= UserBase
    /\ PoolZeroed
    /\ \/ stopped # "error" /\ MemOK(Now) /\ ServicesOK(Now, pool, restored, persisted)
       \/ stopped = "error" /\ Now = Empty /\ pool = << >> /\ persisted = << >> /\ restored = {}

LEMMA BecomesNow ==
    ASSUME NEW k \in MemoryType, Becomes(k)
    PROVE  Now' = k
<1>1. k = [alloc |-> k.alloc, table |-> k.table, bytes |-> k.bytes, generation |-> k.generation]
  BY DEF MemoryType
<1> QED
  BY <1>1 DEF Becomes, Now

LEMMA NowFields ==
    Now.alloc = alloc /\ Now.table = table /\ Now.bytes = bytes /\ Now.generation = generation
  BY DEF Now

LEMMA InvNext ==
    ASSUME NEW k, Becomes(k), MemOK(k), ServicesOK(k, pool', restored', persisted'), stopped' # "error",
           relaunches' \in Nat, image' \in Images, cursor' \in Nat, cursor' >= UserBase,
           \A p \in Page : p \notin k.alloc.held /\ p \notin dirty' => k.bytes[p] = Zeros
    PROVE  MemoryInv'
<1>1. k \in MemoryType
  BY DEF MemOK
<1>2. Now' = k
  BY <1>1, BecomesNow
<1>3. PoolZeroed'
  BY DEF PoolZeroed, Becomes
<1>4. MemOK(Now') /\ ServicesOK(Now', pool', restored', persisted')
  BY <1>2
<1> QED
  BY <1>3, <1>4 DEF MemoryInv

(* A running machine is a whole one.                                       *)
LEMMA RunningInv ==
    ASSUME MemoryInv, Running
    PROVE  /\ MemOK(Now) /\ ServicesOK(Now, pool, restored, persisted) /\ stopped # "error"
           /\ relaunches \in Nat /\ image \in Images /\ cursor \in Nat /\ cursor >= UserBase
           /\ \A p \in Page : p \notin Now.alloc.held /\ p \notin dirty => Now.bytes[p] = Zeros
<1>1. stopped # "error"
  BY DEF Running
<1>2. \A p \in Page : p \notin Now.alloc.held /\ p \notin dirty => Now.bytes[p] = Zeros
  BY NowFields DEF MemoryInv, PoolZeroed
<1> QED
  BY <1>1, <1>2 DEF MemoryInv

(* A step that only places memory.                                         *)
LEMMA EvolveStep ==
    ASSUME MemoryInv, Running, NEW k, Evolves(Now, k), Becomes(k), Dirties({}),
           ServicesOK(k, pool', restored', persisted'), cursor' \in Nat, cursor' >= UserBase,
           UNCHANGED <<relaunches, image, stopped>>
    PROVE  MemoryInv'
<1> DEFINE m == Now
<1>1. \A p \in Page : p \notin m.alloc.held /\ p \notin dirty => m.bytes[p] = Zeros
  BY RunningInv
<1>2. MemOK(k) /\ Now.alloc.held \subseteq k.alloc.held /\ \A p \in Page : Same(Now, k, p) \/ Scrubbed(Now, k, p)
  BY DEF Evolves
<1>3. dirty' = dirty \ k.alloc.held
  BY DEF Dirties, Becomes
<1> HIDE DEF m
<1>4. ASSUME NEW p \in Page, p \notin k.alloc.held, p \notin dirty' PROVE k.bytes[p] = Zeros
  <2>1. m.bytes[p] = Zeros
    BY <1>1, <1>2, <1>3, <1>4 DEF m
  <2>2. Same(m, k, p)
    BY <1>2, <1>4 DEF m, Scrubbed
  <2> QED
    BY <2>1, <2>2 DEF Same
<1>5. relaunches' \in Nat /\ image' \in Images /\ stopped' # "error"
  BY RunningInv
<1> QED
  BY <1>2, <1>4, <1>5, InvNext

LEMMA GuestWriteInv ==
    ASSUME MemoryInv, NEW v \in VirtualPage, NEW n \in 1 .. MaxSize, NEW x \in Values, GuestWrite(v, n, x)
    PROVE  MemoryInv'
<1> DEFINE d == [w \in Span(v, n) |-> x]
           k == Written(Now, v, n, d)
           m == Now
           B == Backing(Now, v, n)
<1>1. /\ Running /\ Accessible(m, v, n, "w") /\ Becomes(k)
      /\ Dirties(B)
      /\ UNCHANGED <<pool, persisted, cursor, image, relaunches, stopped, restored>>
  BY DEF GuestWrite, services, session
<1>2. /\ MemOK(m) /\ ServicesOK(m, pool, restored, persisted) /\ stopped # "error"
      /\ relaunches \in Nat /\ image \in Images /\ cursor \in Nat /\ cursor >= UserBase
      /\ \A p \in Page : p \notin m.alloc.held /\ p \notin dirty => m.bytes[p] = Zeros
  BY <1>1, RunningInv
<1>3. v \in Nat /\ n \in Nat \ {0}
  BY SMT, AddressFacts, ConstantFacts
<1>4. \A w \in Span(v, n) : w \in VirtualPage /\ Backed(m, w) /\ d[w] \in Values
  <2>1. DOMAIN m.table = VirtualPage
    BY <1>2, MemoryFields DEF MemOK
  <2>2. \A w \in Span(v, n) : w \in VirtualPage /\ "w" \in m.table[w].perms
    BY <1>1, <2>1 DEF Accessible
  <2>3. \A w \in Span(v, n) : d[w] \in Values
    OBVIOUS
  <2> QED
    BY <1>2, <2>2, <2>3, BackedPage
<1> HIDE DEF d, m
<1>5. /\ MemOK(k) /\ k.alloc = m.alloc /\ k.table = m.table
      /\ \A p \in Page : p \notin B => Same(m, k, p)
  <2>1. /\ MemOK(Written(m, v, n, d)) /\ Written(m, v, n, d).alloc = m.alloc /\ Written(m, v, n, d).table = m.table
        /\ \A p \in Page : p \notin Backing(m, v, n) => Same(m, Written(m, v, n, d), p)
    BY SMT, <1>2, <1>3, <1>4, WrittenPages
  <2> QED
    BY <2>1 DEF m
<1> HIDE DEF k, B
<1>6. Grows(m, k)
  BY <1>5 DEF Grows, Backed
<1>7. ServicesOK(k, pool', restored', persisted')
  <2>1. ServicesOK(k, pool, restored, persisted)
    BY <1>2, <1>6, ServicesGrow
  <2> QED
    BY <1>1, <2>1
<1>8. dirty' = (dirty \cup B) \ k.alloc.held
  BY <1>1 DEF Dirties, Becomes
<1>9. \A p \in Page : p \notin k.alloc.held /\ p \notin dirty' => k.bytes[p] = Zeros
  BY <1>2, <1>5, <1>8 DEF Same
<1> QED
  BY <1>1, <1>2, <1>5, <1>7, <1>9, InvNext

LEMMA AllocateContiguousInv ==
    ASSUME MemoryInv, NEW n \in 1 .. MaxSize, AllocateContiguous(n)
    PROVE  MemoryInv'
<1> DEFINE k == KernelBlock(Now, n)
<1>1. /\ Running /\ CanAllocate(Now.alloc, n) /\ Becomes(k)
      /\ pool' = With(pool, Placed(Now.alloc, n), n) /\ Dirties({})
      /\ UNCHANGED <<persisted, cursor, image, relaunches, stopped, restored>>
  BY NowFields DEF AllocateContiguous, session
<1>2. /\ MemOK(Now) /\ ServicesOK(Now, pool, restored, persisted) /\ cursor \in Nat /\ cursor >= UserBase
  BY <1>1, RunningInv
<1>3. n \in Nat \ {0}
  BY SMT, ConstantFacts
<1>4. Evolves(Now, k)
  BY <1>1, <1>2, <1>3, BlockEvolves
<1>5. ServicesOK(k, With(pool, Placed(Now.alloc, n), n), restored, persisted)
  BY <1>1, <1>2, <1>3, ServicesAllocate
<1> HIDE DEF k
<1>6. ServicesOK(k, pool', restored', persisted')
  BY <1>1, <1>5
<1> QED
  BY <1>1, <1>2, <1>4, <1>6, EvolveStep

LEMMA FreeContiguousInv ==
    ASSUME MemoryInv, NEW p \in Page, FreeContiguous(p)
    PROVE  MemoryInv'
<1> DEFINE m == Now
           k == IF InPersisted(p) THEN Now ELSE FreePhysical(Now, p, pool[p])
<1>1. /\ Running /\ p \in DOMAIN pool /\ Becomes(k)
      /\ pool' = Without(pool, p) /\ Dirties({})
      /\ UNCHANGED <<persisted, cursor, image, relaunches, stopped, restored>>
  BY DEF FreeContiguous, session
<1>2. /\ MemOK(m) /\ ServicesOK(m, pool, restored, persisted) /\ stopped # "error"
      /\ relaunches \in Nat /\ image \in Images /\ cursor \in Nat /\ cursor >= UserBase
      /\ \A q \in Page : q \notin m.alloc.held /\ q \notin dirty => m.bytes[q] = Zeros
  BY <1>1, RunningInv
<1>3. CASE InPersisted(p)
  <2>1. k = m
    BY <1>3
  <2>2. ServicesOK(m, Without(pool, p), restored, persisted)
    BY <1>1, <1>2, ServicesForget
  <2> HIDE DEF k
  <2>3. ServicesOK(k, pool', restored', persisted')
    BY <1>1, <2>1, <2>2
  <2>4. Evolves(m, k)
    BY <1>2, <2>1, EvolvesSame
  <2> HIDE DEF m
  <2> QED
    BY <1>1, <1>2, <2>3, <2>4, EvolveStep DEF m
<1>4. CASE ~InPersisted(p)
  <2>1. k = FreePhysical(m, p, pool[p])
    BY <1>4
  <2>2. \A i \in DOMAIN persisted : Window + p \notin Span(persisted[i].base, persisted[i].n)
    BY <1>4 DEF InPersisted
  <2> HIDE DEF k, m
  <2>3. /\ ServicesOK(k, Without(pool, p), restored, persisted)
        /\ MemOK(k) /\ k.alloc.held = m.alloc.held \ Span(p, pool[p])
        /\ \A q \in Page : q \notin Span(p, pool[p]) => Same(m, k, q)
        /\ \A q \in Span(p, pool[p]) : k.bytes[q] = Zeros
    BY SMT, <1>1, <1>2, <2>1, <2>2, ServicesFree
  <2>4. dirty' = dirty \ k.alloc.held
    BY <1>1 DEF Dirties, Becomes
  <2>5. ASSUME NEW q \in Page, q \notin k.alloc.held, q \notin dirty' PROVE k.bytes[q] = Zeros
    <3>1. CASE q \in Span(p, pool[p])
      BY <2>3, <3>1
    <3>2. CASE q \notin Span(p, pool[p])
      BY <1>2, <2>3, <2>4, <2>5, <3>2 DEF Same
    <3> QED
      BY <3>1, <3>2
  <2>6. ServicesOK(k, pool', restored', persisted')
    BY <1>1, <2>3
  <2> QED
    BY <1>1, <1>2, <2>3, <2>5, <2>6, InvNext
<1> QED
  BY <1>3, <1>4

LEMMA PlacingInv ==
    ASSUME MemoryInv, Running, NEW k, Evolves(Now, k), Becomes(k), Dirties({}),
           cursor' \in Nat, cursor' >= UserBase,
           UNCHANGED <<pool, persisted, restored, image, relaunches, stopped>>
    PROVE  MemoryInv'
<1>1. ServicesOK(k, pool, restored, persisted)
  BY RunningInv, EvolvesGrows, ServicesGrow
<1>2. ServicesOK(k, pool', restored', persisted')
  BY <1>1
<1> QED
  BY <1>2, EvolveStep

LEMMA AllocateFreshInv ==
    ASSUME MemoryInv, NEW n \in 1 .. MaxSize, NEW commit \in BOOLEAN, NEW perms \in {RW, RWX},
           AllocateFresh(n, commit, perms)
    PROVE  MemoryInv'
<1> DEFINE k == IF commit THEN Committed(Now, FreshStart, n, perms) ELSE Now
<1>1. /\ Running /\ FreshStart + n <= UserEnd /\ cursor' = FreshStart + n
      /\ Becomes(k) /\ Dirties({})
      /\ UNCHANGED <<pool, persisted, restored, image, relaunches, stopped>>
  BY DEF AllocateFresh, session
<1>2. MemOK(Now) /\ cursor \in Nat /\ cursor >= UserBase
  BY <1>1, RunningInv
<1>3. FreshStart \in Nat /\ FreshStart >= cursor /\ n \in Nat \ {0} /\ UserBase \in Nat /\ UserEnd \in Nat
  BY SMT, <1>2, FreshStartOK, ConstantFacts
<1>4. perms \in SUBSET RWX /\ RW \subseteq perms
  BY DEF RW, RWX
<1>5. Span(FreshStart, n) \subseteq User
  <2>1. \A w \in Span(FreshStart, n) : w \in Nat /\ FreshStart <= w /\ w < FreshStart + n
    BY <1>3, SpanIn
  <2>2. \A w \in Span(FreshStart, n) : w \in User
    BY SMT, <1>1, <1>2, <1>3, <2>1 DEF User
  <2> QED
    BY <2>2
<1>6. Evolves(Now, k)
  <2>1. CASE commit
    BY <1>2, <1>3, <1>4, <1>5, <2>1, CommitEvolves
  <2>2. CASE ~commit
    BY <1>2, <2>2, EvolvesSame
  <2> QED
    BY <2>1, <2>2
<1>7. cursor' \in Nat /\ cursor' >= UserBase
  BY SMT, <1>1, <1>2, <1>3
<1> HIDE DEF k
<1> QED
  BY <1>1, <1>6, <1>7, PlacingInv

LEMMA AllocateAtInv ==
    ASSUME MemoryInv, NEW v \in User, NEW n \in 1 .. MaxSize, NEW perms \in {RW, RWX},
           AllocateAt(v, n, perms)
    PROVE  MemoryInv'
<1> DEFINE k == Committed(Now, v, n, perms)
<1>1. /\ Running /\ Span(v, n) \subseteq User /\ Becomes(k) /\ Dirties({})
      /\ UNCHANGED <<pool, persisted, restored, image, relaunches, stopped, cursor>>
  BY DEF AllocateAt, services, session
<1>2. MemOK(Now) /\ cursor \in Nat /\ cursor >= UserBase
  BY <1>1, RunningInv
<1>3. v \in Nat /\ n \in Nat /\ perms \in SUBSET RWX /\ RW \subseteq perms
  <2>0. v \in Outside
    BY DEF Outside
  <2>1. v \in Nat /\ n \in Nat
    BY SMT, <2>0, AddressFacts, ConstantFacts
  <2>2. perms \in SUBSET RWX /\ RW \subseteq perms
    BY DEF RW, RWX
  <2> QED
    BY <2>1, <2>2
<1>4. Evolves(Now, k)
  BY <1>1, <1>2, <1>3, CommitEvolves
<1> HIDE DEF k
<1> QED
  BY <1>1, <1>2, <1>4, PlacingInv

LEMMA CreateThreadInv ==
    ASSUME MemoryInv, CreateThread
    PROVE  MemoryInv'
<1> DEFINE k == TryBlock(TryBlock(Guarded(Now)))
<1>1. /\ Running /\ Becomes(k) /\ Dirties({})
      /\ UNCHANGED <<pool, persisted, restored, image, relaunches, stopped, cursor>>
  BY DEF CreateThread, services, session
<1>2. MemOK(Now) /\ cursor \in Nat /\ cursor >= UserBase
  BY <1>1, RunningInv
<1>3. Evolves(Now, k)
  BY <1>2, ThreadEvolves
<1> HIDE DEF k
<1> QED
  BY <1>1, <1>2, <1>3, PlacingInv

(* Steps that leave memory alone.                                          *)
LEMMA QuietInv ==
    ASSUME MemoryInv, Running, UNCHANGED <<memory, histories, image, relaunches, cursor>>,
           stopped' # "error", ServicesOK(Now, pool', restored, persisted')
    PROVE  MemoryInv'
<1>1. /\ MemOK(Now) /\ relaunches \in Nat /\ image \in Images /\ cursor \in Nat /\ cursor >= UserBase
      /\ \A p \in Page : p \notin Now.alloc.held /\ p \notin dirty => Now.bytes[p] = Zeros
  BY RunningInv
<1>2. Becomes(Now)
  BY NowFields DEF Becomes, memory
<1>3. restored' = restored /\ dirty' = dirty
  BY DEF histories
<1> QED
  BY <1>1, <1>2, <1>3, InvNext

LEMMA PersistInv ==
    ASSUME MemoryInv, NEW base \in VirtualPage, NEW n \in 1 .. MaxSize, MmPersistContiguousMemory(base, n)
    PROVE  MemoryInv'
<1>1. /\ Running /\ Persistable(base, n) /\ persisted' = PersistMemory(base, n)
      /\ UNCHANGED <<memory, histories, image, relaunches, cursor>> /\ pool' = pool /\ stopped' = stopped
  BY DEF MmPersistContiguousMemory, session
<1>2. MemOK(Now) /\ ServicesOK(Now, pool, restored, persisted) /\ stopped # "error"
  BY <1>1, RunningInv
<1>3. base \in Nat /\ n \in Nat \ {0}
  BY SMT, AddressFacts, ConstantFacts
<1>4. ServicesOK(Now, pool, restored, PersistMemory(base, n))
  BY <1>1, <1>2, <1>3, ServicesPersist
<1>5. ServicesOK(Now, pool', restored, persisted')
  BY <1>1, <1>4
<1> QED
  BY <1>1, <1>2, <1>5, QuietInv

LEMMA OtherGuestInv ==
    ASSUME MemoryInv, SetLaunchDataPage \/ EndRun
    PROVE  MemoryInv'
<1>1. /\ Running /\ UNCHANGED <<memory, histories, image, relaunches, cursor>>
      /\ pool' = pool /\ persisted' = persisted /\ (stopped' = stopped \/ stopped' = "reboot")
  BY DEF SetLaunchDataPage, EndRun, session, services
<1>2. ServicesOK(Now, pool, restored, persisted) /\ stopped # "error"
  BY <1>1, RunningInv
<1>3. stopped' # "error"
  BY <1>1, <1>2
<1>4. ServicesOK(Now, pool', restored, persisted')
  BY <1>1, <1>2
<1> QED
  BY <1>1, <1>3, <1>4, QuietInv

-----------------------------------------------------------------------------
(* No service owns anything, except the pages R below the image.           *)
LEMMA FreshServicesOK ==
    ASSUME NEW m, NEW c \in Nat, NEW img, Fresh(m, c, img), NEW R, R \subseteq High, \A p \in R : p < c
    PROVE  ServicesOK(m, << >>, R, << >>)
<1>1. DOMAIN << >> = {} /\ << >> \in [{} -> Nat] /\ << >> \in Seq(Region)
  BY SMT
<1>2. << >> \in RunTable
  <2>1. {} \in SUBSET Nat
    OBVIOUS
  <2> QED
    BY <1>1, <2>1, MakeTable
<1>3. BlocksOK(m, << >>)
  BY <1>1, <1>2 DEF BlocksOK
<1>4. RestoredOK(m, << >>, R)
  <2>1. ASSUME NEW p \in R PROVE p \in m.alloc.held \cap High /\ p \in Nat
    <3>1. p \in High /\ p \in Page /\ p \in Nat /\ p <= c
      BY SMT, AddressFacts
    <3> QED
      BY <3>1 DEF Fresh
  <2>2. ASSUME NEW v \in Outside, Backed(m, v) PROVE m.table[v].page \notin R
    <3>1. CASE v = ImageBase
      BY SMT, <3>1 DEF Fresh
    <3>2. CASE v \in User
      <4>1. m.table[v].page > c
        BY <2>2, <3>2 DEF Fresh
      <4>2. m.table[v].page \in Nat
        BY <2>2, AddressFacts, BackedPage DEF Fresh
      <4> QED
        BY SMT, <2>1, <4>1, <4>2
    <3> QED
      BY <3>1, <3>2 DEF Outside
  <2> QED
    BY <1>1, <2>1, <2>2 DEF RestoredOK
<1>5. RegionsOK(m, << >>, << >>)
  BY <1>1 DEF RegionsOK
<1> QED
  BY <1>3, <1>4, <1>5 DEF ServicesOK

LEMMA FreshInv ==
    ASSUME NEW k, NEW c \in Nat, NEW img, Fresh(k, c, img), Becomes(k), FreshServices,
           restored' \subseteq High, \A p \in restored' : p < c,
           relaunches' \in Nat, image' \in Images, stopped' # "error"
    PROVE  MemoryInv'
<1>1. ServicesOK(k, << >>, restored', << >>)
  BY FreshServicesOK
<1>2. pool' = << >> /\ persisted' = << >> /\ cursor' = UserBase
  BY DEF FreshServices
<1>3. ServicesOK(k, pool', restored', persisted') /\ cursor' \in Nat /\ cursor' >= UserBase
  BY SMT, <1>1, <1>2, ConstantFacts
<1>4. MemOK(k) /\ \A p \in Page : p \notin k.alloc.held => k.bytes[p] = Zeros
  BY DEF Fresh
<1> QED
  BY <1>3, <1>4, InvNext

LEMMA HostLoadsInv ==
    ASSUME NEW img \in Images, HostLoads(img)
    PROVE  MemoryInv'
<1>1. CanLoad(0)
  BY SMT, ConstantFacts DEF CanLoad
<1>2. PICK c \in Nat : Fresh(Load(img, 0), c, img)
  BY <1>1, LoadOK
<1>3. /\ Becomes(Load(img, 0)) /\ FreshServices /\ image' = img /\ stopped' = ""
      /\ relaunches' = 0 /\ restored' = {}
  BY DEF HostLoads
<1>4. stopped' # "error" /\ relaunches' \in Nat /\ restored' \subseteq High /\ \A p \in restored' : p < c
  BY <1>3
<1> QED
  BY <1>2, <1>3, <1>4, FreshInv

LEMMA RelaunchInv ==
    ASSUME MemoryInv, Relaunch
    PROVE  /\ MemoryInv'
           /\ bytes'[table'[ImageBase].page] = image
           /\ \A i \in DOMAIN persisted :
                 \A v \in Span(persisted[i].base, persisted[i].n) :
                     InWindow(v) => bytes'[v - Window] = bytes[v - Window]
<1> DEFINE k == Relaunched(Snapshots)
           s == Snapshots
<1>1. /\ Running /\ CanLoad(KeepThrough(s)) /\ Becomes(k) /\ FreshServices
      /\ relaunches' = relaunches + 1
      /\ restored' = UNION {{v - Window : v \in Span(s[i].base, s[i].n)} :
                               i \in {j \in DOMAIN s : InWindow(s[j].base)}}
      /\ UNCHANGED <<image, stopped>>
  BY DEF Relaunch
<1>2. /\ MemOK(Now) /\ ServicesOK(Now, pool, restored, persisted) /\ stopped # "error"
      /\ relaunches \in Nat /\ image \in Images
  BY <1>1, RunningInv
<1>3. RegionsOK(Now, pool, persisted)
  BY <1>2 DEF ServicesOK
<1>4. /\ Len(s) \in Nat /\ DOMAIN s = 1 .. Len(s) /\ DOMAIN s = DOMAIN persisted
      /\ \A i \in DOMAIN persisted :
            /\ s[i].base = persisted[i].base /\ s[i].n = persisted[i].n
            /\ SnapshotOK(s[i], bytes)
  BY <1>2, <1>3, SnapshotsOK
<1> HIDE DEF s
<1>5. PICK c \in Nat :
         /\ KeepThrough(s) <= c
         /\ Fresh(Relaunched(s), c, image)
         /\ \A i \in DOMAIN s : InWindow(s[i].base) =>
               \A p \in Span(s[i].base - Window, s[i].n) :
                   p \in Page /\ p < c /\ Relaunched(s).bytes[p] = bytes[p]
  <2>1. \A i \in DOMAIN s : SnapshotOK(s[i], bytes)
    BY <1>4
  <2>2. Len(s) \in Nat /\ DOMAIN s = 1 .. Len(s) /\ CanLoad(KeepThrough(s)) /\ image \in Images
    BY <1>1, <1>2, <1>4
  <2> QED
    BY SMTT(30), <2>1, <2>2, RelaunchedOK
<1>6. k = Relaunched(s)
  BY DEF s
<1> HIDE DEF k
<1>7. ASSUME NEW i \in DOMAIN s, InWindow(s[i].base), NEW v \in Span(s[i].base, s[i].n)
      PROVE  v - Window \in Span(s[i].base - Window, s[i].n) /\ v - Window \in High
  <2> DEFINE b == s[i].base
             n == s[i].n
             p == b - Window
  <2>1. b \in Nat /\ n \in Nat \ {0} /\ Span(p, n) \subseteq High
    BY <1>4, <1>7 DEF SnapshotOK
  <2>2. p \in Nat /\ b = Window + p /\ Window \in Nat
    BY <1>7, AddressFacts, ConstantFacts
  <2> HIDE DEF p, n, b
  <2>3. v \in Nat /\ b <= v /\ v < b + n
    <3>1. v \in Span(b, n)
      BY <1>7 DEF b, n
    <3> QED
      BY <2>1, <3>1, SpanIn
  <2>4. v - Window \in Nat /\ p <= v - Window /\ v - Window < p + n
    BY SMT, <2>1, <2>2, <2>3
  <2>5. v - Window \in Span(p, n)
    BY <2>1, <2>2, <2>4, SpanIn
  <2> QED
    BY <2>1, <2>5 DEF p, n, b
<1>8. \A p \in restored' : p \in High /\ p < c
  <2>1. ASSUME NEW p \in restored' PROVE p \in High /\ p < c
    <3>1. PICK i \in DOMAIN s : InWindow(s[i].base) /\ \E v \in Span(s[i].base, s[i].n) : p = v - Window
      BY <1>1, <2>1
    <3>2. PICK v \in Span(s[i].base, s[i].n) : p = v - Window
      BY <3>1
    <3> QED
      BY <1>5, <1>7, <3>1, <3>2
  <2> QED
    BY <2>1
<1>9. MemoryInv'
  BY SMT, <1>1, <1>2, <1>5, <1>6, <1>8, FreshInv
<1>10. bytes'[table'[ImageBase].page] = image
  BY <1>1, <1>5, <1>6 DEF Fresh, Becomes
<1>11. ASSUME NEW i \in DOMAIN persisted, NEW v \in Span(persisted[i].base, persisted[i].n), InWindow(v)
       PROVE  bytes'[v - Window] = bytes[v - Window]
  <2>1. i \in DOMAIN s /\ v \in Span(s[i].base, s[i].n) /\ SnapshotOK(s[i], bytes)
    BY <1>4, <1>11
  <2>2. InWindow(s[i].base)
    <3>1. v \notin User
      BY <1>11, AddressFacts DEF Outside
    <3> QED
      BY <2>1, <3>1 DEF SnapshotOK
  <2>3. k.bytes[v - Window] = bytes[v - Window]
    BY <1>5, <1>6, <1>7, <2>1, <2>2
  <2> QED
    BY <1>1, <2>3 DEF Becomes
<1> QED
  BY <1>9, <1>10, <1>11

LEMMA RelaunchFailsInv ==
    ASSUME MemoryInv, RelaunchFails
    PROVE  MemoryInv'
<1>1. /\ Running /\ Becomes(Empty) /\ pool' = << >> /\ persisted' = << >> /\ cursor' = UserBase
      /\ stopped' = "error" /\ restored' = {} /\ UNCHANGED <<image, relaunches>>
  BY DEF RelaunchFails, FreshServices
<1>2. Now' = Empty
  BY <1>1 DEF Becomes, Now, Empty
<1>3. PoolZeroed'
  <2>1. \A p \in Page : bytes'[p] = Zeros
    BY <1>1 DEF Becomes, Empty
  <2> QED
    BY <2>1 DEF PoolZeroed
<1>4. relaunches' \in Nat /\ image' \in Images /\ cursor' \in Nat /\ cursor' >= UserBase
  BY SMT, <1>1, RunningInv, ConstantFacts
<1> QED
  BY <1>1, <1>2, <1>3, <1>4 DEF MemoryInv

LEMMA InitInv ==
    ASSUME Init
    PROVE  MemoryInv
<1>1. PICK img \in Images :
         LET m == Load(img, 0) IN
         /\ alloc = m.alloc /\ table = m.table /\ bytes = m.bytes /\ generation = m.generation
         /\ pool = << >> /\ persisted = << >> /\ cursor = UserBase
         /\ image = img /\ relaunches = 0 /\ stopped = "" /\ restored = {}
  BY DEF Init
<1> DEFINE m == Load(img, 0)
<1>2. CanLoad(0)
  BY SMT, ConstantFacts DEF CanLoad
<1>3. PICK c \in Nat : Fresh(m, c, img)
  BY <1>2, LoadOK
<1>4. /\ alloc = m.alloc /\ table = m.table /\ bytes = m.bytes /\ generation = m.generation
      /\ pool = << >> /\ persisted = << >> /\ cursor = UserBase
      /\ image = img /\ relaunches = 0 /\ stopped = "" /\ restored = {}
  BY <1>1
<1> HIDE DEF m
<1>5. MemOK(m) /\ m \in MemoryType /\ \A p \in Page : p \notin m.alloc.held => m.bytes[p] = Zeros
  BY <1>3 DEF Fresh, MemOK
<1>6. m = [alloc |-> m.alloc, table |-> m.table, bytes |-> m.bytes, generation |-> m.generation]
  BY <1>5 DEF MemoryType
<1>7. Now = m
  BY <1>4, <1>6 DEF Now
<1>8. {} \subseteq High /\ \A p \in {} : p < c
  OBVIOUS
<1>9. ServicesOK(m, << >>, {}, << >>)
  BY <1>3, <1>8, FreshServicesOK
<1>10. MemOK(Now) /\ ServicesOK(Now, pool, restored, persisted)
  BY <1>4, <1>5, <1>7, <1>9
<1>11. PoolZeroed
  BY <1>4, <1>5 DEF PoolZeroed
<1>12. image \in Images /\ stopped # "error"
  BY <1>4
<1>13. relaunches \in Nat /\ cursor \in Nat /\ cursor >= UserBase
  <2>1. relaunches = 0 /\ cursor = UserBase
    BY <1>4
  <2> QED
    BY SMT, <2>1, ConstantFacts
<1> QED
  BY <1>10, <1>11, <1>12, <1>13 DEF MemoryInv

LEMMA GuestStepInv ==
    ASSUME MemoryInv, GuestNext
    PROVE  MemoryInv'
<1>1. CASE \E v \in VirtualPage, n \in 1 .. MaxSize, x \in Values : GuestWrite(v, n, x)
  <2>1. PICK v \in VirtualPage, n \in 1 .. MaxSize, x \in Values : GuestWrite(v, n, x)
    BY <1>1
  <2> QED
    BY <2>1, GuestWriteInv
<1>2. CASE \E n \in 1 .. MaxSize : AllocateContiguous(n)
  BY <1>2, AllocateContiguousInv
<1>3. CASE \E p \in Page : FreeContiguous(p)
  BY <1>3, FreeContiguousInv
<1>4. CASE CreateThread
  BY <1>4, CreateThreadInv
<1>5. CASE \E n \in 1 .. MaxSize, commit \in BOOLEAN, perms \in {RW, RWX} : AllocateFresh(n, commit, perms)
  BY <1>5, AllocateFreshInv
<1>6. CASE \E v \in User, n \in 1 .. MaxSize, perms \in {RW, RWX} : AllocateAt(v, n, perms)
  BY <1>6, AllocateAtInv
<1>7. CASE \E base \in VirtualPage, n \in 1 .. MaxSize : MmPersistContiguousMemory(base, n)
  BY <1>7, PersistInv
<1>8. CASE SetLaunchDataPage \/ EndRun
  BY <1>8, OtherGuestInv
<1> QED
  BY <1>1, <1>2, <1>3, <1>4, <1>5, <1>6, <1>7, <1>8 DEF GuestNext

LEMMA StepInv ==
    ASSUME MemoryInv, [Next]_vars
    PROVE  MemoryInv'
<1>1. CASE GuestNext
  BY <1>1, GuestStepInv
<1>2. CASE BootNext
  BY <1>2, RelaunchInv, RelaunchFailsInv, HostLoadsInv DEF BootNext
<1>3. CASE UNCHANGED vars
  <2>1. UNCHANGED <<alloc, table, bytes, generation, pool, persisted, cursor, image, relaunches, stopped, dirty, restored>>
    BY <1>3 DEF vars, memory, services, session, histories
  <2>2. Now' = Now
    BY <2>1 DEF Now
  <2>3. PoolZeroed' = PoolZeroed
    BY <2>1 DEF PoolZeroed
  <2>4. MemOK(Now') = MemOK(Now) /\ ServicesOK(Now', pool', restored', persisted') = ServicesOK(Now, pool, restored, persisted)
    BY <2>1, <2>2
  <2> QED
    BY <2>1, <2>2, <2>3, <2>4 DEF MemoryInv
<1> QED
  BY <1>1, <1>2, <1>3 DEF Next

(* MemoryInv holds in every state.                                         *)
LEMMA MemoryInvariant == Spec => []MemoryInv
<1>1. Init => MemoryInv
  BY InitInv
<1>2. MemoryInv /\ [Next]_vars => MemoryInv'
  BY StepInv
<1> QED
  BY <1>1, <1>2, PTL DEF Spec

-----------------------------------------------------------------------------
LEMMA InvOwners ==
    ASSUME MemoryInv
    PROVE  OneOwner
<1>1. ASSUME stopped # "error", MemOK(Now), ServicesOK(Now, pool, restored, persisted)
      PROVE  OneOwner
  <2>1. BlocksOK(Now, pool) /\ RestoredOK(Now, pool, restored) /\ RegionsOK(Now, pool, persisted)
    BY <1>1 DEF ServicesOK
  <2>2. \A v \in Mapping : v \in Outside /\ Backed(Now, v) /\ Now.table[v] = table[v]
    <3>1. \A v \in VirtualPage : ~InWindow(v) => v \in Outside
      BY SMT, AddressFacts
    <3> QED
      BY <3>1, NowFields DEF Mapping, Backed
  <2>3. Now.alloc = alloc
    BY NowFields
  <2>4. \A v, w \in Mapping : v # w => table[v].page # table[w].page
    BY <1>1, <2>2 DEF MemOK, TableOK
  <2>5. \A v \in Mapping : table[v].page \in alloc.held /\ table[v].page \notin restored
    BY <1>1, <2>1, <2>2, <2>3 DEF MemOK, TableOK, RestoredOK
  <2>6. \A v \in Mapping : table[v].page \notin PoolPages
    BY <2>1, <2>2 DEF BlocksOK, PoolPages
  <2>7. \A p, q \in DOMAIN pool : p # q => Span(p, pool[p]) \cap Span(q, pool[q]) = {}
    BY <2>1 DEF BlocksOK
  <2>8. PoolPages \subseteq alloc.held /\ restored \cap PoolPages = {} /\ restored \subseteq alloc.held
    BY SMT, <2>1, <2>3 DEF BlocksOK, RestoredOK, PoolPages
  <2>9. ASSUME NEW i \in DOMAIN persisted, NEW v \in Span(persisted[i].base, persisted[i].n), InWindow(v)
        PROVE  v - Window \in alloc.held
    <3>1. CASE WindowRegion(Now, pool, persisted[i])
      <4> DEFINE b == persisted[i].base
                 n == persisted[i].n
                 p == b - Window
      <4>1. persisted[i] \in Region
        BY <2>1, SeqFacts DEF RegionsOK
      <4>2. b \in Nat /\ n \in Nat /\ p \in Nat /\ Window \in Nat /\ b = Window + p
        BY <3>1, <4>1, AddressFacts, ConstantFacts DEF Region, WindowRegion
      <4>3. Span(p, n) \subseteq alloc.held
        BY <2>3, <3>1 DEF WindowRegion, PagesOf
      <4>4. v \in Span(b, n)
        BY <2>9
      <4> HIDE DEF b, n, p
      <4>5. v \in Nat /\ b <= v /\ v < b + n
        BY <4>2, <4>4, SpanIn
      <4>6. v - Window \in Nat /\ p <= v - Window /\ v - Window < p + n
        BY SMT, <4>2, <4>5
      <4>7. v - Window \in Span(p, n)
        BY <4>2, <4>6, SpanIn
      <4> QED
        BY <4>3, <4>7
    <3>2. CASE UserRegion(Now, persisted[i])
      BY <2>9, <3>2, AddressFacts DEF UserRegion, Outside
    <3> QED
      BY <2>1, <3>1, <3>2 DEF RegionsOK
  <2>10. PoolPartition
    BY <1>1, <2>3, AllocPartitions DEF MemOK
  <2> DEFINE mapped == {table[v].page : v \in Mapping}
  <2>11. /\ mapped \cap PoolPages = {} /\ restored \cap (mapped \cup PoolPages) = {}
         /\ mapped \cup PoolPages \cup restored \subseteq alloc.held
    BY <2>5, <2>6, <2>8
  <2> QED
    BY <2>4, <2>7, <2>9, <2>10, <2>11 DEF OneOwner
<1>2. ASSUME Now = Empty, pool = << >>, persisted = << >>, restored = {}
      PROVE  OneOwner
  <2>1. alloc = NewAllocator /\ table = [v \in VirtualPage |-> Unmapped]
    <3>1. Empty.alloc = NewAllocator /\ Empty.table = [v \in VirtualPage |-> Unmapped]
      BY DEF Empty
    <3> QED
      BY <1>2, <3>1, NowFields
  <2>2. Mapping = {}
    BY <2>1 DEF Mapping
  <2>3. DOMAIN pool = {} /\ DOMAIN persisted = {}
    BY SMT, <1>2
  <2>4. PoolPages = {}
    BY <2>3 DEF PoolPages
  <2>5. PoolPartition
    <3>1. 0 .. 0 - 1 = {}
      BY SMT
    <3>2. AllocOK([next |-> 0, runs |-> << >>, held |-> 0 .. 0 - 1])
      BY SMT, PlainOK, ConstantFacts
    <3>3. AllocOK(alloc)
      BY <2>1, <3>1, <3>2 DEF NewAllocator
    <3> QED
      BY <3>3, AllocPartitions
  <2> QED
    BY <1>2, <2>2, <2>3, <2>4, <2>5 DEF OneOwner
<1> QED
  BY <1>1, <1>2 DEF MemoryInv

(* Every page has one owner: software.rs and the kernel services never     *)
(* hand a page to two of the pool's blocks, the image, user memory and     *)
(* what a relaunch restored, and never take back one that is persisted.    *)
THEOREM PagesHaveOneOwner == Spec => []OneOwner
<1>1. MemoryInv => OneOwner
  BY InvOwners
<1> QED
  BY <1>1, MemoryInvariant, PTL

(* What can be handed out is zeroed, unless the guest wrote to it through  *)
(* the window while nobody held it.                                        *)
THEOREM PoolStaysZeroed == Spec => []PoolZeroed
<1>1. MemoryInv => PoolZeroed
  BY DEF MemoryInv
<1> QED
  BY <1>1, MemoryInvariant, PTL

LEMMA RelaunchCounts ==
    ASSUME MemoryInv, [Next]_vars, relaunches' > relaunches
    PROVE  Relaunch
<1>1. relaunches \in Nat
  BY DEF MemoryInv
<1>2. relaunches' # relaunches /\ ~(relaunches' = 0)
  BY SMT, <1>1
<1>3. ASSUME GuestNext PROVE relaunches' = relaunches
  BY <1>3 DEF GuestNext, GuestWrite, AllocateContiguous, FreeContiguous, CreateThread, AllocateFresh,
              AllocateAt, MmPersistContiguousMemory, SetLaunchDataPage, EndRun, session
<1>4. ASSUME UNCHANGED vars PROVE relaunches' = relaunches
  BY <1>4 DEF vars, session
<1>5. ASSUME RelaunchFails PROVE relaunches' = relaunches
  BY <1>5 DEF RelaunchFails
<1>6. ASSUME NEW img \in Images, HostLoads(img) PROVE relaunches' = 0
  BY <1>6 DEF HostLoads
<1> QED
  BY <1>2, <1>3, <1>4, <1>5, <1>6 DEF Next, BootNext

(* A soft reboot restarts the image intact and brings back every persisted *)
(* byte of the window at its address, however many regions there are and   *)
(* in whatever order they are put back.                                    *)
THEOREM RelaunchKeepsRegions == Spec => RelaunchIntact
<1>1. MemoryInv /\ [Next]_vars =>
         [relaunches' > relaunches =>
            /\ bytes'[table'[ImageBase].page] = image
            /\ \A i \in DOMAIN persisted :
                   \A v \in Span(persisted[i].base, persisted[i].n) :
                       InWindow(v) => bytes'[v - Window] = bytes[v - Window]]_vars
  BY RelaunchCounts, RelaunchInv
<1> QED
  BY <1>1, MemoryInvariant, PTL DEF Spec, RelaunchIntact
=============================================================================
