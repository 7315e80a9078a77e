---------------------------- MODULE KernelProofs ----------------------------
(***************************************************************************)
(* Theorems about the kernel a title calls: the critical section its       *)
(* threads take has one owner, and its files, handles and shared pages are *)
(* kept in order, for any number of threads, files and pages.              *)
(***************************************************************************)
EXTENDS CriticalSection, KernelObjects, KernelExports, FiniteSetTheorems, TLAPS

(* The prover of the steps that name none.                                 *)
USE ZenonT(20)

-----------------------------------------------------------------------------
(* The critical section *)

(* LockCount decides who takes the section, so the inductive invariant has *)
(* to account for it exactly, and to tie the guest fields to what threads  *)
(* believe: only the owner is inside, and nobody parked is the owner.      *)
SectionInv ==
    /\ SectionTypeOK
    /\ lock_count = recursion_count + Cardinality(parked) - 1
    /\ owning_thread = NoThread <=> recursion_count = 0
    /\ \A t \in SectionThread :
          inside[t] = IF t = owning_thread THEN recursion_count ELSE 0
    /\ owning_thread \notin parked
    /\ parked # {} => owning_thread # NoThread

LEMMA ParkedFinite ==
    ASSUME NEW S \in SUBSET SectionThread
    PROVE  /\ IsFiniteSet(S)
           /\ Cardinality(S) \in Nat
           /\ Cardinality(S) = 0 <=> S = {}
           /\ \A t \in SectionThread \ S : Cardinality(S \cup {t}) = Cardinality(S) + 1
           /\ \A t \in S : Cardinality(S \ {t}) = Cardinality(S) - 1
<1>1. IsFiniteSet(S)
  BY ThreadAssumption, FS_Subset
<1> QED
  BY <1>1, FS_CardinalityType, FS_EmptySet, FS_AddElement, FS_RemoveElement

LEMMA SectionInit == RtlInitializeCriticalSection => SectionInv
<1> SUFFICES ASSUME RtlInitializeCriticalSection PROVE SectionInv
  OBVIOUS
<1>1. Cardinality({}) = 0
  BY FS_EmptySet
<1> QED
  BY SMT, <1>1, ThreadAssumption
     DEF RtlInitializeCriticalSection, SectionInv, SectionTypeOK, Unowned, NoThread

(* An enter is one of three abstract steps, and keeps the invariant.       *)
LEMMA EnterStep ==
    ASSUME SectionInv, NEW t \in SectionThread, RtlEnterCriticalSection(t)
    PROVE  SectionInv' /\ Handoff!Next
<1> DEFINE n == Cardinality(parked)
<1>0. /\ n \in Nat /\ (n = 0 <=> parked = {}) /\ t \notin parked
      /\ Cardinality(parked \cup {t}) = n + 1
  BY ParkedFinite DEF SectionInv, SectionTypeOK, RtlEnterCriticalSection
<1>1. NoThread \notin SectionThread /\ t # NoThread
  BY SMT, ThreadAssumption DEF NoThread
<1>2. CASE lock_count + 1 = 0
  <2>1. recursion_count = 0 /\ parked = {} /\ owning_thread = NoThread /\ n = 0
    BY SMT, <1>0, <1>2 DEF SectionInv, SectionTypeOK
  <2>2. /\ owning_thread' = t /\ recursion_count' = 1 /\ parked' = parked
        /\ lock_count' = lock_count + 1 /\ inside' = [inside EXCEPT ![t] = @ + 1]
    BY <1>1, <1>2, <2>1 DEF RtlEnterCriticalSection
  <2>3. \A u \in SectionThread : inside'[u] = IF u = t THEN 1 ELSE 0
    BY SMT, <1>1, <2>1, <2>2 DEF SectionInv, SectionTypeOK
  <2>4. inside' \in [SectionThread -> Nat]
    BY SMT, <2>2, <2>3 DEF SectionInv, SectionTypeOK
  <2>5. Cardinality(parked') = 0 /\ lock_count' = 0
    BY <1>2, <2>1, <2>2
  <2>6. SectionInv'
    <3>1. SectionTypeOK'
      BY SMT, <2>1, <2>2, <2>4, <2>5 DEF SectionTypeOK
    <3>2. lock_count' = recursion_count' + Cardinality(parked') - 1
      BY SMT, <2>2, <2>5
    <3> QED
      BY SMT, <1>1, <2>1, <2>2, <2>3, <3>1, <3>2 DEF SectionInv
  <2> QED
    BY <1>0, <2>1, <2>2, <2>6 DEF Handoff!Next, Handoff!Acquire
<1>3. CASE lock_count + 1 # 0 /\ owning_thread = t
  <2>1. /\ recursion_count' = recursion_count + 1 /\ UNCHANGED <<owning_thread, parked>>
        /\ lock_count' = lock_count + 1 /\ inside' = [inside EXCEPT ![t] = @ + 1]
    BY <1>3 DEF RtlEnterCriticalSection
  <2>2. SectionInv'
    BY SMT, <1>0, <1>1, <1>3, <2>1 DEF SectionInv, SectionTypeOK
  <2> QED
    BY <1>0, <1>3, <2>1, <2>2 DEF Handoff!Next, Handoff!Reenter
<1>4. CASE lock_count + 1 # 0 /\ owning_thread # t
  <2>1. owning_thread # NoThread
    BY SMT, <1>0, <1>4 DEF SectionInv, SectionTypeOK
  <2>2. /\ parked' = parked \cup {t} /\ lock_count' = lock_count + 1
        /\ UNCHANGED <<recursion_count, owning_thread, inside>>
    BY <1>4 DEF RtlEnterCriticalSection
  <2>3. SectionInv'
    BY SMT, <1>0, <1>4, <2>1, <2>2 DEF SectionInv, SectionTypeOK
  <2> QED
    BY <1>0, <1>4, <2>1, <2>2, <2>3 DEF Handoff!Next, Handoff!Block
<1> QED
  BY <1>2, <1>3, <1>4

(* A leave is an unnest, a release or a handoff, and keeps the invariant.  *)
LEMMA LeaveStep ==
    ASSUME SectionInv, NEW t \in SectionThread, RtlLeaveCriticalSection(t)
    PROVE  SectionInv' /\ Handoff!Next
<1> DEFINE n == Cardinality(parked)
           recursion == IF recursion_count > 0 THEN recursion_count - 1 ELSE 0
           after == [inside EXCEPT ![t] = @ - 1]
<1>0. n \in Nat /\ (n = 0 <=> parked = {})
  BY ParkedFinite DEF SectionInv, SectionTypeOK
<1>1. NoThread \notin SectionThread /\ t # NoThread
  BY SMT, ThreadAssumption DEF NoThread
<1>2. /\ owning_thread = t /\ recursion_count > 0 /\ t \notin parked
      /\ inside[t] = recursion_count /\ lock_count' = lock_count - 1
      /\ recursion = recursion_count - 1
  BY SMT DEF RtlLeaveCriticalSection, SectionInv, SectionTypeOK
<1>3. CASE recursion # 0
  <2>1. /\ recursion_count' = recursion_count - 1 /\ inside' = after
        /\ UNCHANGED <<owning_thread, parked>>
    BY <1>2, <1>3 DEF RtlLeaveCriticalSection
  <2>2. SectionInv'
    BY SMT, <1>0, <1>1, <1>2, <1>3, <2>1 DEF SectionInv, SectionTypeOK
  <2> QED
    BY SMT, <1>2, <1>3, <2>1, <2>2 DEF Handoff!Next, Handoff!Unnest, SectionInv, SectionTypeOK
<1>4. ASSUME recursion = 0, NEW w \in SectionThread, TransferSectionWake(w, after)
      PROVE  SectionInv' /\ Handoff!Next
  <2>1. /\ w \in parked /\ owning_thread' = w /\ recursion_count' = 1
        /\ parked' = parked \ {w} /\ inside' = [after EXCEPT ![w] = @ + 1]
    BY <1>4 DEF TransferSectionWake
  <2>2. Cardinality(parked') = n - 1 /\ w # t
    BY <1>2, <2>1, ParkedFinite DEF SectionInv, SectionTypeOK
  <2>3. \A u \in SectionThread : inside'[u] = IF u = w THEN 1 ELSE 0
    BY SMT, <1>1, <1>2, <1>4, <2>1, <2>2 DEF SectionInv, SectionTypeOK
  <2>4. inside' \in [SectionThread -> Nat]
    BY SMT, <2>1, <2>3 DEF SectionInv, SectionTypeOK
  <2>5. SectionInv'
    BY SMT, <1>0, <1>1, <1>2, <1>4, <2>1, <2>2, <2>3, <2>4 DEF SectionInv, SectionTypeOK
  <2> QED
    BY SMT, <1>2, <1>4, <2>1, <2>5 DEF Handoff!Next, Handoff!Handoff, SectionInv, SectionTypeOK
<1>5. CASE /\ recursion = 0
           /\ lock_count - 1 = Unowned \/ parked = {}
           /\ owning_thread' = NoThread /\ recursion_count' = 0
           /\ inside' = after /\ parked' = parked
  <2>1. parked = {} /\ recursion_count = 1 /\ n = 0
    BY SMT, <1>0, <1>2, <1>5 DEF SectionInv, SectionTypeOK, Unowned
  <2>2. SectionInv'
    BY SMT, <1>1, <1>2, <1>5, <2>1 DEF SectionInv, SectionTypeOK
  <2> QED
    BY <1>2, <1>5, <2>1, <2>2 DEF Handoff!Next, Handoff!Release
<1> QED
  BY <1>3, <1>4, <1>5 DEF RtlLeaveCriticalSection

LEMMA SectionStep ==
    SectionInv /\ [SectionNext]_sectionVars => SectionInv' /\ [Handoff!Next]_(Handoff!lockVars)
<1>1. ASSUME SectionInv, UNCHANGED sectionVars
      PROVE  SectionInv' /\ UNCHANGED Handoff!lockVars
  BY <1>1 DEF sectionVars, SectionInv, SectionTypeOK, Handoff!lockVars
<1> QED
  BY <1>1, EnterStep, LeaveStep DEF SectionNext

(* No two threads are ever inside one section, for any number of threads.  *)
THEOREM SectionExclusive == SectionSpec => []MutualExclusion
<1>1. SectionInv => MutualExclusion
  BY SMT DEF SectionInv, SectionTypeOK, MutualExclusion
<1> QED
  BY <1>1, SectionInit, SectionStep, PTL DEF SectionSpec

(* LockCount, RecursionCount and OwningThread always agree with the thread *)
(* inside and the threads parked.                                          *)
THEOREM SectionAccounts == SectionSpec => [](LockCountAccounts /\ NeverFreeWithWaiters)
<1>1. SectionInv => LockCountAccounts /\ NeverFreeWithWaiters
  BY DEF SectionInv, SectionTypeOK, LockCountAccounts, NeverFreeWithWaiters
<1> QED
  BY <1>1, SectionInit, SectionStep, PTL DEF SectionSpec

(* The guest fields and the wake implement the abstract handoff lock.      *)
THEOREM SectionRefinesHandoff == SectionSpec => ImplementsHandoff
<1>1. RtlInitializeCriticalSection => Handoff!Init
  BY DEF RtlInitializeCriticalSection, Handoff!Init
<1> QED
  BY <1>1, SectionInit, SectionStep, PTL DEF SectionSpec, ImplementsHandoff, Handoff!Spec

-----------------------------------------------------------------------------
(* Files *)

(* Only the hard disk is mounted writable (mount_for).                     *)
LEMMA WritableOnDisk ==
    ASSUME NEW p, Locate(p).writable
    PROVE  Locate(p).path.root = "hdd"
<1> DEFINE m == MountFor(ApplyLinks(p))
<1>1. m.writable => m.root = "hdd"
  BY DEF MountFor
<1> QED
  BY <1>1 DEF Locate, Nowhere, HostPath

(* A handle that may write is of a file on the hard disk.                  *)
WritersOnDisk == \A h \in DOMAIN files : files[h].writes => files[h].path.root = "hdd"

(* A directory made on the way to a path is on the same disk.              *)
LEMMA ParentsOnDisk ==
    ASSUME NEW path, path.root = "hdd"
    PROVE  OnDisc(WithParents(path)) = OnDisc(host)
<1>1. \A a \in Ancestors(path) : a.root = "hdd"
  BY SMT DEF Ancestors, HostPath
<1> QED
  BY <1>1 DEF OnDisc, WithParents

LEMMA WithOnDisk ==
    ASSUME NEW tree, NEW path, path.root = "hdd", NEW v
    PROVE  OnDisc(With(tree, path, v)) = OnDisc(tree)
BY DEF OnDisc, With

(* The host tree, and the entries of the handle table: an open file stays. *)
Entry == [path : DOMAIN host, isFile : BOOLEAN, position : Nat, writes : BOOLEAN]
FileTypeOK ==
    /\ \A p \in DOMAIN host : host[p] \in Seq(Int)
    /\ files = [h \in DOMAIN files |-> files[h]] /\ \A h \in DOMAIN files : files[h] \in Entry

FileInv == FileTypeOK /\ WritersOnDisk

LEMMA OpenStep ==
    ASSUME NEW call, NEW p, NEW write \in BOOLEAN, NEW create \in BOOLEAN, NEW directory \in BOOLEAN,
           OpenObject(call, p, write, create, directory), FileInv
    PROVE  OnDisc(host') = OnDisc(host) /\ FileInv'
<1> DEFINE at == Locate(p)
           new(isFile, w) == [path |-> at.path, isFile |-> isFile, position |-> 0, writes |-> w]
<1>1. (at.writable => at.path.root = "hdd") /\ (at.exists => at.path \in DOMAIN host)
  BY WritableOnDisk DEF Locate, Nowhere
<1> HIDE DEF at
<1>2. CASE UNCHANGED <<host, files>>
  BY <1>2 DEF FileInv, FileTypeOK, WritersOnDisk, Entry
<1>3. ASSUME NEW isFile \in BOOLEAN, NEW w \in BOOLEAN, w => at.writable, Handed(nextHandle, new(isFile, w)),
             at.path \in DOMAIN host', DOMAIN host \subseteq DOMAIN host'
      PROVE  /\ files' = [h \in DOMAIN files' |-> files'[h]] /\ \A h \in DOMAIN files' : files'[h] \in Entry'
             /\ WritersOnDisk'
  <2>1. new(isFile, w) \in Entry' /\ (w => at.path.root = "hdd")
    BY <1>1, <1>3 DEF Entry
  <2>2. \A e \in Entry : e \in Entry'
    BY <1>3 DEF Entry
  <2> HIDE DEF new
  <2>3. files' = With(files, nextHandle, new(isFile, w))
    BY <1>3 DEF Handed
  <2>4. files' = [h \in DOMAIN files' |-> files'[h]] /\ \A h \in DOMAIN files' : files'[h] \in Entry'
    BY <2>1, <2>2, <2>3 DEF With, FileInv, FileTypeOK
  <2>5. WritersOnDisk'
    BY <2>1, <2>3 DEF With, FileInv, WritersOnDisk, new
  <2> QED
    BY <2>4, <2>5
<1>4. CASE /\ at.exists /\ (write => at.writable) /\ UNCHANGED host
           /\ Handed(nextHandle, new(IsFile(host, at.path), write /\ IsFile(host, at.path)))
  <2>1. IsFile(host, at.path) \in BOOLEAN
    BY DEF IsFile
  <2> QED
    BY <1>1, <1>3, <1>4, <2>1 DEF FileInv, FileTypeOK
<1>5. CASE /\ at.writable /\ Handed(nextHandle, new(~directory, ~directory))
           /\ host' = With(WithParents(at.path), at.path, IF directory THEN Directory ELSE <<>>)
  <2>1. OnDisc(host') = OnDisc(host)
    BY SMT, <1>1, <1>5, ParentsOnDisk, WithOnDisk
  <2>2. Directory \in Seq(Int) /\ <<>> \in Seq(Int)
    BY SMT DEF Directory
  <2>3. /\ at.path \in DOMAIN host' /\ DOMAIN host \subseteq DOMAIN host'
        /\ \A q \in DOMAIN host' : host'[q] \in Seq(Int)
    BY <1>5, <2>2 DEF With, WithParents, FileInv, FileTypeOK
  <2> QED
    BY <1>3, <1>5, <2>1, <2>3 DEF FileInv, FileTypeOK
<1> QED
  BY <1>2, <1>4, <1>5 DEF OpenObject, Refused, at

(* What a file holds after it is resized, and after a write into it.       *)
LEMMA ResizedFacts ==
    ASSUME NEW b \in Seq(Int), NEW n \in Nat
    PROVE  /\ Resized(b, n) \in Seq(Int) /\ Len(Resized(b, n)) = n
           /\ \A k \in 1 .. n : Resized(b, n)[k] = ByteAt(b, k)
<1> DEFINE z == Bytes0(n)
<1>1. z \in Seq(Int) /\ Len(z) = n /\ \A k \in 1 .. n : z[k] = 0
  BY SMT DEF Bytes0
<1> HIDE DEF z
<1>2. /\ b \o z \in Seq(Int) /\ Len(b \o z) = Len(b) + n
      /\ \A k \in 1 .. n : (b \o z)[k] = ByteAt(b, k)
  BY SMT, <1>1 DEF ByteAt
<1> DEFINE c == b \o z
<1> HIDE DEF c
<1>3. c \in Seq(Int) /\ n <= Len(c) /\ \A k \in 1 .. n : c[k] = ByteAt(b, k)
  BY SMT, <1>2 DEF c
<1>4. SubSeq(c, 1, n) \in Seq(Int) /\ Len(SubSeq(c, 1, n)) = n /\ \A k \in 1 .. n : SubSeq(c, 1, n)[k] = c[k]
  BY SMT, <1>3
<1> QED
  BY <1>3, <1>4 DEF Resized, z, c

LEMMA OverlaidFacts ==
    ASSUME NEW b \in Seq(Int), NEW start \in Nat, NEW new \in Seq(Int)
    PROVE  LET o == Overlaid(b, start, new)
           IN  /\ o \in Seq(Int) /\ Len(o) >= Len(b) /\ Len(o) >= start + Len(new)
               /\ \A k \in Nat \ {0} : k \notin start + 1 .. start + Len(new) => ByteAt(o, k) = ByteAt(b, k)
<1> DEFINE n == start + Len(new)
           base == IF Len(b) < n THEN Resized(b, n) ELSE b
           o == Overlaid(b, start, new)
<1>1. n \in Nat
  BY SMT
<1>2. /\ base \in Seq(Int) /\ Len(base) >= Len(b) /\ Len(base) >= n
      /\ \A k \in 1 .. Len(base) : base[k] = ByteAt(b, k)
      /\ \A k \in Nat \ {0} : k > Len(base) => k > Len(b)
  <2>1. CASE Len(b) < n
    <3> DEFINE r == Resized(b, n)
    <3>1. r \in Seq(Int) /\ Len(r) = n /\ \A k \in 1 .. n : r[k] = ByteAt(b, k)
      BY <1>1, ResizedFacts
    <3>2. base = r
      BY <2>1
    <3> HIDE DEF r, base
    <3> QED
      BY SMT, <1>1, <2>1, <3>1, <3>2
  <2>2. CASE ~(Len(b) < n)
    BY SMT, <1>1, <2>2 DEF ByteAt
  <2> QED
    BY <2>1, <2>2
<1>3. o = [k \in DOMAIN base |-> IF k - start \in DOMAIN new THEN new[k - start] ELSE base[k]]
  BY DEF Overlaid
<1> HIDE DEF base, o
<1>4. o = [k \in 1 .. Len(base) |-> IF k - start \in 1 .. Len(new) THEN new[k - start] ELSE base[k]]
  <2>1. DOMAIN base = 1 .. Len(base) /\ DOMAIN new = 1 .. Len(new)
    BY SMT, <1>2
  <2> QED
    BY <1>3, <2>1
<1>5. \A k \in 1 .. Len(base) : (IF k - start \in 1 .. Len(new) THEN new[k - start] ELSE base[k]) \in Int
  BY SMT, <1>2
<1>6. o \in Seq(Int) /\ Len(o) = Len(base)
  BY SMT, <1>2, <1>4, <1>5
<1>7. ASSUME NEW k \in Nat \ {0}, k \notin start + 1 .. start + Len(new)
      PROVE  ByteAt(o, k) = ByteAt(b, k)
  <2>1. k - start \notin 1 .. Len(new)
    BY SMT, <1>7
  <2> QED
    BY SMT, <1>2, <1>4, <1>6, <2>1 DEF ByteAt
<1> QED
  BY <1>1, <1>2, <1>6, <1>7 DEF o

(* Calls that move a handle's pointer and leave the host files alone.      *)
LEMMA PointerStep ==
    ASSUME NEW h \in DOMAIN files, NEW n \in Nat, files' = [files EXCEPT ![h].position = n], FileInv
    PROVE  /\ files' = [g \in DOMAIN files' |-> files'[g]] /\ DOMAIN files' = DOMAIN files
           /\ \A g \in DOMAIN files : files'[g] \in Entry
           /\ \A g \in DOMAIN files : files'[g].path = files[g].path /\ files'[g].writes = files[g].writes
           /\ \A g \in DOMAIN files \ {h} : files'[g] = files[g]
           /\ files'[h].position = n
BY DEF FileInv, FileTypeOK, Entry

LEMMA ReadStep ==
    ASSUME NEW h, NEW offset \in Offsets, NEW n \in {0, 2}, NtReadFile(h, offset, n), FileInv
    PROVE  UNCHANGED host /\ FileInv'
<1>1. CASE UNCHANGED files /\ UNCHANGED host
  BY <1>1 DEF FileInv, FileTypeOK, WritersOnDisk, Entry
<1>2. CASE h \in DOMAIN files /\ files[h].isFile
  <2> DEFINE bytes == host[files[h].path]
             start == StartOf(h, offset)
             data == Available(bytes, start, n)
  <2>1. start \in Nat /\ bytes \in Seq(Int)
    BY SMT, <1>2 DEF StartOf, Offsets, NoOffset, FileInv, FileTypeOK, Entry
  <2>2. Len(data) \in Nat
    BY SMT, <2>1 DEF Available
  <2>3. UNCHANGED host /\ files' = [files EXCEPT ![h].position = start + Len(data)]
    BY <1>2 DEF NtReadFile
  <2> HIDE DEF data, start
  <2>4. start + Len(data) \in Nat
    BY SMT, <2>1, <2>2
  <2>5. /\ files' = [g \in DOMAIN files' |-> files'[g]] /\ DOMAIN files' = DOMAIN files
        /\ \A g \in DOMAIN files : files'[g] \in Entry
        /\ \A g \in DOMAIN files : files'[g].path = files[g].path /\ files'[g].writes = files[g].writes
    BY <1>2, <2>3, <2>4, PointerStep
  <2>6. Entry' = Entry
    BY <2>3 DEF Entry
  <2> QED
    BY SMT, <2>3, <2>5, <2>6 DEF FileInv, FileTypeOK, WritersOnDisk
<1> QED
  BY <1>1, <1>2 DEF NtReadFile, Refused

LEMMA WriteStep ==
    ASSUME NEW h, NEW offset \in Offsets, NEW bytes \in Contents, NEW readable \in BOOLEAN,
           NtWriteFile(h, offset, bytes, readable), FileInv
    PROVE  OnDisc(host') = OnDisc(host) /\ FileInv' /\ WriteInRange
<1>1. CASE UNCHANGED files /\ UNCHANGED host /\ io'.status # "success"
  BY <1>1 DEF FileInv, FileTypeOK, WritersOnDisk, Entry, WriteInRange
<1>2. CASE h \in DOMAIN files /\ files[h].isFile /\ (files[h].writes \/ bytes = <<>>) /\ io'.status = "success"
  <2> DEFINE start == StartOf(h, offset)
             p == files[h].path
             o == Overlaid(host[p], start, bytes)
  <2>1. start \in Nat /\ bytes \in Seq(Int) /\ p \in DOMAIN host /\ host[p] \in Seq(Int)
    <3>1. bytes \in Seq(Int)
      <4>1. <<>> \in Seq(Int) /\ <<1, 2>> \in Seq(Int)
        BY SMT
      <4> QED
        BY <4>1 DEF Contents
    <3> QED
      BY SMT, <1>2, <3>1 DEF StartOf, Offsets, NoOffset, FileInv, FileTypeOK, Entry
  <2>2. /\ files' = [files EXCEPT ![h].position = start + Len(bytes)] /\ io'.info = Len(bytes)
        /\ host' = IF bytes = <<>> THEN host ELSE [host EXCEPT ![p] = o]
    BY SMT, <1>2 DEF NtWriteFile, MovedBy, Answer, Refused
  <2>3. /\ o \in Seq(Int) /\ Len(o) >= Len(host[p]) /\ Len(o) >= start + Len(bytes)
        /\ \A k \in Nat \ {0} : k \notin start + 1 .. start + Len(bytes) => ByteAt(o, k) = ByteAt(host[p], k)
    BY <2>1, OverlaidFacts
  <2> HIDE DEF start, p, o
  <2>4. start + Len(bytes) \in Nat /\ Len(bytes) \in Nat /\ (bytes # <<>> <=> Len(bytes) # 0)
    BY SMT, <2>1
  <2>5. /\ files' = [g \in DOMAIN files' |-> files'[g]] /\ DOMAIN files' = DOMAIN files
        /\ \A g \in DOMAIN files : files'[g] \in Entry
        /\ \A g \in DOMAIN files : files'[g].path = files[g].path /\ files'[g].writes = files[g].writes
        /\ \A g \in DOMAIN files \ {h} : files'[g] = files[g]
        /\ files'[h].position = start + Len(bytes)
    BY <1>2, <2>2, <2>4, PointerStep
  <2>6. /\ DOMAIN host' = DOMAIN host
        /\ \A q \in DOMAIN host : q # p => host'[q] = host[q]
        /\ host'[p] = IF bytes = <<>> THEN host[p] ELSE o
    BY <2>1, <2>2 DEF FileInv, FileTypeOK
  <2>7. FileInv'
    <3>1. Entry' = Entry
      BY <2>6 DEF Entry
    <3>2. \A q \in DOMAIN host' : host'[q] \in Seq(Int)
      BY <2>1, <2>3, <2>6 DEF FileInv, FileTypeOK
    <3> QED
      BY <2>5, <3>1, <3>2 DEF FileInv, FileTypeOK, WritersOnDisk
  <2>8. bytes # <<>> => p.root = "hdd"
    BY <1>2 DEF p, FileInv, WritersOnDisk
  <2>9. OnDisc(host') = OnDisc(host)
    BY <2>1, <2>2, <2>6, <2>8 DEF OnDisc
  <2>10. ASSUME bytes # <<>> PROVE WriteInRange
    <3>1. /\ files[h].writes /\ files'[h].position = start + Len(bytes) /\ io'.info = Len(bytes)
          /\ host'[p] = o /\ \A q \in DOMAIN host \ {p} : host'[q] = host[q]
      BY <1>2, <2>2, <2>5, <2>6, <2>10
    <3>2. files'[h].position <= Len(host'[p]) /\ Len(host'[p]) >= Len(host[p])
      BY <2>3, <2>4, <3>1
    <3>3. ASSUME NEW k \in 1 .. MaxSize, k \notin files'[h].position - io'.info + 1 .. files'[h].position
          PROVE  ByteAt(host'[p], k) = ByteAt(host[p], k)
      <4>1. k \in Nat \ {0} /\ k \notin start + 1 .. start + Len(bytes)
        BY SMT, <2>1, <2>4, <3>1, <3>3
      <4> QED
        BY <2>3, <3>1, <4>1
    <3> QED
      BY <1>2, <2>5, <3>1, <3>2, <3>3 DEF WriteInRange, p
  <2>11. ASSUME bytes = <<>> PROVE WriteInRange
    <3>1. io'.info = 0
      BY <2>2, <2>4, <2>11
    <3> QED
      BY <3>1 DEF WriteInRange
  <2> QED
    BY <2>7, <2>9, <2>10, <2>11
<1> QED
  BY SMT, <1>1, <1>2 DEF NtWriteFile, Refused, Answer

LEMMA InformationStep ==
    ASSUME NEW h, NEW class, NEW value \in 0 .. 1, NEW long \in BOOLEAN,
           NtSetInformationFile(h, class, value, long), FileInv
    PROVE  OnDisc(host') = OnDisc(host) /\ FileInv'
<1>1. CASE UNCHANGED files /\ UNCHANGED host
  BY <1>1 DEF FileInv, FileTypeOK, WritersOnDisk, Entry
<1>2. CASE h \in DOMAIN files /\ files' = [files EXCEPT ![h].position = value] /\ UNCHANGED host
  <2>1. value \in Nat
    BY SMT
  <2>2. /\ files' = [g \in DOMAIN files' |-> files'[g]] /\ DOMAIN files' = DOMAIN files
        /\ \A g \in DOMAIN files : files'[g] \in Entry
        /\ \A g \in DOMAIN files : files'[g].path = files[g].path /\ files'[g].writes = files[g].writes
    BY <1>2, <2>1, PointerStep
  <2>3. Entry' = Entry
    BY <1>2 DEF Entry
  <2> QED
    BY SMT, <1>2, <2>2, <2>3 DEF FileInv, FileTypeOK, WritersOnDisk
<1>3. CASE /\ h \in DOMAIN files /\ files[h].writes /\ UNCHANGED files
           /\ host' = [host EXCEPT ![files[h].path] = Resized(@, value)]
  <2> DEFINE p == files[h].path
             r == Resized(host[p], value)
  <2>1. p \in DOMAIN host /\ host[p] \in Seq(Int) /\ p.root = "hdd"
    BY <1>3 DEF FileInv, FileTypeOK, WritersOnDisk, Entry
  <2>2. r \in Seq(Int)
    BY SMT, <2>1, ResizedFacts
  <2>3. host' = [host EXCEPT ![p] = r]
    BY <1>3
  <2> HIDE DEF p, r
  <2>4. DOMAIN host' = DOMAIN host /\ \A q \in DOMAIN host' : host'[q] \in Seq(Int)
    BY <2>1, <2>2, <2>3 DEF FileInv, FileTypeOK
  <2>5. OnDisc(host') = OnDisc(host)
    BY <2>1, <2>3 DEF OnDisc
  <2>6. Entry' = Entry
    BY <2>4 DEF Entry
  <2> QED
    BY <1>3, <2>4, <2>5, <2>6 DEF FileInv, FileTypeOK, WritersOnDisk
<1> QED
  BY <1>1, <1>2, <1>3 DEF NtSetInformationFile, Refused

LEMMA FileStep ==
    ASSUME FileInv, FileNext
    PROVE  OnDisc(host') = OnDisc(host) /\ FileInv' /\ WriteInRange
<1>1. CASE UNCHANGED <<host, files>> /\ io'.call # "NtWriteFile"
  BY <1>1 DEF FileInv, FileTypeOK, WritersOnDisk, Entry, WriteInRange
<1>2. ASSUME NEW p \in Paths, NEW write \in BOOLEAN, NEW d \in BOOLEAN, NtOpenFile(p, write, d)
      PROVE  OnDisc(host') = OnDisc(host) /\ FileInv' /\ io'.call # "NtWriteFile"
  <2>1. io'.call = "NtOpenFile"
    BY SMT, <1>2 DEF NtOpenFile, OpenObject, Answer, Refused
  <2> QED
    BY <1>2, <2>1, OpenStep DEF NtOpenFile
<1>3. ASSUME NEW p \in Paths, NEW write \in BOOLEAN, NEW c \in 0 .. 5, NEW d \in BOOLEAN, NtCreateFile(p, write, c, d)
      PROVE  OnDisc(host') = OnDisc(host) /\ FileInv' /\ io'.call # "NtWriteFile"
  <2>1. io'.call \in {"overwrite", "NtCreateFile"}
    BY SMT, <1>3 DEF NtCreateFile, OpenObject, Answer, Refused
  <2>2. (write \/ DispositionWrites(c)) \in BOOLEAN /\ DispositionCreates(c) \in BOOLEAN
    BY SMT DEF DispositionWrites, DispositionCreates
  <2> QED
    BY <1>3, <2>1, <2>2, OpenStep DEF NtCreateFile
<1>4. ASSUME NEW h \in Handles, NEW o \in Offsets, NEW n \in {0, 2}, NtReadFile(h, o, n)
      PROVE  OnDisc(host') = OnDisc(host) /\ FileInv' /\ io'.call # "NtWriteFile"
  <2>1. io'.call = "NtReadFile"
    BY SMT, <1>4 DEF NtReadFile, Answer, Refused
  <2> QED
    BY <1>4, <2>1, ReadStep
<1>5. ASSUME NEW h \in Handles, NEW c \in {"position", "length", "other"}, NEW v \in 0 .. 1, NEW long \in BOOLEAN,
             NtSetInformationFile(h, c, v, long)
      PROVE  OnDisc(host') = OnDisc(host) /\ FileInv' /\ io'.call # "NtWriteFile"
  <2>1. io'.call = "NtSetInformationFile"
    BY SMT, <1>5 DEF NtSetInformationFile, Answer, Refused
  <2> QED
    BY <1>5, <2>1, InformationStep
<1>6. ASSUME NEW h \in Handles, CloseFile(h)
      PROVE  OnDisc(host') = OnDisc(host) /\ FileInv' /\ io'.call # "NtWriteFile"
  <2>1. UNCHANGED host /\ files' = Forget(files, h) /\ io'.call = "NtClose"
    BY <1>6 DEF CloseFile, Answer
  <2>2. Entry' = Entry
    BY <2>1 DEF Entry
  <2> QED
    BY <2>1, <2>2 DEF Forget, FileInv, FileTypeOK, WritersOnDisk
<1>7. io'.call # "NtWriteFile" => WriteInRange
  BY DEF WriteInRange
<1>8. ASSUME NEW h \in Handles, NEW o \in Offsets, NEW b \in Contents, NEW ok \in BOOLEAN, NtWriteFile(h, o, b, ok)
      PROVE  OnDisc(host') = OnDisc(host) /\ FileInv' /\ WriteInRange
  BY <1>8, WriteStep
<1>9. ASSUME NEW n \in Letters,
             (\E t \in LinkTargets : IoCreateSymbolicLink(n, t)) \/ IoDeleteSymbolicLink(n) \/ NtOpenSymbolicLinkObject(n)
      PROVE  UNCHANGED <<host, files>> /\ io'.call # "NtWriteFile"
  BY SMT, <1>9 DEF IoCreateSymbolicLink, IoDeleteSymbolicLink, NtOpenSymbolicLinkObject, Refused, Answer
<1>10. ASSUME NEW h \in Handles, NEW b \in BOOLEAN, NEW c,
              NtQuerySymbolicLinkObject(h, b) \/ NtQueryInformationFile(h, c, b)
       PROVE  UNCHANGED <<host, files>> /\ io'.call # "NtWriteFile"
  BY SMT, <1>10 DEF NtQuerySymbolicLinkObject, NtQueryInformationFile, Refused, Answer
<1>11. CASE \E c \in {"size", "other"}, long \in BOOLEAN : NtQueryVolumeInformationFile(c, long)
  BY SMT, <1>1, <1>11 DEF NtQueryVolumeInformationFile, Refused, Answer
<1>12. CASE NtDeviceIoControlFile
  BY <1>1, <1>12 DEF NtDeviceIoControlFile, Refused, Answer
<1> QED
  BY <1>1, <1>2, <1>3, <1>4, <1>5, <1>6, <1>7, <1>8, <1>9, <1>10, <1>11, <1>12 DEF FileNext

LEMMA FileStart ==
    ASSUME FileInit
    PROVE  FileInv
BY SMT, HostTreesAssumption DEF FileInit, FileInv, FileTypeOK, WritersOnDisk, Entry

(* Nothing a title does with its files changes the disc (hostfs.rs open,   *)
(* write_at, set_len; file.rs): every handle that may write names a file   *)
(* of the hard disk, through links and whatever the partition falls back   *)
(* to.  For any host tree, any paths and any links.                        *)
THEOREM DiscKept == FileSpec => DiscUnchanged
<1>1. FileInv /\ [FileNext]_fileVars => FileInv' /\ OnDisc(host') = OnDisc(host)
  <2>1. CASE UNCHANGED fileVars
    BY <2>1 DEF fileVars, FileInv, FileTypeOK, WritersOnDisk, Entry
  <2> QED
    BY <2>1, FileStep
<1> QED
  BY <1>1, FileStart, PTL DEF FileSpec, DiscUnchanged

(* A write changes the bytes it covers and no others, grows a file by      *)
(* zeros, and moves the pointer of its own handle only (hostfs.rs          *)
(* write_at), whatever other handles of the file are open.                 *)
THEOREM WritesCoverTheirRange == FileSpec => WritesStayInRange
<1>1. FileInv /\ [FileNext]_fileVars => FileInv' /\ [WriteInRange]_fileVars
  <2>1. CASE UNCHANGED fileVars
    BY <2>1 DEF fileVars, FileInv, FileTypeOK, WritersOnDisk, Entry
  <2> QED
    BY <2>1, FileStep
<1> QED
  BY <1>1, FileStart, PTL DEF FileSpec, WritesStayInRange

-----------------------------------------------------------------------------
(* Handles *)

(* The title makes no more objects of a kind than the handles between two  *)
(* bases can name (kernel/runtime.rs FIRST_EVENT_HANDLE and the others).   *)
RangesSuffice ==
    /\ FileHandleBase \in Nat /\ EventHandleBase \in Nat /\ MutantHandleBase \in Nat /\ ThreadHandleBase \in Nat
    /\ FileHandleStep \in Nat \ {0} /\ MaxObjects \in Nat /\ FileHandleStep * MaxOpens \in Nat /\ FileHandleBase > 0
    /\ FileHandleBase + FileHandleStep * MaxOpens <= EventHandleBase
    /\ EventHandleBase + 4 * MaxObjects <= MutantHandleBase
    /\ MutantHandleBase + 4 * MaxObjects <= ThreadHandleBase

(* Each kind's handles lie between its base and its cursor, inside its     *)
(* range: so none has two kinds, and the next one of a kind is new.        *)
FileHandle(h) == h \in Nat /\ FileHandleBase <= h /\ h < nextHandle /\ h < FileHandleBase + FileHandleStep * MaxOpens
EventHandle(h) == h \in Nat /\ EventHandleBase <= h /\ h < nextEvent /\ h < EventHandleBase + 4 * MaxObjects
MutantHandle(h) == h \in Nat /\ MutantHandleBase <= h /\ h < nextMutant /\ h < MutantHandleBase + 4 * MaxObjects
ThreadHandle(h) == h \in Nat /\ ThreadHandleBase <= h /\ h < ThreadHandleBase + 4 * threads
ObjectsInv ==
    /\ nextHandle \in Nat /\ nextEvent \in Nat /\ nextMutant \in Nat /\ threads \in Nat
    /\ nextHandle >= FileHandleBase /\ nextEvent >= EventHandleBase /\ nextMutant >= MutantHandleBase
    /\ \A h \in DOMAIN files \cup DOMAIN linkObjects : FileHandle(h)
    /\ DOMAIN files \cap DOMAIN linkObjects = {}
    /\ \A h \in events : EventHandle(h)
    /\ \A h \in handles : MutantHandle(h) \/ ThreadHandle(h)

(* An open hands out the cursor or nothing.                                *)
LEMMA OpenHands ==
    ASSUME NEW p, NtOpenFile(p, FALSE, FALSE)
    PROVE  /\ OpensLeft /\ UNCHANGED linkObjects
           /\ \/ UNCHANGED <<files, nextHandle>>
              \/ DOMAIN files' = DOMAIN files \cup {nextHandle} /\ nextHandle' = nextHandle + FileHandleStep
BY DEF NtOpenFile, OpenObject, Refused, Handed, With

LEMMA ObjectsStep ==
    ASSUME RangesSuffice, ObjectsInv, ObjectsNext(Paths, LinkTargets)
    PROVE  ObjectsInv' /\ HandleNamesOne
<1> USE DEF RangesSuffice, ObjectsInv, FileHandle, EventHandle, MutantHandle, ThreadHandle
<1>1. ASSUME UNCHANGED objectVars, OpensLeft, nextHandle' = nextHandle + FileHandleStep,
             \/ DOMAIN files' = DOMAIN files \cup {nextHandle} /\ UNCHANGED linkObjects
             \/ DOMAIN linkObjects' = DOMAIN linkObjects \cup {nextHandle} /\ UNCHANGED files
      PROVE  ObjectsInv' /\ HandleNamesOne
  <2>1. nextHandle \notin Live /\ Live' = Live \cup {nextHandle}
    BY SMT, <1>1 DEF Live, objectVars, OpensLeft
  <2> QED
    BY SMT, <1>1, <2>1 DEF objectVars, OpensLeft, HandleNamesOne
<1>2. ASSUME UNCHANGED objectVars, UNCHANGED <<files, linkObjects, nextHandle>>
      PROVE  ObjectsInv' /\ HandleNamesOne
  BY <1>2 DEF objectVars, HandleNamesOne, Live
<1>3. ASSUME NEW p \in Paths, NtOpenFile(p, FALSE, FALSE), UNCHANGED objectVars
      PROVE  ObjectsInv' /\ HandleNamesOne
  BY <1>1, <1>2, <1>3, OpenHands
<1>4. ASSUME NEW n \in Letters, NtOpenSymbolicLinkObject(n), UNCHANGED objectVars
      PROVE  ObjectsInv' /\ HandleNamesOne
  <2>1. \/ UNCHANGED <<files, linkObjects, nextHandle>>
        \/ /\ OpensLeft /\ nextHandle' = nextHandle + FileHandleStep
           /\ DOMAIN linkObjects' = DOMAIN linkObjects \cup {nextHandle} /\ UNCHANGED files
    BY <1>4 DEF NtOpenSymbolicLinkObject, Refused, With
  <2> QED
    BY <1>1, <1>2, <1>4, <2>1
<1>5. ASSUME NEW n \in Letters, NEW t \in LinkTargets, IoCreateSymbolicLink(n, t), UNCHANGED objectVars
      PROVE  ObjectsInv' /\ HandleNamesOne
  BY <1>2, <1>5 DEF IoCreateSymbolicLink
<1>6. ASSUME nextEvent < EventHandleBase + 4 * MaxObjects, CreateEvent
      PROVE  ObjectsInv' /\ HandleNamesOne
  <2>1. nextEvent \notin Live /\ Live' = Live \cup {nextEvent}
    BY SMT, <1>6 DEF Live, CreateEvent, fileVars
  <2> QED
    BY SMT, <1>6, <2>1 DEF CreateEvent, fileVars, HandleNamesOne
<1>7. ASSUME nextMutant < MutantHandleBase + 4 * MaxObjects, CreateMutant
      PROVE  ObjectsInv' /\ HandleNamesOne
  <2>1. nextMutant \notin Live /\ Live' = Live \cup {nextMutant}
    BY SMT, <1>7 DEF Live, CreateMutant, fileVars
  <2> QED
    BY SMT, <1>7, <2>1 DEF CreateMutant, fileVars, HandleNamesOne
<1>8. ASSUME CreateThread
      PROVE  ObjectsInv' /\ HandleNamesOne
  <2> DEFINE new == ThreadHandleBase + 4 * threads
  <2>1. new \notin Live /\ Live' = Live \cup {new}
    BY SMT, <1>8 DEF Live, CreateThread, fileVars
  <2> QED
    BY SMT, <1>8, <2>1 DEF CreateThread, fileVars, HandleNamesOne
<1>9. ASSUME NEW h \in Live \cup {0}, CloseHandle(h)
      PROVE  ObjectsInv' /\ HandleNamesOne
  <2>1. Live' = Live \ {h} /\ h \notin events'
    BY SMT, <1>9 DEF Live, CloseHandle, CloseFile, Forget, fileVars, objectVars
  <2>2. ObjectsInv' /\ nextEvent' = nextEvent /\ nextMutant' = nextMutant /\ threads' = threads /\ nextHandle' = nextHandle
    BY <1>9 DEF Live, CloseHandle, CloseFile, Forget, fileVars, objectVars
  <2> QED
    BY <2>1, <2>2 DEF HandleNamesOne
<1> QED
  BY <1>3, <1>4, <1>5, <1>6, <1>7, <1>8, <1>9 DEF ObjectsNext

(* As long as the title makes no more objects than the ranges hold, every  *)
(* handle it is given is new and names one object, and closing it closes   *)
(* that object (kernel/runtime.rs create_event, create_mutant,             *)
(* close_handle; hostfs.rs).  The run handle_ranges shows the step past    *)
(* the bound.                                                              *)
THEOREM HandlesDistinct ==
    ASSUME RangesSuffice
    PROVE  ObjectsSpec => HandlesNameOne
<1>1. FileInit /\ ObjectsInit => ObjectsInv
  BY SMT, RangesSuffice DEF FileInit, ObjectsInit, ObjectsInv, RangesSuffice
<1>2. ObjectsInv /\ [ObjectsNext(Paths, LinkTargets)]_<<objectVars, fileVars>> =>
          ObjectsInv' /\ [HandleNamesOne]_<<objectVars, fileVars>>
  <2>1. CASE UNCHANGED <<objectVars, fileVars>>
    BY <2>1 DEF objectVars, fileVars, ObjectsInv, FileHandle, EventHandle, MutantHandle, ThreadHandle
  <2> QED
    BY <2>1, ObjectsStep
<1> QED
  BY <1>1, <1>2, PTL DEF ObjectsSpec, HandlesNameOne

-----------------------------------------------------------------------------
(* Sections *)

SectionsInv ==
    /\ SectionsLaidOut
    /\ \A s \in Sections : words[s + 6] \in Nat
    /\ words[SectionA + 6] + words[SectionB + 6] <= MaxPageCount
    /\ SharedCountsAgree

(* A load or an unload moves the section's count and its two pages' by one *)
(* and nothing else: no count is saturated, and neither pointer is one of  *)
(* the words the call writes.                                              *)
LEMMA SectionMoves ==
    ASSUME SectionsInv, NEW s \in Sections, NEW delta \in {1, -1}, SectionCall(s, delta),
           words[SectionA + 6] + words[SectionB + 6] + delta <= MaxPageCount
    PROVE  words' = [w \in DOMAIN words |->
                        IF w \in {s + 6, HeadOf(s), TailOf(s)} THEN words[w] + delta ELSE words[w]]
<1> DEFINE c == s + 6  h == HeadOf(s)  t == TailOf(s)
           counted == Put(words, c, words[c] + delta)
           head == Put(counted, h, words[h] + delta)
<1>1. /\ s + 6 \in DOMAIN words /\ s + 7 \in DOMAIN words /\ s + 8 \in DOMAIN words /\ s # 0
      /\ h = words[s + 7] /\ t = words[s + 8]
      /\ h \in DOMAIN words /\ t \in DOMAIN words /\ h # 0 /\ t # 0 /\ h # t
      /\ h \notin {s + 6, s + 7, s + 8} /\ t \notin {s + 6, s + 7, s + 8} /\ s + 8 # s + 6
  BY SMT DEF SectionsInv, SectionsLaidOut, Sections, SectionHeaders, HeadOf, TailOf, Word, SectionA, SectionB
<1>2. words[s + 6] \in Nat /\ words[s + 6] <= words[SectionA + 6] + words[SectionB + 6]
  BY SMT DEF SectionsInv, Sections
<1>3. \A p \in {h, t} : words[p] \in Nat /\ words[s + 6] <= words[p] /\ words[p] <= words[SectionA + 6] + words[SectionB + 6]
  <2>1. words[SectionA + 6] \in Nat /\ words[SectionB + 6] \in Nat /\ SharedCountsAgree
    BY DEF SectionsInv, Sections
  <2>2. CASE s = SectionA
    BY SMT, <2>1, <2>2 DEF SharedCountsAgree
  <2>3. CASE s = SectionB
    BY SMT, <2>1, <2>3 DEF SharedCountsAgree
  <2> QED
    BY <2>2, <2>3 DEF Sections
<1>4. delta = -1 => words[s + 6] > 0
  BY DEF SectionCall
<1>5. /\ Saturating(words[c], delta, MaxSectionCount) = words[c] + delta
      /\ \A p \in {h, t} : Saturating(words[p], delta, MaxPageCount) = words[p] + delta
  <2>1. MaxPageCount \in Nat /\ MaxSectionCount \in Nat /\ MaxPageCount <= MaxSectionCount
    BY CountWidths
  <2>2. words[SectionA + 6] \in Nat /\ words[SectionB + 6] \in Nat
    BY DEF SectionsInv, Sections
  <2>3. ASSUME NEW n \in Nat, NEW limit \in Nat, n >= words[s + 6], n + delta <= limit
        PROVE  Saturating(n, delta, limit) = n + delta
    BY SMT, <2>3, <1>2, <1>4 DEF Saturating
  <2> HIDE DEF h, t
  <2>4. words[c] + delta <= MaxSectionCount /\ \A p \in {h, t} : words[p] + delta <= MaxPageCount
    BY SMT, <1>2, <1>3, <2>1, <2>2
  <2> QED
    BY SMT, <1>2, <1>3, <2>1, <2>3, <2>4
<1>6. counted = [w \in DOMAIN words |-> IF w = c THEN words[w] + delta ELSE words[w]]
  BY <1>1 DEF Put
<1>7. head = [w \in DOMAIN words |-> IF w \in {c, h} THEN words[w] + delta ELSE words[w]]
  <2> HIDE DEF counted, h
  <2> QED
    BY <1>1, <1>6 DEF Put, head
<1>8. Put(head, t, words[t] + delta) = [w \in DOMAIN words |-> IF w \in {c, h, t} THEN words[w] + delta ELSE words[w]]
  <2> HIDE DEF head, h, t
  <2> QED
    BY <1>1, <1>7 DEF Put
<1>9. AdjustSharedCount(counted, h, delta) = head
  <2>1. counted[h] = words[h] /\ h \in DOMAIN counted
    BY <1>1, <1>6
  <2> HIDE DEF counted, h
  <2> QED
    BY <1>1, <1>5, <2>1 DEF AdjustSharedCount, head
<1>10. Word(head, s + 8) = t /\ head[t] = words[t] /\ t \in DOMAIN head
  <2> HIDE DEF head, h, t
  <2> QED
    BY <1>1, <1>7 DEF Word
<1>11. AdjustSharedCount(head, t, delta) = Put(head, t, words[t] + delta)
  <2> HIDE DEF head, h, t
  <2> QED
    BY <1>1, <1>5, <1>10 DEF AdjustSharedCount
<1>12. AdjustSection(s, words, delta).words = AdjustSharedCount(head, t, delta)
  <2>1. Put(words, s + 6, Saturating(words[s + 6], delta, MaxSectionCount)) = counted
    BY <1>5
  <2>2. Word(words, s + 7) = h
    BY DEF HeadOf
  <2>3. AdjustSection(s, words, delta) = Says(SUCCESS, AdjustSharedCount(AdjustSharedCount(counted, h, delta),
                                                 Word(AdjustSharedCount(counted, h, delta), s + 8), delta))
    <3> HIDE DEF counted, head, h, t
    <3> QED
      BY <1>1, <2>1, <2>2 DEF AdjustSection
  <2> HIDE DEF counted, head, h, t
  <2> QED
    BY SMT, <1>9, <1>10, <2>3 DEF Says
<1> QED
  BY <1>8, <1>11, <1>12 DEF SectionCall

LEMMA SectionsStep ==
    ASSUME SectionsInv, SectionsNext
    PROVE  SectionsInv'
<1>1. PICK s \in Sections, delta \in {1, -1} :
          words[SectionA + 6] + words[SectionB + 6] + delta <= MaxPageCount /\ SectionCall(s, delta)
  BY DEF SectionsNext
<1> DEFINE A == SectionA  B == SectionB
<1>2. words' = [w \in DOMAIN words |->
                   IF w \in {s + 6, HeadOf(s), TailOf(s)} THEN words[w] + delta ELSE words[w]]
  BY <1>1, SectionMoves
<1>3. /\ \A q \in Sections : q + 6 \in DOMAIN words /\ q + 7 \in DOMAIN words /\ q + 8 \in DOMAIN words
      /\ \A q \in Sections : {HeadOf(q), TailOf(q)} \subseteq DOMAIN words /\ HeadOf(q) # TailOf(q)
      /\ \A q, r \in Sections : /\ HeadOf(q) \notin {0, r + 6, r + 7, r + 8}
                                /\ TailOf(q) \notin {0, r + 6, r + 7, r + 8}
      /\ \A q, r \in Sections : /\ q + 6 \notin {r + 7, r + 8} /\ q + 7 # r + 8
                                /\ (q # r => q + 6 # r + 6)
  BY SMT DEF SectionsInv, SectionsLaidOut, Sections, SectionHeaders, SectionA, SectionB
<1>4. \A q \in Sections : words'[q + 7] = words[q + 7] /\ words'[q + 8] = words[q + 8]
  BY <1>2, <1>3
<1>5. \A q \in Sections : HeadOf(q)' = HeadOf(q) /\ TailOf(q)' = TailOf(q)
  BY <1>2, <1>3, <1>4 DEF HeadOf, TailOf, Word
<1>6. \A q \in Sections : words'[q + 6] = IF q = s THEN words[q + 6] + delta ELSE words[q + 6]
  BY <1>2, <1>3
<1>7. SectionsLaidOut'
  BY <1>2, <1>5 DEF SectionsInv, SectionsLaidOut
<1>8. delta = -1 => words[s + 6] > 0
  BY <1>1 DEF SectionCall
<1>9. \A q \in Sections : words[q + 6] \in Nat /\ words'[q + 6] \in Nat
  BY SMT, <1>6, <1>8 DEF SectionsInv
<1>10. words'[A + 6] + words'[B + 6] = words[A + 6] + words[B + 6] + delta /\ A # B /\ Sections = {A, B}
  BY SMT, <1>6, <1>9 DEF Sections, SectionA, SectionB
<1>11. SharedCountsAgree'
  <2> DEFINE Pages == {HeadOf(A), TailOf(A), HeadOf(B), TailOf(B)}
             Loads(p) == (IF p \in {HeadOf(A), TailOf(A)} THEN words[A + 6] ELSE 0)
                       + (IF p \in {HeadOf(B), TailOf(B)} THEN words[B + 6] ELSE 0)
             Later(p) == (IF p \in {HeadOf(A), TailOf(A)} THEN words'[A + 6] ELSE 0)
                       + (IF p \in {HeadOf(B), TailOf(B)} THEN words'[B + 6] ELSE 0)
  <2>1. \A p \in Pages : words[p] = Loads(p)
    BY DEF SectionsInv, SharedCountsAgree
  <2>2. \A p \in Pages : words'[p] = Later(p)
    <3> SUFFICES ASSUME NEW p \in Pages
                 PROVE  words'[p] = Later(p)
      OBVIOUS
    <3>1. words'[p] = IF p \in {HeadOf(s), TailOf(s)} THEN words[p] + delta ELSE words[p]
      BY <1>2, <1>3, <1>10
    <3>2. CASE s = A
      BY SMT, <1>6, <1>9, <1>10, <2>1, <3>1, <3>2
    <3>3. CASE s = B
      BY SMT, <1>6, <1>9, <1>10, <2>1, <3>1, <3>3
    <3> QED
      BY <1>10, <3>2, <3>3
  <2>3. HeadOf(A)' = HeadOf(A) /\ TailOf(A)' = TailOf(A) /\ HeadOf(B)' = HeadOf(B) /\ TailOf(B)' = TailOf(B)
    BY <1>5, <1>10
  <2> QED
    BY SMT, <2>2, <2>3 DEF SharedCountsAgree
<1> QED
  BY <1>1, <1>7, <1>9, <1>10, <1>11 DEF SectionsInv

(* However the loads and unloads of two sections interleave, a page they   *)
(* share counts both (kernel/xe.rs adjust_section, adjust_shared_count),   *)
(* as long as a title unloads only what it loaded and holds no more loads  *)
(* than a u16 counts.                                                      *)
THEOREM SharedPagesCounted == SectionsSpec => []SharedCountsAgree
<1>1. SectionsInit => SectionsInv
  <2> SUFFICES ASSUME SectionsInit
               PROVE  SectionsInv
    OBVIOUS
  <2>1. words[SectionA + 6] = 0 /\ words[SectionB + 6] = 0
    BY DEF SectionsInit, Sections
  <2>2. SharedCountsAgree
    BY SMT, <2>1 DEF SectionsInit, Sections, SharedCountsAgree
  <2> QED
    BY SMT, <2>1, <2>2, CountWidths DEF SectionsInit, SectionsInv, Sections
<1>2. SectionsInv /\ [SectionsNext]_exportVars => SectionsInv'
  <2>1. ASSUME SectionsInv, UNCHANGED exportVars
        PROVE  SectionsInv'
    BY SMT, <2>1 DEF exportVars, SectionsInv, SectionsLaidOut, SharedCountsAgree, HeadOf, TailOf, Word
  <2> QED
    BY <2>1, SectionsStep
<1>3. SectionsInv => SharedCountsAgree
  BY DEF SectionsInv
<1> QED
  BY <1>1, <1>2, <1>3, PTL DEF SectionsSpec
=============================================================================
