---------------------------- MODULE Interpreter ----------------------------
(***************************************************************************)
(* The tier-0 interpreter (cpu/exec.rs) running a short program over paged *)
(* guest memory. An instruction is a record [op, w, dst, src, ...] as the  *)
(* decoder delivers it; executing it threads a machine state s through the *)
(* same reads and writes, in the same order, as the code, and stops at the *)
(* first that fails with whatever was changed before. A double word has    *)
(* 4 * ByteBits bits and the flags word holds the eight flags modelled.    *)
(***************************************************************************)
EXTENDS IntegerAlu, Sequences

CONSTANTS Programs,     \* initial machines
          PageSize,     \* bytes of a page
          MaxLength,    \* bytes of the longest instruction (15)
          MaxRep,       \* iterations of a repeated string instruction in one step
          SegmentBase,  \* base of each segment
          TscSize,      \* the counter wraps here instead of at 2^64
          MaxSteps      \* steps a program takes at most

VARIABLES machine,  \* [gpr, eip, flags, tsc, mem, pages, err], and the program's code, exit and tag
          start     \* the machine at first, with every page accessible

EAX == 0
ECX == 1
EDX == 2
EBX == 3
ESP == 4
EBP == 5
ESI == 6
EDI == 7
NoRegister == -1   \* an address without a base or an index
InCL == -1         \* a shift count taken from CL
FlagOrder == <<"CF", "PF", "AF", "ZF", "SF", "IF", "DF", "OF">>

-----------------------------------------------------------------------------
(* A step's outcome is the machine with err set when it failed. *)

Failed(s, e) == [s EXCEPT !.err = e]
Then(s, Op(_)) == IF s.err # "none" THEN s ELSE Op(s)
PageOf(a) == a \div PageSize
Dword(x) == Truncated(x, "D")

\* GuestMemory::read and write validate the whole range before they copy.
PagesAllow(s, a, n, need) ==
    /\ a + n <= Size("D")
    /\ \A p \in PageOf(a) .. PageOf(a + n - 1) : need \in s.pages[p]
ReadingBytes(s, a, n, Op(_)) ==
    IF PagesAllow(s, a, n, "r") THEN Op([k \in 1 .. n |-> s.mem[a + k - 1]])
    ELSE Failed(s, "memory")
WriteBytes(s, a, bytes) ==
    IF PagesAllow(s, a, Len(bytes), "w")
    THEN [s EXCEPT !.mem = [x \in DOMAIN @ |-> IF x \in a .. a + Len(bytes) - 1
                                               THEN bytes[x - a + 1] ELSE @[x]]]
    ELSE Failed(s, "memory")

\* Little-endian words.
Value(bytes) ==
    LET v[k \in 0 .. Len(bytes)] ==
            IF k = 0 THEN 0 ELSE v[k - 1] + bytes[k] * 2 ^ (ByteBits * (k - 1))
    IN  v[Len(bytes)]
ToBytes(x, n) == [k \in 1 .. n |-> (x \div 2 ^ (ByteBits * (k - 1))) % 2 ^ ByteBits]
ReadingMem(s, a, w, Op(_)) == ReadingBytes(s, a, Bytes(w), LAMBDA b : Op(Value(b)))
WriteMem(s, a, w, x) == WriteBytes(s, a, ToBytes(x, Bytes(w)))

\* read_register and write_register: a byte register is the low or high byte.
ReadReg(s, o, w) ==
    IF w = "B" /\ o.high THEN (s.gpr[o.r] \div Size("B")) % Size("B") ELSE Truncated(s.gpr[o.r], w)
WriteReg(s, o, w, x) ==
    LET old  == s.gpr[o.r]
        unit == IF w = "B" /\ o.high THEN Size("B") ELSE 1
        kept == old - ((old \div unit) % Size(w)) * unit
    IN  [s EXCEPT !.gpr[o.r] = kept + Truncated(x, w) * unit]
Register(r) == [k |-> "reg", r |-> r, high |-> FALSE]

\* effective_address: base, scaled index, displacement and segment base wrap.
\* Sixteen-bit forms are refused (o.short).
RawOffset(s, o) ==
    Dword(o.disp + (IF o.base = NoRegister THEN 0 ELSE s.gpr[o.base])
            + (IF o.index = NoRegister THEN 0 ELSE s.gpr[o.index] * o.scale))
EffectiveAddress(s, o) == Dword(RawOffset(s, o) + SegmentBase[o.seg])

Reading(s, o, w, Op(_)) ==
    CASE o.k = "reg" -> Op(ReadReg(s, o, w))
      [] o.k = "imm" -> Op(Truncated(o.value, w))
      [] o.k = "mem" -> IF o.short THEN Failed(s, "unsupported")
                        ELSE ReadingMem(s, EffectiveAddress(s, o), w, Op)
Write(s, o, w, x) ==
    CASE o.k = "reg" -> WriteReg(s, o, w, x)
      [] o.k = "imm" -> Failed(s, "unsupported")
      [] o.k = "mem" -> IF o.short THEN Failed(s, "unsupported")
                        ELSE WriteMem(s, EffectiveAddress(s, o), w, x)

SetReg(s, r, x) == [s EXCEPT !.gpr[r] = Dword(x)]
Merged(s, defined, values) == [s EXCEPT !.flags = MergeFlags(@, defined, values)]
CarryOf(s) == IF "CF" \in s.flags THEN 1 ELSE 0
Carried(s, set) == Merged(s, {"CF", "OF"}, IF set THEN {"CF", "OF"} ELSE {})

-----------------------------------------------------------------------------
(* Data movement *)

BinaryAlu(s, i) ==
    Reading(s, i.dst, i.w, LAMBDA a : Reading(s, i.src, i.w, LAMBDA b :
        LET r == Alu(i.op, a, b, CarryOf(s), i.w)
        IN  Then(IF AluWrites(i.op) THEN Write(s, i.dst, i.w, r.value) ELSE s,
                 LAMBDA t : Merged(t, r.defined, r.flags))))

Mov(s, i) == Reading(s, i.src, i.w, LAMBDA x : Write(s, i.dst, i.w, x))

Widen(s, i) ==
    Reading(s, i.src, i.narrow, LAMBDA x :
        Write(s, i.dst, i.w, Truncated(IF i.op = "movsx" THEN Signed(x, i.narrow) ELSE x, i.w)))

Lea(s, i) == IF i.src.short THEN Failed(s, "unsupported")
             ELSE WriteReg(s, i.dst, i.w, RawOffset(s, i.src))

Xchg(s, i) ==
    Reading(s, i.dst, i.w, LAMBDA a : Reading(s, i.src, i.w, LAMBDA b :
        Then(Write(s, i.dst, i.w, b), LAMBDA t : Write(t, i.src, i.w, a))))

\* The destination is written last, unless it is memory and may fault.
Xadd(s, i) ==
    Reading(s, i.dst, i.w, LAMBDA a : Reading(s, i.src, i.w, LAMBDA b :
        LET r == AddBits(a, b, 0, i.w)
        IN  Then(IF i.dst.k = "mem"
                 THEN Then(Write(s, i.dst, i.w, r.value), LAMBDA t : Write(t, i.src, i.w, a))
                 ELSE Then(Write(s, i.src, i.w, a), LAMBDA t : Write(t, i.dst, i.w, r.value)),
                 LAMBDA t : Merged(t, ArithmeticFlags, r.flags))))

Cmpxchg(s, i) ==
    Reading(s, i.dst, i.w, LAMBDA current :
        LET acc == ReadReg(s, Register(EAX), i.w)
            flagged(t) == Merged(t, ArithmeticFlags, SubBits(acc, current, 0, i.w).flags)
        IN  IF acc = current
            THEN Reading(s, i.src, i.w, LAMBDA x : Then(Write(s, i.dst, i.w, x), flagged))
            ELSE Then(Write(s, i.dst, i.w, current),
                      LAMBDA t : flagged(WriteReg(t, Register(EAX), i.w, current))))

\* One access of eight bytes each way.
Cmpxchg8b(s, i) ==
    LET a == EffectiveAddress(s, i.dst)
    IN  IF i.dst.k # "mem" \/ i.dst.short THEN Failed(s, "unsupported")
        ELSE ReadingBytes(s, a, 8, LAMBDA old :
          LET low  == Value(SubSeq(old, 1, 4))
              high == Value(SubSeq(old, 5, 8))
          IN  IF low = s.gpr[EAX] /\ high = s.gpr[EDX]
              THEN Then(WriteBytes(s, a, ToBytes(s.gpr[EBX], 4) \o ToBytes(s.gpr[ECX], 4)),
                        LAMBDA t : Merged(t, {"ZF"}, {"ZF"}))
              ELSE Then(WriteBytes(s, a, old),
                        LAMBDA t : Merged(SetReg(SetReg(t, EAX, low), EDX, high), {"ZF"}, {})))

\* INC, DEC, NEG and NOT; the first two leave the carry alone.
Unary(s, i) ==
    Reading(s, i.dst, i.w, LAMBDA a :
        LET r == CASE i.op = "inc" -> AddBits(a, 1, 0, i.w)
                   [] i.op = "dec" -> SubBits(a, 1, 0, i.w)
                   [] i.op = "neg" -> SubBits(0, a, 0, i.w)
                   [] i.op = "not" -> [value |-> Size(i.w) - 1 - a, flags |-> {}]
            defined == CASE i.op \in {"inc", "dec"} -> ArithmeticFlags \ {"CF"}
                         [] i.op = "neg" -> ArithmeticFlags
                         [] i.op = "not" -> {}
        IN  Then(Write(s, i.dst, i.w, r.value), LAMBDA t : Merged(t, defined, r.flags)))

-----------------------------------------------------------------------------
(* Shifts, products, bits *)

CountOf(s, i) == MaskedCount(IF i.count = InCL THEN s.gpr[ECX] ELSE i.count)

\* A count of zero still writes the operand back, and changes no flag.
Shift(s, i) ==
    LET n == CountOf(s, i)
    IN  Reading(s, i.dst, i.w, LAMBDA a :
          IF n = 0 THEN Write(s, i.dst, i.w, a)
          ELSE LET r == Shifted(i.op, a, n, CarryOf(s), i.w)
                   values == ResultBits(r[1], i.w) \cup When(r[2] = 1, "CF") \cup When(r[3], "OF")
               IN  Then(Write(s, i.dst, i.w, r[1]),
                        LAMBDA t : Merged(t, ShiftDefined(i.op, n, i.w), values)))

DoubleShift(s, i) ==
    LET n == CountOf(s, i)
    IN  IF i.w = "B" THEN Failed(s, "unsupported")
        ELSE Reading(s, i.dst, i.w, LAMBDA a : Reading(s, i.src, i.w, LAMBDA b :
          IF n = 0 THEN Write(s, i.dst, i.w, a)
          ELSE LET r == DoubleShifted(i.op = "shld", a, b, n, i.w)
                   values == ResultBits(r[1], i.w) \cup When(r[2] = 1, "CF")
                               \cup When(Sign(a, i.w) # Sign(r[1], i.w), "OF")
               IN  Then(Write(s, i.dst, i.w, r[1]),
                        LAMBDA t : Merged(t, {"CF", "SF", "ZF", "PF"} \cup When(n = 1, "OF"), values))))

\* The double-width accumulator: AX for bytes, else EDX:EAX of the width.
WriteWide(s, low, high, w) ==
    IF w = "B" THEN WriteReg(s, Register(EAX), "W", low + high * Size("B"))
    ELSE WriteReg(WriteReg(s, Register(EAX), w, low), Register(EDX), w, high)

\* mul, and imul with one operand.
Multiply(s, i) ==
    Reading(s, i.src, i.w, LAMBDA b :
        LET p == Product(i.op = "imul", ReadReg(s, Register(EAX), i.w), b, i.w)
        IN  Carried(WriteWide(s, Truncated(p, i.w), Truncated(p \div Size(i.w), i.w), i.w),
                    Overflowed(i.op = "imul", p, i.w)))

\* imul with two or three operands.
MultiplyInto(s, i) ==
    Reading(s, i.first, i.w, LAMBDA a : Reading(s, i.src, i.w, LAMBDA b :
        LET p == Product(TRUE, a, b, i.w)
        IN  Then(Write(s, i.dst, i.w, Truncated(p, i.w)),
                 LAMBDA t : Carried(t, Overflowed(TRUE, p, i.w)))))

Divide(s, i) ==
    Reading(s, i.src, i.w, LAMBDA d :
        LET high == IF i.w = "B" THEN ReadReg(s, [Register(EAX) EXCEPT !.high = TRUE], "B")
                    ELSE ReadReg(s, Register(EDX), i.w)
            r == Divided(i.op = "idiv", high, ReadReg(s, Register(EAX), i.w), d, i.w)
        IN  IF r.error THEN Failed(s, "divide") ELSE WriteWide(s, r.quotient, r.remainder, i.w))

Bswap(s, i) ==
    LET b == ToBytes(s.gpr[i.dst.r], 4) IN SetReg(s, i.dst.r, Value(<<b[4], b[3], b[2], b[1]>>))

\* A register index over memory moves the operand by whole elements.
BitTest(s, i) ==
    LET raw(x)  == IF i.dst.k = "mem" /\ i.src.k = "reg" THEN Signed(x, i.w) ELSE x
        moved(x) == IF i.dst.k = "mem" /\ i.src.k = "reg"
                    THEN [i.dst EXCEPT !.disp = Dword(@ + BitByteOffset(raw(x), i.w))] ELSE i.dst
    IN  IF i.w = "B" THEN Failed(s, "unsupported")
        ELSE Reading(s, i.src, i.w, LAMBDA x : Reading(s, moved(x), i.w, LAMBDA v :
          LET bit == raw(x) % Bits(i.w)
              old == Bit(v, bit)
              new == CASE i.op = "bt" -> old [] i.op = "bts" -> 1
                       [] i.op = "btr" -> 0 [] i.op = "btc" -> 1 - old
          IN  Then(IF i.op = "bt" THEN s ELSE Write(s, moved(x), i.w, v + (new - old) * 2 ^ bit),
                   LAMBDA t : Merged(t, {"CF"}, When(old = 1, "CF")))))

BitScan(s, i) ==
    Reading(s, i.src, i.w, LAMBDA v :
        IF v = 0 THEN Merged(s, {"ZF"}, {"ZF"})
        ELSE Then(Write(s, i.dst, i.w, IF i.op = "bsf" THEN ScanForward(v) ELSE ScanReverse(v)),
                  LAMBDA t : Merged(t, {"ZF"}, {})))

\* CBW, CWDE, CWD, CDQ
Extend(s, i) ==
    LET eax(w) == Signed(ReadReg(s, Register(EAX), w), w)
    IN  CASE i.op = "cbw"  -> WriteReg(s, Register(EAX), "W", eax("B"))
          [] i.op = "cwde" -> SetReg(s, EAX, eax("W"))
          [] i.op = "cwd"  -> WriteReg(s, Register(EDX), "W", IF eax("W") < 0 THEN -1 ELSE 0)
          [] i.op = "cdq"  -> SetReg(s, EDX, IF eax("D") < 0 THEN -1 ELSE 0)

FlagOp(s, i) ==
    CASE i.op = "clc" -> Merged(s, {"CF"}, {}) [] i.op = "stc" -> Merged(s, {"CF"}, {"CF"})
      [] i.op = "cmc" -> Merged(s, {"CF"}, {"CF"} \ s.flags)
      [] i.op = "cld" -> Merged(s, {"DF"}, {}) [] i.op = "std" -> Merged(s, {"DF"}, {"DF"})
      [] i.op = "cli" -> Merged(s, {"IF"}, {}) [] i.op = "sti" -> Merged(s, {"IF"}, {"IF"})

\* SETcc and CMOVcc; the move reads its source either way.
SetCond(s, i) == Write(s, i.dst, "B", IF ConditionMet(s.flags, i.cond) THEN 1 ELSE 0)
MoveCond(s, i) ==
    Reading(s, i.src, i.w, LAMBDA x :
        IF ConditionMet(s.flags, i.cond) THEN Write(s, i.dst, i.w, x) ELSE s)

Rdtsc(s) == SetReg(SetReg(s, EAX, s.tsc), EDX, s.tsc \div Size("D"))
-----------------------------------------------------------------------------
(* Stack *)

\* The stack access commits before ESP moves.
PushValue(s, w, x) ==
    LET esp == Dword(s.gpr[ESP] - Bytes(w))
    IN  Then(WriteMem(s, esp, w, x), LAMBDA t : SetReg(t, ESP, esp))
Popping(s, w, Op(_, _)) ==
    ReadingMem(s, s.gpr[ESP], w, LAMBDA x : Op(SetReg(s, ESP, s.gpr[ESP] + Bytes(w)), x))

Push(s, i) == Reading(s, i.src, i.w, LAMBDA x : PushValue(s, i.w, x))

\* The destination resolves against the moved ESP, which a fault puts back.
Pop(s, i) ==
    Popping(s, i.w, LAMBDA t, x :
        LET u == Write(t, i.dst, i.w, x)
        IN  IF u.err # "none" THEN SetReg(u, ESP, s.gpr[ESP]) ELSE u)

\* The eight registers as one access, EDI lowest.
PushadOrder == <<EDI, ESI, EBP, ESP, EBX, EDX, ECX, EAX>>
Pushad(s) ==
    LET base == Dword(s.gpr[ESP] - 32)
    IN  Then(WriteBytes(s, base, [k \in 1 .. 32 |->
                 ToBytes(s.gpr[PushadOrder[((k - 1) \div 4) + 1]], 4)[((k - 1) % 4) + 1]]),
             LAMBDA t : SetReg(t, ESP, base))
Popad(s) ==
    ReadingBytes(s, s.gpr[ESP], 32, LAMBDA frame :
        LET slot(n) == Value(SubSeq(frame, 4 * n - 3, 4 * n))
            place(r) == CHOOSE n \in 1 .. 8 : PushadOrder[n] = r
        IN  [s EXCEPT !.gpr = [r \in EAX .. EDI |-> IF r = ESP THEN Dword(s.gpr[ESP] + 32)
                                                    ELSE slot(place(r))]])

FlagsWord(flags) ==
    LET bit(k) == IF FlagOrder[k] \in flags THEN 2 ^ (k - 1) ELSE 0
        sum[k \in 0 .. Len(FlagOrder)] == IF k = 0 THEN 0 ELSE sum[k - 1] + bit(k)
    IN  sum[Len(FlagOrder)]
Pushfd(s) == PushValue(s, "D", FlagsWord(s.flags))
Popfd(s) ==
    Popping(s, "D", LAMBDA t, x :
        [t EXCEPT !.flags = {FlagOrder[k] : k \in {k \in DOMAIN FlagOrder : Bit(x, k - 1) = 1}}])

\* leave, the 32-bit form
AboveFrame(s) == s.gpr[EBP] + 4
Leave(s, i) ==
    IF i.w # "D" THEN Failed(s, "unsupported")
    ELSE ReadingMem(s, s.gpr[EBP], "D", LAMBDA x :
             SetReg(SetReg(s, ESP, AboveFrame(s)), EBP, x))

-----------------------------------------------------------------------------
(* Repeated string instructions *)

\* One element. Every access precedes every register change.
StringElement(s, i) ==
    LET delta == IF "DF" \in s.flags THEN - Bytes(i.w) ELSE Bytes(i.w)
        from  == Dword(SegmentBase[i.seg] + s.gpr[ESI])
        to    == Dword(SegmentBase["es"] + s.gpr[EDI])
        acc   == ReadReg(s, Register(EAX), i.w)
        moved(t, r) == SetReg(t, r, t.gpr[r] + delta)
        compared(t, a, b) == Merged(t, ArithmeticFlags, SubBits(a, b, 0, i.w).flags)
    IN  CASE i.op = "movs" -> ReadingMem(s, from, i.w, LAMBDA x :
                Then(WriteMem(s, to, i.w, x), LAMBDA t : moved(moved(t, ESI), EDI)))
          [] i.op = "stos" -> Then(WriteMem(s, to, i.w, acc), LAMBDA t : moved(t, EDI))
          [] i.op = "lods" -> ReadingMem(s, from, i.w, LAMBDA x :
                moved(WriteReg(s, Register(EAX), i.w, x), ESI))
          [] i.op = "scas" -> ReadingMem(s, to, i.w, LAMBDA x : moved(compared(s, acc, x), EDI))
          [] i.op = "cmps" -> ReadingMem(s, from, i.w, LAMBDA x : ReadingMem(s, to, i.w, LAMBDA y :
                moved(moved(compared(s, x, y), ESI), EDI)))

\* An element is counted once its accesses are made.
Counted(s, i) == IF i.rep = "none" THEN s ELSE SetReg(s, ECX, s.gpr[ECX] - 1)
CommitCountedFirst(s, i) == StringElement(Counted(s, i), i)
Commit(s, i) == Then(StringElement(s, i), LAMBDA t : Counted(t, i))

\* r.go says whether the repetition continues.
ElementDone(t, i) ==
    LET matched == ("ZF" \in t.flags) = (i.rep = "rep")
    IN  [m |-> t, go |-> /\ t.err = "none" /\ i.rep # "none"
                         /\ i.op \in {"scas", "cmps"} => matched]
StringIteration(r, i) ==
    IF i.rep # "none" /\ r.m.gpr[ECX] = 0 THEN [r EXCEPT !.go = FALSE] ELSE ElementDone(Commit(r.m, i), i)

\* The advance the caller makes is taken back when the step's budget ran out.
Resumed(s, i) == [s EXCEPT !.eip = Dword(@ - i.len)]
StringEnd(last, i) == IF last.go /\ last.m.gpr[ECX] # 0 THEN Resumed(last.m, i) ELSE last.m
StringOp(s, i) ==
    LET run[n \in 0 .. MaxRep] ==
            IF n = 0 THEN [m |-> s, go |-> TRUE]
            ELSE LET r == run[n - 1] IN IF r.go THEN StringIteration(r, i) ELSE r
    IN  StringEnd(run[MaxRep], i)

-----------------------------------------------------------------------------
(* Branches, ports, and one step *)

JumpIf(s, i, taken) == [s EXCEPT !.eip = IF taken THEN i.target ELSE Dword(@ + i.len)]

BranchTarget(s, i, Op(_)) ==
    CASE i.to = "near" -> Op(i.target)
      [] i.to = "reg"  -> IF i.w = "D" THEN Op(s.gpr[i.src.r]) ELSE Failed(s, "unsupported")
      [] i.to = "mem"  -> IF i.w = "D" THEN Reading(s, i.src, "D", Op) ELSE Failed(s, "unsupported")

BranchKinds == {"jmp", "call", "ret", "loop", "jecxz", "jcc"}
Branch(s, i) ==
    LET count == Dword(s.gpr[ECX] - 1)
        zero  == "ZF" \in s.flags
    IN  CASE i.kind = "jmp"  -> BranchTarget(s, i, LAMBDA a : [s EXCEPT !.eip = a])
          [] i.kind = "call" -> BranchTarget(s, i, LAMBDA a :
                Then(PushValue(s, "D", Dword(s.eip + i.len)), LAMBDA t : [t EXCEPT !.eip = a]))
          [] i.kind = "ret"  -> IF i.w # "D" THEN Failed(s, "unsupported")
                ELSE Popping(s, "D", LAMBDA t, a :
                         [SetReg(t, ESP, t.gpr[ESP] + i.pops) EXCEPT !.eip = a])
          [] i.kind = "loop" -> JumpIf(SetReg(s, ECX, count), i,
                count # 0 /\ (i.op = "loope" => zero) /\ (i.op = "loopne" => ~zero))
          [] i.kind = "jecxz" -> JumpIf(s, i, s.gpr[ECX] = 0)
          [] i.kind = "jcc"   -> JumpIf(s, i, ConditionMet(s.flags, i.cond))

\* The bus of `step` has nothing listening (NoPorts): reads are zero.
PortIo(s, i) == IF i.op = "in" THEN WriteReg(s, Register(EAX), i.w, 0) ELSE s

\* The mnemonics of execute_straightline, with nop for those without effect.
Straightline(s, i) ==
    CASE i.kind = "alu" -> BinaryAlu(s, i)       [] i.kind = "mov" -> Mov(s, i)
      [] i.kind = "widen" -> Widen(s, i)         [] i.kind = "lea" -> Lea(s, i)
      [] i.kind = "xchg" -> Xchg(s, i)           [] i.kind = "xadd" -> Xadd(s, i)
      [] i.kind = "cmpxchg" -> Cmpxchg(s, i)     [] i.kind = "cmpxchg8b" -> Cmpxchg8b(s, i)
      [] i.kind = "unary" -> Unary(s, i)         [] i.kind = "shift" -> Shift(s, i)
      [] i.kind = "double" -> DoubleShift(s, i)  [] i.kind = "mul" -> Multiply(s, i)
      [] i.kind = "imul" -> MultiplyInto(s, i)   [] i.kind = "div" -> Divide(s, i)
      [] i.kind = "bswap" -> Bswap(s, i)         [] i.kind = "bt" -> BitTest(s, i)
      [] i.kind = "scan" -> BitScan(s, i)        [] i.kind = "extend" -> Extend(s, i)
      [] i.kind = "flag" -> FlagOp(s, i)         [] i.kind = "setcc" -> SetCond(s, i)
      [] i.kind = "cmov" -> MoveCond(s, i)       [] i.kind = "rdtsc" -> Rdtsc(s)
      [] i.kind = "push" -> Push(s, i)           [] i.kind = "pop" -> Pop(s, i)
      [] i.kind = "pushad" -> Pushad(s)          [] i.kind = "popad" -> Popad(s)
      [] i.kind = "pushfd" -> Pushfd(s)          [] i.kind = "popfd" -> Popfd(s)
      [] i.kind = "leave" -> Leave(s, i)         [] i.kind = "string" -> StringOp(s, i)
      [] i.kind = "port" -> PortIo(s, i)         [] i.kind = "nop" -> s
      [] OTHER -> Failed(s, "unsupported")

\* The first fetch stops at the page end; the rest of the longest instruction
\* is fetched only when the decoder ran out of bytes.
FetchedLength(s) == LET room == PageSize - (s.eip % PageSize) IN IF room < MaxLength THEN room ELSE MaxLength
Decoding(s, Op(_)) ==
    LET first == FetchedLength(s)
        code  == s.code
    IN  IF ~PagesAllow(s, s.eip, first, "x") THEN Failed(s, "memory")
        ELSE IF s.eip \notin DOMAIN code THEN Failed(s, "invalid")
        ELSE IF code[s.eip].len > first /\ ~PagesAllow(s, s.eip + first, MaxLength - first, "x")
             THEN Failed(s, "memory")
        ELSE Op(code[s.eip])

StepDecoded(s, i) ==
    Then(IF i.kind \in BranchKinds THEN Branch(s, i)
         ELSE Then(Straightline(s, i), LAMBDA t : [t EXCEPT !.eip = Dword(@ + i.len)]),
         LAMBDA t : [t EXCEPT !.tsc = (@ + 1) % TscSize])
StepOnce(s) == Decoding([s EXCEPT !.err = "none"], LAMBDA i : StepDecoded([s EXCEPT !.err = "none"], i))
-----------------------------------------------------------------------------
Everything == {"r", "w", "x"}
AllPages(s) == [s EXCEPT !.pages = [p \in DOMAIN @ |-> Everything]]
Completed(s) ==
    LET run[n \in 0 .. MaxSteps] ==
            IF n = 0 THEN s
            ELSE LET t == run[n - 1]
                 IN  IF t.eip = t.exit \/ t.err # "none" THEN t ELSE StepOnce(t)
    IN  run[MaxSteps]

InterpreterInit ==
    \E p \in Programs :
        machine = p /\ start = AllPages(p)

Step ==
    /\ machine.eip # machine.exit
    /\ machine' = StepOnce(machine)
    /\ UNCHANGED start

\* Outside the interpreter: a page becomes accessible between two steps.
Grant(p) ==
    /\ machine.eip # machine.exit
    /\ machine.pages[p] \subseteq {"r"}
    /\ machine' = [machine EXCEPT !.pages[p] = Everything, !.err = "none"]
    /\ UNCHANGED start

InterpreterNext == Step \/ \E p \in DOMAIN machine.pages : Grant(p)
interpreterVars == <<machine, start>>

-----------------------------------------------------------------------------
(* Properties *)

\* However often instructions of a program fault and are retried once the
\* page is there, and wherever a repetition is cut, the program ends with the
\* registers, flags and memory of an undisturbed run.
RestartsAgree ==
    machine.eip = machine.exit =>
        LET Ended(goal) == <<goal.gpr, goal.flags, goal.mem>> IN Ended(machine) = Ended(Completed(start))

\* What a string instruction should do, from the state before it: it handles
\* the first n elements, each after the ones before it.
StringResult(s, i) ==
    LET delta  == IF "DF" \in s.flags THEN - Bytes(i.w) ELSE Bytes(i.w)
        limit  == IF i.rep = "none" THEN 1 ELSE s.gpr[ECX]
        place(r, k) == Dword(s.gpr[r] + (k - 1) * delta)
        word(a) == Value([j \in 1 .. Bytes(i.w) |-> s.mem[a + j - 1]])
        equal(k) == word(place(EDI, k)) = IF i.op = "scas" THEN ReadReg(s, Register(EAX), i.w)
                                          ELSE word(place(ESI, k))
        ends   == {k \in 1 .. limit : i.op \in {"scas", "cmps"} /\ equal(k) # (i.rep = "rep")}
        n      == IF i.rep = "none" \/ ends = {} THEN limit
                  ELSE CHOOSE k \in ends : \A j \in ends : k <= j
        reads(r) == IF r = ESI THEN i.op \in {"movs", "lods", "cmps"} ELSE i.op # "lods"
        stored[k \in 1 .. n] ==
            IF i.op = "stos" THEN ReadReg(s, Register(EAX), i.w)
            ELSE LET over == {j \in 1 .. k - 1 : place(EDI, j) = place(ESI, k)}
                 IN  IF over = {} THEN word(place(ESI, k)) ELSE stored[CHOOSE j \in over : TRUE]
        writer(a) == {k \in 1 .. n : a \in place(EDI, k) .. place(EDI, k) + Bytes(i.w) - 1}
    IN  [esi |-> IF reads(ESI) THEN place(ESI, n + 1) ELSE s.gpr[ESI],
         edi |-> IF reads(EDI) THEN place(EDI, n + 1) ELSE s.gpr[EDI],
         ecx |-> IF i.rep = "none" THEN s.gpr[ECX] ELSE s.gpr[ECX] - n,
         mem |-> [a \in DOMAIN s.mem |->
                    IF i.op \notin {"movs", "stos"} \/ writer(a) = {} THEN s.mem[a]
                    ELSE LET k == CHOOSE k \in writer(a) : TRUE
                         IN  ToBytes(stored[k], Bytes(i.w))[a - place(EDI, k) + 1]]]

\* A repeated string instruction, cut by faults and by the per-step budget,
\* ends with the counts, indices and memory of its element-by-element
\* definition, in both directions and when the operands overlap.
StringsAsLoops ==
    machine.tag = "string" /\ machine.eip = machine.exit =>
        LET i == start.code[start.eip]
        IN  StringResult(start, i) = [esi |-> machine.gpr[ESI], edi |-> machine.gpr[EDI],
                                      ecx |-> machine.gpr[ECX], mem |-> machine.mem]

\* A balanced sequence (push and pop of every form, pushad and popad, pushfd
\* and popfd, call and both returns, a frame and leave) gives back every
\* register and flag, and writes nothing at or above the stack pointer.
StackRoundTrips ==
    machine.tag = "round" /\ machine.eip = machine.exit =>
        /\ machine.gpr = start.gpr
        /\ machine.flags = start.flags
        /\ \A a \in DOMAIN machine.mem : a >= start.gpr[ESP] => machine.mem[a] = start.mem[a]


\* Every program ends as its instructions are defined: as an undisturbed run
\* of it, a string instruction as its loop, a balanced sequence with what it
\* began with (exec.rs step).
ProgramsEndAsDefined == RestartsAgree /\ StringsAsLoops /\ StackRoundTrips
=============================================================================
