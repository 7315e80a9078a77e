----------------------------- MODULE FloatUnit -----------------------------
(***************************************************************************)
(* The x87 unit of the interpreter (cpu/x87.rs): a register file with a    *)
(* stack top and tags, the MMX registers that alias it, comparisons, and   *)
(* the conversions where a value crosses the memory boundary. A value is a *)
(* member of a small set with a NaN; arithmetic is any fixed operation     *)
(* that tells its operands and their order apart.                          *)
(***************************************************************************)
EXTENDS Integers, Sequences, FiniteSets

CONSTANTS Slots,         \* registers of the file (8)
          FloatProbes,   \* operands of the conversions
          FractionBits,  \* bits of a double's fraction (52)
          ExponentBits,  \* bits of a double's exponent (11)
          ExtraBits,     \* bits an extended mantissa has below the fraction (11)
          StoreMax       \* largest integer of an integer store

VARIABLES fpu,     \* [reg, used, top, cc]: X87State without the control word
          fmodel,  \* what the guest expects: a stack, MMX registers, or nothing
          ferr,    \* whether the last instruction faulted
          fprobe   \* an operand of the conversions

floatVars == <<fpu, fmodel, ferr, fprobe>>

NaN == -1000
FloatValues == {NaN, 0, 1}
FloatSlot == 0 .. Slots - 1

-----------------------------------------------------------------------------
(* The register stack *)

\* fninit: the default state, every register empty and the top at slot 0.
EmptyUnit == [reg |-> [p \in FloatSlot |-> 0], used |-> {}, top |-> 0, cc |-> {}]

Physical(u, i) == (u.top + i) % Slots
ReadSt(u, i) == u.reg[Physical(u, i)]
WriteSt(u, i, v) ==
    [u EXCEPT !.reg[Physical(u, i)] = v, !.used = @ \cup {Physical(u, i)}]
PushSt(u, v) == WriteSt([u EXCEPT !.top = (@ + Slots - 1) % Slots], 0, v)
PopSt(u) == [u EXCEPT !.used = @ \ {Physical(u, 0)}, !.top = (@ + 1) % Slots]

\* arithmetic, with the reversed forms swapping the operands.
Combine(op, a, b) ==
    LET minus(x, y) == IF x = NaN \/ y = NaN \/ x < y THEN NaN ELSE x - y
    IN  CASE op = "sub" -> minus(a, b) [] op = "subr" -> minus(b, a)
Apply(op, a) == IF a = NaN THEN NaN ELSE 1 - a

Ordering(a, b) == IF a = NaN \/ b = NaN THEN "none" ELSE IF a < b THEN "less"
                  ELSE IF a = b THEN "equal" ELSE "greater"
SetCompare(u, order) ==
    [u EXCEPT !.cc = CASE order = "less" -> {"C0"} [] order = "equal" -> {"C3"}
                       [] order = "greater" -> {} [] order = "none" -> {"C0", "C2", "C3"}]

\* The integer-flag forms write ZF, PF and CF and clear the other three.
CompareFlags(order) ==
    CASE order = "equal" -> {"ZF"} [] order = "less" -> {"CF"} [] order = "greater" -> {}
      [] order = "none" -> {"ZF", "PF", "CF"}

\* fxam looks at the value of the top register, empty or not.
Classified(u) ==
    [u EXCEPT !.cc = CASE ReadSt(u, 0) = NaN -> {"C0"} [] ReadSt(u, 0) = 0 -> {"C3"}
                       [] OTHER -> {"C2"}]

\* write_mm marks the slot in use and resets the top; read_mm is the mantissa.
WriteMm(u, slot, v) == [u EXCEPT !.reg[slot] = v, !.used = @ \cup {slot}, !.top = 0]
Emms(u) == [u EXCEPT !.used = {}, !.top = 0]

-----------------------------------------------------------------------------
(* What the guest expects of it. Reading an empty register, a ninth push,  *)
(* a pop too many and mixing MMX with the stack are left undefined.        *)

Undefined == [mode |-> "undefined", st |-> <<>>, mm |-> <<>>]
StackOf(st) == [mode |-> "stack", st |-> st, mm |-> <<>>]
\* A step that needs st(0) .. st(n - 1) and leaves the stack st.
Expect(n, st) ==
    IF fmodel.mode = "stack" /\ Len(fmodel.st) >= n /\ Len(st) <= Slots THEN StackOf(st) ELSE Undefined
St(i) == IF fmodel.mode = "stack" /\ i < Len(fmodel.st) THEN fmodel.st[i + 1] ELSE NaN
Replaced(i, v) == [k \in DOMAIN fmodel.st |-> IF k = i + 1 THEN v ELSE fmodel.st[k]]
Below(n, st) == SubSeq(st, n + 1, Len(st))
Least(a, b) == IF a < b THEN b ELSE a

\* An operand is a stack register or memory; a memory access may fault, and
\* it is made before the unit changes.
Outcome(ok, u, model) ==
    IF ok THEN fpu' = u /\ fmodel' = model /\ ferr' = FALSE
    ELSE ferr' = TRUE /\ UNCHANGED <<fpu, fmodel>>

-----------------------------------------------------------------------------
(* Instructions *)

LoadMemory(v, ok) == Outcome(ok, PushSt(fpu, v), Expect(0, <<v>> \o fmodel.st))
LoadRegister(i) == Outcome(TRUE, PushSt(fpu, ReadSt(fpu, i)), Expect(i + 1, <<St(i)>> \o fmodel.st))
LoadConstant(c) == Outcome(TRUE, PushSt(fpu, c), Expect(0, <<c>> \o fmodel.st))

\* fst, fstp, fist, fistp; the popping forms pop after the store.
StorePopsFirst(ok, pop) ==
    /\ fpu' = IF pop THEN PopSt(fpu) ELSE fpu
    /\ ferr' = ~ok
    /\ fmodel' = IF ok THEN Expect(1, IF pop THEN Below(1, fmodel.st) ELSE fmodel.st) ELSE fmodel
StoreMemory(ok, pop) ==
    Outcome(ok, IF pop THEN PopSt(fpu) ELSE fpu,
            Expect(1, IF pop THEN Below(1, fmodel.st) ELSE fmodel.st))
StoreRegister(i, pop) ==
    LET u == WriteSt(fpu, i, ReadSt(fpu, 0))
        st == Replaced(i, St(0))
    IN  Outcome(TRUE, IF pop THEN PopSt(u) ELSE u,
                Expect(Least(1, i + 1), IF pop THEN Below(1, st) ELSE st))

\* fadd and its kin, the integer forms included: one operand may be memory.
ArithmeticRegister(op, d, i) ==
    Outcome(TRUE, WriteSt(fpu, d, Combine(op, ReadSt(fpu, d), ReadSt(fpu, i))),
            Expect(Least(d, i) + 1, Replaced(d, Combine(op, St(d), St(i)))))
ArithmeticMemory(op, v, ok) ==
    Outcome(ok, WriteSt(fpu, 0, Combine(op, ReadSt(fpu, 0), v)),
            Expect(1, Replaced(0, Combine(op, St(0), v))))
ArithmeticPop(op, d) ==
    Outcome(TRUE, PopSt(WriteSt(fpu, d, Combine(op, ReadSt(fpu, d), ReadSt(fpu, 0)))),
            Expect(d + 1, Below(1, Replaced(d, Combine(op, St(d), St(0))))))

\* fchs, fabs, fsqrt, frndint, f2xm1; fsin and fcos also clear C2.
Monadic(op, clears) ==
    Outcome(TRUE, [WriteSt(fpu, 0, Apply(op, ReadSt(fpu, 0))) EXCEPT !.cc = @ \ clears],
            Expect(1, Replaced(0, Apply(op, St(0)))))
\* fscale, fprem: st(0) from st(0) and st(1).
DyadicTop(clears) ==
    Outcome(TRUE, [WriteSt(fpu, 0, Combine("sub", ReadSt(fpu, 0), ReadSt(fpu, 1))) EXCEPT !.cc = @ \ clears],
            Expect(2, Replaced(0, Combine("sub", St(0), St(1)))))
\* fpatan, fyl2x: st(1) from both, then a pop.
DyadicPop ==
    Outcome(TRUE, PopSt(WriteSt(fpu, 1, Combine("sub", ReadSt(fpu, 1), ReadSt(fpu, 0)))),
            Expect(2, Below(1, Replaced(1, Combine("sub", St(1), St(0))))))
\* fsincos pushes the cosine of what st(0) held; fptan pushes one.
SinCos ==
    Outcome(TRUE, [PushSt(WriteSt(fpu, 0, Apply("sin", ReadSt(fpu, 0))), ReadSt(fpu, 0)) EXCEPT !.cc = @ \ {"C2"}],
            Expect(1, <<St(0)>> \o Replaced(0, Apply("sin", St(0)))))
Tangent ==
    Outcome(TRUE, [PushSt(WriteSt(fpu, 0, Apply("tan", ReadSt(fpu, 0))), 1) EXCEPT !.cc = @ \ {"C2"}],
            Expect(1, <<1>> \o Replaced(0, Apply("tan", St(0)))))

\* fcom to fucompp: no pop, one, or two; the other operand may be memory.
CompareRegister(i, pops) ==
    LET u == SetCompare(fpu, Ordering(ReadSt(fpu, 0), ReadSt(fpu, i)))
    IN  Outcome(TRUE, CASE pops = 0 -> u [] pops = 1 -> PopSt(u) [] pops = 2 -> PopSt(PopSt(u)),
                Expect(Least(i + 1, pops), Below(pops, fmodel.st)))
CompareMemory(v, pop, ok) ==
    LET u == SetCompare(fpu, Ordering(ReadSt(fpu, 0), v))
    IN  Outcome(ok, IF pop THEN PopSt(u) ELSE u, Expect(1, IF pop THEN Below(1, fmodel.st) ELSE fmodel.st))
CompareInteger(i, pop) ==
    Outcome(TRUE, IF pop THEN PopSt(fpu) ELSE fpu,
            Expect(i + 1, IF pop THEN Below(1, fmodel.st) ELSE fmodel.st))
Test == Outcome(TRUE, SetCompare(fpu, Ordering(ReadSt(fpu, 0), 0)), Expect(1, fmodel.st))
Examine == Outcome(TRUE, Classified(fpu), Expect(0, fmodel.st))

Exchange(i) ==
    Outcome(TRUE, WriteSt(WriteSt(fpu, 0, ReadSt(fpu, i)), i, ReadSt(fpu, 0)),
            Expect(i + 1, [Replaced(0, St(i)) EXCEPT ![i + 1] = St(0)]))

\* fninit, and fnclex, fnstsw and fnstcw, which touch no stack register.
Initialise == Outcome(TRUE, EmptyUnit, StackOf(<<>>))
StoreWord(ok) == Outcome(ok, fpu, fmodel)

\* movq, movd and the logic instructions into an MMX register, and emms.
MmxWrite(slot, v, ok) ==
    Outcome(ok, WriteMm(fpu, slot, v),
            [mode |-> "mmx", st |-> <<>>,
             mm |-> [s \in {slot} \cup (IF fmodel.mode = "mmx" THEN DOMAIN fmodel.mm ELSE {}) |->
                        IF s = slot THEN v ELSE fmodel.mm[s]]])
MmxLogic(slot, v, ok) == MmxWrite(slot, Combine("sub", fpu.reg[slot], v), ok)
MmxDone == Outcome(TRUE, Emms(fpu), StackOf(<<>>))
-----------------------------------------------------------------------------
(* Conversions at the memory boundary *)

\* A double is [neg, exp, frac], an extended value [neg, exp, man] with its
\* leading bit written out.
Bias == 2 ^ (ExponentBits - 1) - 1
ExtendedBias == 4 * Bias
ExtendedTop == 2 * ExtendedBias + 1
MantissaBits == FractionBits + 1 + ExtraBits
BitLength(x) == CHOOSE n \in 0 .. FractionBits + 1 : 2 ^ n > x /\ (n = 0 \/ 2 ^ (n - 1) <= x)

IsZero(d) == d.exp = 0 /\ d.frac = 0
IsSpecial(d) == d.exp = 2 ^ ExponentBits - 1

NormalMantissa(d) == 2 ^ (MantissaBits - 1) + d.frac * 2 ^ ExtraBits
F64ToExtended(d) ==
    LET shift == FractionBits + 1 - BitLength(d.frac)
        low   == (d.frac * 2 ^ (shift + 1) * 2 ^ ExtraBits) % 2 ^ MantissaBits
    IN  CASE IsZero(d) -> [neg |-> d.neg, exp |-> 0, man |-> 0]
          [] IsSpecial(d) /\ d.frac # 0 -> [neg |-> d.neg, exp |-> ExtendedTop, man |-> 3 * 2 ^ (MantissaBits - 2)]
          [] IsSpecial(d) /\ d.frac = 0 -> [neg |-> d.neg, exp |-> ExtendedTop, man |-> 2 ^ (MantissaBits - 1)]
          [] d.exp = 0 /\ d.frac # 0 -> [neg |-> d.neg, exp |-> 1 - Bias - shift + ExtendedBias, man |-> low]
          [] OTHER -> [neg |-> d.neg, exp |-> d.exp - Bias + ExtendedBias, man |-> NormalMantissa(d)]

\* exp2 answers zero and infinity outside the range of a double.
Exp2Zero(e) == e <= - (Bias + FractionBits)
Exp2Infinite(e) == e >= Bias + 1

\* The value loaded: its class, and for a finite one the number sig * 2^pow.
ExtendedToF64(x) ==
    LET pow == x.exp - ExtendedBias - (MantissaBits - 1)
        class == CASE x.exp = ExtendedTop -> IF x.man % 2 ^ (MantissaBits - 1) = 0 THEN "infinite" ELSE "nan"
                   [] x.exp # ExtendedTop /\ (x.man = 0 \/ Exp2Zero(pow)) -> "zero"
                   [] x.exp # ExtendedTop /\ x.man # 0 /\ Exp2Infinite(pow) -> "infinite"
                   [] OTHER -> "finite"
    IN  [class |-> class, neg |-> x.neg, sig |-> x.man, pow |-> pow]

\* round_to_nearest_even on a number of quarters, and the clamped store.
Sgn(q) == IF q < 0 THEN -1 ELSE 1
Size4(q) == IF q < 0 THEN -q ELSE q
RoundToNearestEven(q) ==
    LET nearest == Sgn(q) * ((Size4(q) + 2) \div 4)
    IN  IF Size4(q) % 4 = 2 /\ nearest % 2 # 0 THEN nearest - Sgn(q) ELSE nearest
IntegerStored(q) ==
    LET r == RoundToNearestEven(q)
    IN  IF r > StoreMax THEN StoreMax ELSE IF r < - StoreMax - 1 THEN - StoreMax - 1 ELSE r

-----------------------------------------------------------------------------
FloatInit ==
    fpu = EmptyUnit /\ fmodel = StackOf(<<>>) /\ ferr = FALSE

StackInstruction ==
    \/ \E v \in FloatValues, ok \in BOOLEAN : LoadMemory(v, ok)
    \/ \E i \in FloatSlot : LoadRegister(i)
    \/ \E c \in {0, 1} : LoadConstant(c)
    \/ \E ok, pop \in BOOLEAN : StoreMemory(ok, pop)
    \/ \E i \in FloatSlot, pop \in BOOLEAN : StoreRegister(i, pop)
    \/ \E op \in {"sub", "subr"}, i \in FloatSlot : ArithmeticRegister(op, 0, i) \/ ArithmeticRegister(op, i, 0)
    \/ \E op \in {"sub", "subr"}, v \in FloatValues, ok \in BOOLEAN : ArithmeticMemory(op, v, ok)
    \/ \E op \in {"sub", "subr"}, d \in FloatSlot : ArithmeticPop(op, d)
    \/ \E clears \in {{}, {"C2"}} : Monadic("chs", clears) \/ DyadicTop(clears)
    \/ DyadicPop \/ SinCos \/ Tangent \/ Test \/ Examine \/ Initialise
    \/ \E i \in FloatSlot, pops \in {0, 1} : CompareRegister(i, pops)
    \/ CompareRegister(1, 2)
    \/ \E v \in FloatValues, pop, ok \in BOOLEAN : CompareMemory(v, pop, ok)
    \/ \E i \in FloatSlot, pop \in BOOLEAN : CompareInteger(i, pop)
    \/ \E i \in FloatSlot : Exchange(i)
    \/ \E ok \in BOOLEAN : StoreWord(ok)

MmxInstruction ==
    \/ \E slot \in FloatSlot, v \in FloatValues, ok \in BOOLEAN : MmxWrite(slot, v, ok) \/ MmxLogic(slot, v, ok)
    \/ MmxDone

\* Once the guest may expect nothing only a reset is of interest.
FloatNext ==
    /\ IF fmodel.mode = "undefined" THEN Initialise \/ MmxDone ELSE StackInstruction \/ MmxInstruction
    /\ UNCHANGED fprobe

-----------------------------------------------------------------------------
(* Properties *)

\* The register file is the guest's stack: st(i) is the i-th value it pushed
\* and has not popped, exactly those registers are tagged in use, and MMX
\* registers hold what was moved into them, through any mix of loads,
\* pops, exchanges and faulting accesses ("a title reading its own values
\* back shifted by one register", x87.rs).
FloatStackRefined ==
    /\ fmodel.mode = "stack" =>
        /\ \A i \in 1 .. Len(fmodel.st) : ReadSt(fpu, i - 1) = fmodel.st[i]
        /\ fpu.used = {Physical(fpu, i - 1) : i \in 1 .. Len(fmodel.st)}
    /\ fmodel.mode = "mmx" => \A s \in DOMAIN fmodel.mm : fpu.reg[s] = fmodel.mm[s] /\ s \in fpu.used

\* A comparison that sets the condition codes and one that sets the integer
\* flags tell the guest the same order, bit for bit where `sahf` puts them.
CompareFormsAgree ==
    fprobe.kind = "pair" =>
        LET order == Ordering(fprobe.a, fprobe.b)
            moved == [C0 |-> "CF", C2 |-> "PF", C3 |-> "ZF"]
        IN  CompareFlags(order) = {moved[c] : c \in SetCompare(EmptyUnit, order).cc}

\* An integer store writes the nearest integer, the even one of two equally
\* near, and the bound nearest to a value out of range.
IntegerStoresNearest ==
    fprobe.kind = "quarters" =>
        LET r == IntegerStored(fprobe.q)
            far(n) == Size4(4 * n - fprobe.q)
        IN  \A n \in - StoreMax - 1 .. StoreMax :
                far(r) < far(n) \/ (far(r) = far(n) /\ (n = r \/ r % 2 = 0))

\* What a double is, and what is read back after an 80-bit store.
DoubleValue(d) ==
    [class |-> IF IsSpecial(d) THEN (IF d.frac = 0 THEN "infinite" ELSE "nan")
               ELSE IF IsZero(d) THEN "zero" ELSE "finite",
     neg |-> d.neg, sig |-> IF d.exp = 0 THEN d.frac ELSE 2 ^ FractionBits + d.frac,
     pow |-> (IF d.exp = 0 THEN 1 ELSE d.exp) - Bias - FractionBits]
SameValue(x, y) ==
    LET low == IF x.pow < y.pow THEN x.pow ELSE y.pow
    IN  /\ x.class = y.class
        /\ x.class # "nan" => x.neg = y.neg
        /\ x.class = "finite" => x.sig * 2 ^ (x.pow - low) = y.sig * 2 ^ (y.pow - low)

\* A double written in the 80-bit format reads back as itself ("both survive
\* a round trip", x87.rs): zeros, infinities, NaNs and every normal large
\* enough for the scale of exp2 not to vanish (store_extended, load_extended).
ExtendedSurvives ==
    fprobe.kind = "double" =>
        LET d == fprobe.d
        IN  IsZero(d) \/ IsSpecial(d) \/ (d.exp # 0 /\ ~Exp2Zero(d.exp - Bias - (MantissaBits - 1)))
              => SameValue(DoubleValue(d), ExtendedToF64(F64ToExtended(d)))
=============================================================================
