----------------------------- MODULE IntegerAlu -----------------------------
(***************************************************************************)
(* The integer arithmetic of the tier-0 interpreter (cpu/exec.rs): results *)
(* and flags of every operation, over bytes of ByteBits bits instead of 8. *)
(* The properties at the end compare each operation with what it means on  *)
(* unbounded integers, or one bit at a time, for the operands in `probe`.  *)
(***************************************************************************)
EXTENDS Integers, FiniteSets, Bitwise

CONSTANTS ByteBits,     \* bits of a byte (8)
          NibbleBits,   \* bits below the auxiliary carry (4)
          Probes        \* operands to try: [w, a, b, c, n]

VARIABLE probe

Bytes(w) == [B |-> 1, W |-> 2, D |-> 4][w]
Bits(w) == ByteBits * Bytes(w)
Size(w) == 2 ^ Bits(w)
Truncated(x, w) == x % Size(w)
Bit(x, i) == (x \div 2 ^ i) % 2
Sign(x, w) == Bit(x, Bits(w) - 1)

\* sign_extend: the two's complement reading of a value of width w.
Signed(x, w) == IF Sign(x, w) = 1 THEN x - Size(w) ELSE x

-----------------------------------------------------------------------------
(* Flags: a flag image is the set of the flags that are set. *)

ArithmeticFlags == {"CF", "PF", "AF", "ZF", "SF", "OF"}
LogicDefined == ArithmeticFlags \ {"AF"}
When(c, f) == IF c THEN {f} ELSE {}
MergeFlags(old, defined, values) == (old \ defined) \cup (values \cap defined)

EvenOnes(x) == Cardinality({i \in 0 .. ByteBits - 1 : Bit(x, i) = 1}) % 2 = 0
ResultBits(r, w) ==
    When(r = 0, "ZF") \cup When(Sign(r, w) = 1, "SF") \cup When(EvenOnes(r), "PF")

\* The auxiliary carry: bit NibbleBits of a ^ b ^ r.
NibbleCarry(a, b, r) == (Bit(a, NibbleBits) + Bit(b, NibbleBits) + Bit(r, NibbleBits)) % 2 = 1

AddOverflow(a, b, r, w) == Sign(a, w) # Sign(r, w) /\ Sign(b, w) # Sign(r, w)

AddBits(a, b, c, w) ==
    LET r == Truncated(a + b + c, w)
    IN  [value |-> r, defined |-> ArithmeticFlags,
         flags |-> ResultBits(r, w) \cup When(a + b + c >= Size(w), "CF")
                     \cup When(NibbleCarry(a, b, r), "AF")
                     \cup When(AddOverflow(a, b, r, w), "OF")]

Borrows(a, b, c) == a < b + c

SubBits(a, b, c, w) ==
    LET r == Truncated(a - b - c, w)
    IN  [value |-> r, defined |-> ArithmeticFlags,
         flags |-> ResultBits(r, w) \cup When(Borrows(a, b, c), "CF")
                     \cup When(NibbleCarry(a, b, r), "AF")
                     \cup When(Sign(a, w) # Sign(b, w) /\ Sign(a, w) # Sign(r, w), "OF")]

LogicBits(r, w) == [value |-> r, flags |-> ResultBits(r, w), defined |-> LogicDefined]

\* binary_alu: the result, and the flags it defines with their values.
Alu(kind, a, b, carry, w) ==
    CASE kind = "add" -> AddBits(a, b, 0, w)
      [] kind = "adc" -> AddBits(a, b, carry, w)
      [] kind \in {"sub", "cmp"} -> SubBits(a, b, 0, w)
      [] kind = "sbb" -> SubBits(a, b, carry, w)
      [] kind \in {"and", "test"} -> LogicBits(a & b, w)
      [] kind = "or" -> LogicBits(a | b, w)
      [] kind = "xor" -> LogicBits(a ^^ b, w)
AluWrites(kind) == kind \notin {"cmp", "test"}

\* condition_met
ConditionMet(flags, code) ==
    LET less == ("SF" \in flags) # ("OF" \in flags)
    IN  CASE code = "o"  -> "OF" \in flags
          [] code = "no" -> "OF" \notin flags
          [] code = "b"  -> "CF" \in flags
          [] code = "ae" -> "CF" \notin flags
          [] code = "e"  -> "ZF" \in flags
          [] code = "ne" -> "ZF" \notin flags
          [] code = "be" -> flags \cap {"CF", "ZF"} # {}
          [] code = "a"  -> flags \cap {"CF", "ZF"} = {}
          [] code = "s"  -> "SF" \in flags
          [] code = "ns" -> "SF" \notin flags
          [] code = "p"  -> "PF" \in flags
          [] code = "np" -> "PF" \notin flags
          [] code = "l"  -> less
          [] code = "ge" -> ~less
          [] code = "le" -> "ZF" \in flags \/ less
          [] code = "g"  -> "ZF" \notin flags /\ ~less

-----------------------------------------------------------------------------
(* Shifts and rotates. A count is masked to the bits of a double word. *)

ShiftKinds == {"shl", "shr", "sar", "rol", "ror", "rcl", "rcr"}
Rotates == {"rol", "ror", "rcl", "rcr"}
MaskedCount(n) == n % Bits("D")

\* One turn of the loops of Rcl and Rcr over <<value, carry>>.
TurnLeft(v, w) == <<Truncated(2 * v[1], w) + v[2], Sign(v[1], w)>>
TurnRight(v, w) == <<(v[1] \div 2) + v[2] * 2 ^ (Bits(w) - 1), v[1] % 2>>
Turned(left, a, carry, n, w) ==
    LET v[k \in 0 .. n] == IF k = 0 THEN <<a, carry>>
                           ELSE IF left THEN TurnLeft(v[k - 1], w) ELSE TurnRight(v[k - 1], w)
    IN  v[n]

\* The turns a rotate really makes.
Rotation(kind, n, w) == IF kind \in {"rcl", "rcr"} THEN n % (Bits(w) + 1) ELSE n % Bits(w)

\* shift: <<value, carry out, overflow>> for a masked count n > 0. The two halves
\* of a plain rotate share no bit, so their sum is their union.
Shifted(kind, a, n, carry, w) ==
    LET k    == Rotation(kind, n, w)
        top  == Bits(w) - 1
        left == Truncated(a * 2 ^ k, w) + a \div 2 ^ (Bits(w) - k)
        right == a \div 2 ^ k + Truncated(a * 2 ^ (Bits(w) - k), w)
        turn == Turned(kind = "rcl", a, carry, k, w)
    IN  CASE kind = "shl" -> LET r == Truncated(a * 2 ^ n, w)
                                 c == Bit(a * 2 ^ n, Bits(w))
                             IN  <<r, c, c # Bit(r, top)>>
          [] kind = "shr" -> <<a \div 2 ^ n, Bit(a, n - 1), Sign(a, w) = 1>>
          [] kind = "sar" -> <<Truncated(Signed(a, w) \div 2 ^ n, w),
                               (Signed(a, w) \div 2 ^ (n - 1)) % 2, FALSE>>
          [] kind = "rol" -> <<left, left % 2, left % 2 # Bit(left, top)>>
          [] kind = "ror" -> <<right, Bit(right, top), Bit(right, top) # Bit(right, top - 1)>>
          [] kind = "rcl" -> <<turn[1], turn[2], turn[2] # Bit(turn[1], top)>>
          [] kind = "rcr" -> <<turn[1], turn[2], carry # Sign(a, w)>>

\* The flags a shift defines: rotates only the carry, SHL and SHR not even that
\* once the count reaches the width, and overflow at a count of one.
ShiftDefined(kind, n, w) ==
    (IF kind \in Rotates THEN {"CF"}
     ELSE {"SF", "ZF", "PF"} \cup When(~(n >= Bits(w) /\ kind \in {"shl", "shr"}), "CF"))
      \cup When(n = 1, "OF")

\* double_shift: the result and the carry, for a masked count n > 0.
DoubleWidth(high, low, w) == high * Size(w) + low
DoubleShifted(left, a, b, n, w) ==
    IF left
    THEN LET s == DoubleWidth(a, b, w) * 2 ^ n
         IN  <<Truncated(s \div Size(w), w), (s \div Size(w) ^ 2) % 2>>
    ELSE LET s == DoubleWidth(b, a, w)
         IN  <<Truncated(s \div 2 ^ n, w), (s \div 2 ^ (n - 1)) % 2>>

-----------------------------------------------------------------------------
(* Multiplication, division, bit strings. *)

\* mul and imul: the double-width product, and whether the upper half matters.
Product(signed, a, b, w) == IF signed THEN Signed(a, w) * Signed(b, w) ELSE a * b
Overflowed(signed, p, w) ==
    IF signed THEN p # Signed(Truncated(p, w), w) ELSE p >= Size(w)

\* wrapping_div and wrapping_rem round toward zero.
Magnitude(x) == IF x < 0 THEN -x ELSE x
Quotient(x, y) == (IF (x < 0) = (y < 0) THEN 1 ELSE -1) * (Magnitude(x) \div Magnitude(y))
Remainder(x, y) == x - y * Quotient(x, y)

\* Mutant: the quotient's lower bound is left out.
RepresentableAbove(signed, q, w) == IF signed THEN q <= Size(w) \div 2 - 1 ELSE q < Size(w)
Representable(signed, q, w) ==
    IF signed THEN q <= Size(w) \div 2 - 1 /\ q >= -(Size(w) \div 2) ELSE q < Size(w)

\* div: the quotient and remainder of high:low by d, or the divide error. The
\* dividend is as wide as two operands.
Divided(signed, high, low, d, w) ==
    LET raw == high * Size(w) + low
        x   == IF signed /\ Sign(high, w) = 1 THEN raw - Size(w) ^ 2 ELSE raw
        y   == IF signed THEN Signed(d, w) ELSE d
    IN  IF d = 0 \/ ~Representable(signed, Quotient(x, y), w) THEN [error |-> TRUE]
        ELSE [error |-> FALSE, quotient |-> Truncated(Quotient(x, y), w),
              remainder |-> Truncated(Remainder(x, y), w)]

\* bit_test: which operand-sized element of the bit string a signed index is in.
BitElement(index, w) == index \div Bits(w)
BitByteOffset(index, w) == BitElement(index, w) * Bytes(w)

\* bit_scan
ScanForward(x) == CHOOSE i \in 0 .. x : Bit(x, i) = 1 /\ \A j \in 0 .. i - 1 : Bit(x, j) = 0
ScanReverse(x) == CHOOSE i \in 0 .. x : x \div 2 ^ i = 1

-----------------------------------------------------------------------------
AluInit == probe \in Probes
NoOperands == [w |-> "none"]

-----------------------------------------------------------------------------
(* What the operations mean. *)

\* add_bits: sum and carry together are the unbounded sum, overflow is a signed
\* sum out of range, the auxiliary carry is the carry out of the low nibble.
SumsAreSums ==
    LET p == probe
        r == AddBits(p.a, p.b, p.c, p.w)
        s == Signed(p.a, p.w) + Signed(p.b, p.w) + p.c
        low(x) == x % 2 ^ NibbleBits
    IN  /\ r.value + (IF "CF" \in r.flags THEN Size(p.w) ELSE 0) = p.a + p.b + p.c
        /\ ("OF" \in r.flags) <=> (s # Signed(r.value, p.w))
        /\ ("AF" \in r.flags) <=> (low(p.a) + low(p.b) + p.c >= 2 ^ NibbleBits)

\* sub_bits: a chain of SBBs subtracts numbers wider than a register, because
\* difference and borrow together are the unbounded difference.
DifferencesChain ==
    LET p == probe
        low  == SubBits(p.a, p.b, p.c, p.w)
        high == SubBits(p.b, p.a, IF "CF" \in low.flags THEN 1 ELSE 0, p.w)
    IN  high.value * Size(p.w) + low.value =
            ((p.b * Size(p.w) + p.a) - (p.a * Size(p.w) + p.b) - p.c) % Size(p.w) ^ 2

\* sub_bits and condition_met together: after CMP a, b every relational
\* condition code decides its relation on the operands.
ComparisonsDecide ==
    LET p == probe
        f == SubBits(p.a, p.b, 0, p.w).flags
        met(code) == ConditionMet(f, code)
        sa == Signed(p.a, p.w)
        sb == Signed(p.b, p.w)
    IN  /\ met("b") = (p.a < p.b)
        /\ met("ae") = (p.a >= p.b)
        /\ met("be") = (p.a <= p.b)
        /\ met("a") = (p.a > p.b)
        /\ met("l") = (sa < sb)
        /\ met("ge") = (sa >= sb)
        /\ met("le") = (sa <= sb)
        /\ met("g") = (sa > sb)
        /\ met("e") = (p.a = p.b)
        /\ met("ne") = (p.a # p.b)

\* One bit of each shift, as <<value, carry>>.
OneBit(kind, v, w) ==
    LET a == v[1]
        left(in)  == <<Truncated(2 * a, w) + in, Sign(a, w)>>
        right(in) == <<a \div 2 + in * 2 ^ (Bits(w) - 1), a % 2>>
    IN  CASE kind = "shl" -> left(0) [] kind = "rol" -> left(Sign(a, w))
          [] kind = "rcl" -> left(v[2]) [] kind = "shr" -> right(0)
          [] kind = "sar" -> right(Sign(a, w)) [] kind = "ror" -> right(a % 2)
          [] kind = "rcr" -> right(v[2])
Iterated(kind, a, c, n, w) ==
    LET v[k \in 0 .. n] == IF k = 0 THEN <<a, c>> ELSE OneBit(kind, v[k - 1], w) IN v[n]

\* shift: a count of n is n counts of one, for every shift and rotate and every
\* count the mask lets through, also beyond the width of a narrow operand.
ShiftsIterate ==
    LET p == probe
        n == MaskedCount(p.n)
    IN  n > 0 => \A kind \in ShiftKinds :
                    LET r == Shifted(kind, p.a, n, p.c, p.w)
                        i == Iterated(kind, p.a, p.c, n, p.w)
                    IN  /\ r[1] = i[1]
                        /\ "CF" \in ShiftDefined(kind, n, p.w) => r[2] = i[2]

\* double_shift: SHLD and SHRD move the bits of the second operand into the
\* first, one at a time, as long as the count is within the operand.
DoubleShiftsFill ==
    LET p == probe
        n == MaskedCount(p.n)
        l[k \in 0 .. n] == IF k = 0 THEN <<p.a, p.b>>
                           ELSE <<Truncated(2 * l[k - 1][1], p.w) + Sign(l[k - 1][2], p.w),
                                  Truncated(2 * l[k - 1][2], p.w)>>
        r[k \in 0 .. n] == IF k = 0 THEN <<p.a, p.b>>
                           ELSE <<r[k - 1][1] \div 2 + (r[k - 1][2] % 2) * 2 ^ (Bits(p.w) - 1),
                                  r[k - 1][2] \div 2>>
    IN  n \in 1 .. Bits(p.w) =>
            /\ DoubleShifted(TRUE, p.a, p.b, n, p.w)[1] = l[n][1]
            /\ DoubleShifted(FALSE, p.a, p.b, n, p.w)[1] = r[n][1]

\* div: it answers exactly when a quotient fits, and then dividend = quotient *
\* divisor + remainder with a remainder smaller than the divisor and of the
\* dividend's sign. Dividing a product gives its factor back.
QuotientsExact ==
    LET p == probe
        high == p.n % Size(p.w)
        wide(s) == IF s THEN Signed(high, p.w) * Size(p.w) + p.a ELSE high * Size(p.w) + p.a
        val(s, x) == IF s THEN Signed(x, p.w) ELSE x
        fits(s, q) == val(s, Truncated(q, p.w)) = q
    IN  \A s \in BOOLEAN :
          LET d == Divided(s, high, p.a, p.b, p.w)
          IN  IF d.error
              THEN p.b # 0 => ~fits(s, Quotient(wide(s), val(s, p.b)))
              ELSE LET q == val(s, d.quotient)
                       r == val(s, d.remainder)
                   IN  /\ wide(s) = q * val(s, p.b) + r
                       /\ Magnitude(r) < Magnitude(val(s, p.b))
                       /\ r # 0 => (r < 0) = (wide(s) < 0)

\* bit_test: with a register index over memory, element, byte offset and bit
\* name one absolute bit, also below the base for a negative index.
BitStringAddressed ==
    LET i == Signed(probe.a, probe.w)
    IN  BitByteOffset(i, probe.w) * ByteBits + (i % Bits(probe.w)) = i


\* The integer operations compute what the clauses above define, on every
\* operand, width, carry and count (exec.rs).
ArithmeticExact ==
  probe # NoOperands =>
    /\ SumsAreSums /\ DifferencesChain /\ ComparisonsDecide
    /\ ShiftsIterate /\ DoubleShiftsFill /\ QuotientsExact /\ BitStringAddressed
=============================================================================
