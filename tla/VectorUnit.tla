---------------------------- MODULE VectorUnit ----------------------------
(***************************************************************************)
(* The SSE unit of the interpreter (cpu/sse.rs): four-lane registers, the  *)
(* moves and shuffles as they rearrange lanes, and the scalar rules of     *)
(* minimum, comparison, rounding and conversion. A lane is a token; in the *)
(* scalar rules it is a number of quarters or NaN.                         *)
(***************************************************************************)
EXTENDS FloatUnit

CONSTANTS VectorProbes,    \* operands of the scalar rules
          VectorPrograms   \* [code, want]: want[k] is the lane to find at Result + k

VARIABLES vec,      \* [xmm: register -> lane -> token, mem: lane address -> token]
          vprogram, \* the program run, and how much of it
          vprobe

vectorVars == <<vec, vprogram, vprobe>>
Lane == 0 .. 3
XmmRegisters == 0 .. 7
Result == 16        \* lane address of a program's answer
Missing == 99       \* the indefinite value of NaN and of an out-of-range conversion

-----------------------------------------------------------------------------
(* Operands: a register, or lanes of memory *)

\* read_wide: a register gives all its lanes, memory n of them above zeros.
ReadWide(s, o, n) ==
    IF o.k = "x" THEN s.xmm[o.r] ELSE [l \in Lane |-> IF l < n THEN s.mem[o.a + l] ELSE 0]

WriteWideLanes(s, o, n, v) ==
    IF o.k = "x" THEN [s EXCEPT !.xmm[o.r] = [l \in Lane |-> IF l < n THEN v[l] ELSE @[l]]]
    ELSE [s EXCEPT !.mem = [a \in DOMAIN @ |-> IF a - o.a \in 0 .. n - 1 THEN v[a - o.a] ELSE @[a]]]

Four(a, b, c, d) == [l \in Lane |-> <<a, b, c, d>>[l + 1]]
InRegister(o) == o.k = "x"

\* The scalar load writes all lanes, the other scalar moves one.
MoveScalar(s, i) ==
    WriteWideLanes(s, i.dst, IF InRegister(i.dst) /\ ~InRegister(i.src) THEN 4 ELSE 1, ReadWide(s, i.src, 1))
MovePacked(s, i) == WriteWideLanes(s, i.dst, 4, ReadWide(s, i.src, 4))
MoveLow(s, i) == WriteWideLanes(s, i.dst, 2, ReadWide(s, i.src, 2))
MoveHigh(s, i) ==
    LET v == ReadWide(s, i.src, 2)
    IN  IF InRegister(i.dst)
        THEN LET d == s.xmm[i.dst.r] IN MovePacked([s EXCEPT !.xmm[i.dst.r] = Four(d[0], d[1], v[0], v[1])],
                                                   [dst |-> i.dst, src |-> i.dst])
        ELSE WriteWideLanes(s, i.dst, 2, Four(v[2], v[3], 0, 0))

\* The forms that combine two registers' lanes.
Shuffled(i, d, v) ==
    CASE i.op = "movhlps" -> Four(v[2], v[3], d[2], d[3])
      [] i.op = "movlhps" -> Four(d[0], d[1], v[0], v[1])
      [] i.op = "shufps"  -> Four(d[i.sel[1]], d[i.sel[2]], v[i.sel[3]], v[i.sel[4]])
      [] i.op = "unpcklps" -> Four(d[0], v[0], d[1], v[1])
      [] i.op = "unpckhps" -> Four(d[2], v[2], d[3], v[3])
Shuffle(s, i) == [s EXCEPT !.xmm[i.dst.r] = Shuffled(i, @, ReadWide(s, i.src, 4))]

\* binary_packed and binary_scalar, for an operation on one lane.
Packed(s, i, Op(_, _)) ==
    LET v == ReadWide(s, i.src, 4) IN [s EXCEPT !.xmm[i.dst.r] = [l \in Lane |-> Op(@[l], v[l])]]
Scalar(s, i, Op(_, _)) ==
    LET v == ReadWide(s, i.src, 1) IN [s EXCEPT !.xmm[i.dst.r][0] = Op(@, v[0])]

-----------------------------------------------------------------------------
(* One lane *)

\* The second operand is the answer for a NaN and for equal operands.
SseMin(a, b) == IF a = NaN \/ b = NaN \/ a >= b THEN b ELSE a
SseMax(a, b) == IF a = NaN \/ b = NaN \/ a <= b THEN b ELSE a

Unordered(a, b) == a = NaN \/ b = NaN
NotLess(a, b) == a >= b \/ Unordered(a, b)
ComparePredicate(k, a, b) ==
    CASE k = 0 -> ~Unordered(a, b) /\ a = b
      [] k = 1 -> ~Unordered(a, b) /\ a < b
      [] k = 2 -> ~Unordered(a, b) /\ a <= b
      [] k = 3 -> Unordered(a, b)
      [] k = 4 -> a # b \/ Unordered(a, b)
      [] k = 5 -> NotLess(a, b)
      [] k = 6 -> a > b \/ Unordered(a, b)
      [] k = 7 -> ~Unordered(a, b)

\* comiss: the flags, of the six it clears, that it sets.
ComissFlagsGreater(a, b) == IF Unordered(a, b) THEN {"ZF", "PF", "CF"} ELSE IF a > b THEN {"CF"} ELSE IF a < b THEN {} ELSE {"ZF"}
ComissFlags(a, b) ==
    IF Unordered(a, b) THEN {"ZF", "PF", "CF"}
    ELSE IF a > b THEN {} ELSE IF a < b THEN {"CF"} ELSE {"ZF"}

\* round_by_mxcsr, by the rounding-control field, and to_i32.
RoundByMxcsr(mode, q) ==
    LET nearest == Sgn(q) * ((Size4(q) + 2) \div 4)
    IN  CASE mode = 1 -> q \div 4
          [] mode = 2 -> - ((- q) \div 4)
          [] mode = 3 -> Sgn(q) * (Size4(q) \div 4)
          [] mode = 0 -> IF Size4(q) % 4 = 2 /\ nearest % 2 = 1 THEN nearest - Sgn(q) ELSE nearest
ToI32(r) == IF r \in - StoreMax - 1 .. StoreMax THEN r ELSE Missing
Cvtss2si(mode, x) == IF x = NaN THEN Missing ELSE ToI32(RoundByMxcsr(mode, x))

\* cmpps and cmpss: a lane of ones or of zeros; and what the bitwise
\* instructions make of such a lane and any other.
Ones == -1
CompareLane(k, a, b) == IF ComparePredicate(k, a, b) THEN Ones ELSE 0
AndLane(a, b) == IF a = Ones THEN b ELSE IF b = Ones THEN a ELSE 0
NotLane(a) == IF a = Ones THEN 0 ELSE Ones
OrLane(a, b) == IF a = 0 THEN b ELSE IF b = 0 THEN a ELSE Ones

-----------------------------------------------------------------------------
ExecuteVector(s, i) ==
    CASE i.op = "movss" -> MoveScalar(s, i)  [] i.op = "movaps" -> MovePacked(s, i)
      [] i.op = "movlps" -> MoveLow(s, i)    [] i.op = "movhps" -> MoveHigh(s, i)
      [] i.op = "cmpps" -> Packed(s, i, LAMBDA a, b : CompareLane(i.sel, a, b))
      [] i.op = "cmpss" -> Scalar(s, i, LAMBDA a, b : CompareLane(i.sel, a, b))
      [] i.op = "andps" -> Packed(s, i, AndLane)
      [] i.op = "andnps" -> Packed(s, i, LAMBDA a, b : AndLane(NotLane(a), b))
      [] i.op = "orps" -> Packed(s, i, OrLane)
      [] i.op = "minps" -> Packed(s, i, SseMin) [] i.op = "maxss" -> Scalar(s, i, SseMax)
      [] i.op \in {"movhlps", "movlhps", "shufps", "unpcklps", "unpckhps"} -> Shuffle(s, i)

VectorInit ==
    /\ vec = [xmm |-> [r \in XmmRegisters |-> [l \in Lane |-> 50 + r]],
              mem |-> [a \in 0 .. 31 |-> IF a < Result THEN a ELSE 0]]
    /\ vprogram \in {[code |-> p.code, want |-> p.want, at |-> 1] : p \in VectorPrograms}

VectorNext ==
    /\ vprogram.at <= Len(vprogram.code)
    /\ vec' = ExecuteVector(vec, vprogram.code[vprogram.at])
    /\ vprogram' = [vprogram EXCEPT !.at = @ + 1]
    /\ UNCHANGED vprobe

-----------------------------------------------------------------------------
(* Properties *)

\* The idioms compilers build from these moves come out as meant: a matrix
\* transposed by unpacks and half moves, a vector gathered from scalars or
\* moved by halves, rotations by shuffles, a scalar replaced in place, lanes
\* selected under a comparison's mask.
VectorIdioms ==
    vprogram.at > Len(vprogram.code) =>
        \A k \in DOMAIN vprogram.want : vec.mem[Result + k - 1] = vprogram.want[k]

\* minss after maxss clamps into a range whose lower bound answers for NaN,
\* the asymmetry sse_min documents ("titles exploit it for clamping").
ClampsByOrder ==
    vprobe.kind = "clamp" =>
        LET r == SseMin(SseMax(vprobe.a, vprobe.lo), vprobe.hi)
        IN  IF vprobe.a = NaN THEN r = vprobe.lo
            ELSE r \in vprobe.lo .. vprobe.hi /\ (vprobe.a \in vprobe.lo .. vprobe.hi => r = vprobe.a)

\* Each comparison predicate is the exact complement of the one four above
\* it, NaN operands included, which is why both exist.
PredicatesComplement ==
    vprobe.kind = "pair" =>
        \A k \in 0 .. 3 : ComparePredicate(k, vprobe.a, vprobe.b) # ComparePredicate(k + 4, vprobe.a, vprobe.b)

\* comiss and the x87 fcomi report any two values with the same flags.
UnitsCompareAlike ==
    vprobe.kind = "pair" => ComissFlags(vprobe.a, vprobe.b) = CompareFlags(Ordering(vprobe.a, vprobe.b))

\* A conversion is the indefinite value exactly when its rounded operand does
\* not fit, is within one of it otherwise on the side its mode says, and to
\* nearest is the rounding of the x87.
ConversionsRound ==
    vprobe.kind = "round" =>
        LET q == vprobe.q
            r(mode) == RoundByMxcsr(mode, q)
        IN  /\ 4 * r(1) \in q - 3 .. q /\ 4 * r(2) \in q .. q + 3
            /\ r(3) = IF q < 0 THEN r(2) ELSE r(1)
            /\ r(0) = RoundToNearestEven(q)
            /\ \A mode \in 0 .. 3 :
                  Cvtss2si(mode, q) = IF r(mode) \in - StoreMax - 1 .. StoreMax THEN r(mode) ELSE Missing


\* The floating-point and vector units compute what the clauses above and
\* those of FloatUnit define, and where both implement an operation, the same
\* (x87.rs, sse.rs).
UnitsAgree ==
    /\ CompareFormsAgree /\ IntegerStoresNearest /\ ExtendedSurvives
    /\ VectorIdioms /\ ClampsByOrder /\ PredicatesComplement
    /\ UnitsCompareAlike /\ ConversionsRound
=============================================================================
