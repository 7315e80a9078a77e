-------------------------- MODULE MCInterpreter --------------------------
(* The instances of the processor's modules that TLC checks together. *)
EXTENDS Translator, VectorUnit, TLC

VARIABLE part   \* the component a behaviour exercises; the others rest

-----------------------------------------------------------------------------
(* Operands of the arithmetic *)

Operands(w) == 0 .. Size(w) - 1
MCProbes == UNION {{[w |-> w, a |-> a, b |-> b, c |-> c, n |-> n] :
                a \in Operands(w), b \in Operands(w), c \in {0, 1}, n \in 0 .. 9} : w \in {"B", "W"}}

-----------------------------------------------------------------------------
(* Programs: instructions of two bytes from address 28, across a page end   *)

R(r) == Register(r)
H(r) == [Register(r) EXCEPT !.high = TRUE]
Imm(x) == [k |-> "imm", value |-> x]
M(base, disp) == [k |-> "mem", base |-> base, index |-> NoRegister, scale |-> 1, disp |-> disp,
                  seg |-> "ds", short |-> FALSE]
Blank == [kind |-> "nop", op |-> "none", w |-> "D", dst |-> R(EAX), src |-> R(EBX), len |-> 2]
I(kind, fields) == fields @@ [Blank EXCEPT !.kind = kind]

\* EBX addresses the last bytes of page 8, ESP the middle of page 12.
Registers == [r \in EAX .. EDI |-> CASE r = EAX -> 7 [] r = ECX -> 3 [] r = EDX -> 1 [] r = EBX -> 142
                                     [] r = ESP -> 200 [] r = EBP -> 201 [] r = ESI -> 138 [] r = EDI -> 150]
Program(tag, instructions, registers, flags, missing, rights) ==
    [code |-> [a \in {26 + 2 * k : k \in DOMAIN instructions} |-> instructions[(a - 26) \div 2]],
     exit |-> 28 + 2 * Len(instructions), tag |-> tag, gpr |-> registers, eip |-> 28,
     flags |-> flags, tsc |-> 0, mem |-> [a \in 128 .. 239 |-> (a + a \div 3) % 4],
     pages |-> [p \in 0 .. 15 |-> IF p \in missing THEN rights ELSE IF p < 8 THEN {"x"} ELSE {"r", "w"}],
     err |-> "none"]

Edge == M(EBX, 0)   \* straddles pages 8 and 9
Ops(kind, ops, fields) == {I(kind, ("op" :> o) @@ fields) : o \in ops}
OnEdge == ("dst" :> Edge) @@ ("src" :> R(EDX))

\* One instruction of each family, most with a memory operand over two pages.
Singles ==
    Ops("alu", {"add", "adc", "sub", "sbb", "and", "or", "xor", "cmp", "test"}, OnEdge)
    \cup {I("mov", [dst |-> o, src |-> R(EDX), w |-> w]) : o \in {Edge, R(EAX)}, w \in {"B", "W", "D"}}
    \cup Ops("widen", {"movsx", "movzx"}, [src |-> Edge, narrow |-> "W"])
    \cup {I("lea", [src |-> M(EBX, 200)]), I("xchg", OnEdge), I("xadd", OnEdge), I("xadd", [dst |-> R(EDX), src |-> R(EAX)]),
          I("bswap", [dst |-> R(EBX)]), I("cmpxchg8b", OnEdge), I("mov", [dst |-> [Edge EXCEPT !.short = TRUE]])}
    \cup {I("cmpxchg", [dst |-> o, src |-> R(EDX), w |-> "B"]) : o \in {Edge, R(EAX), H(EAX)}}
    \cup Ops("unary", {"inc", "dec", "neg", "not"}, OnEdge)
    \cup {I("shift", [op |-> o, dst |-> Edge, count |-> c]) : o \in ShiftKinds, c \in {InCL, 0}}
    \cup {I("double", [op |-> "shld", dst |-> Edge, src |-> R(EDX), count |-> c, w |-> "W"]) : c \in {InCL, 0}}
    \cup Ops("mul", {"mul", "imul"}, [src |-> Edge, w |-> "W"])
    \cup {I("imul", [first |-> R(EBX), src |-> Edge, w |-> "D"])}
    \cup {I("div", [op |-> o, src |-> x, w |-> "W"]) : o \in {"div", "idiv"}, x \in {Edge, Imm(0)}}
    \cup {I("bt", [op |-> o, dst |-> Edge, src |-> x, w |-> "W"]) : o \in {"bt", "bts", "btr", "btc"}, x \in {R(ECX), R(EBX), Imm(1)}}
    \cup {I("scan", [op |-> o, src |-> x]) : o \in {"bsf", "bsr"}, x \in {Edge, Imm(0)}}
    \cup Ops("extend", {"cbw", "cwde", "cwd", "cdq"}, OnEdge)
    \cup Ops("flag", {"clc", "stc", "cmc", "cld", "std", "cli", "sti"}, OnEdge)
    \cup {I("setcc", [dst |-> Edge, cond |-> "e"]), I("cmov", [src |-> Edge, cond |-> "e"]), I("rdtsc", OnEdge),
          I("port", [op |-> "in", w |-> "W"]), I("port", [op |-> "out", w |-> "B"]), I("nop", OnEdge)}
    \cup {I("pop", [dst |-> Edge, w |-> w]) : w \in {"W", "D"}}
    \cup {I("push", [src |-> Edge, w |-> "D"])}
SinglePrograms == {Program("one", <<i>>, Registers, {"CF"}, {8, 9}, r) : i \in Singles, r \in {{}, {"r"}}}

\* Branches: the target is the last instruction, the others count in EDX.
Count == I("unary", [op |-> "inc", dst |-> R(EDX)])
BranchPrograms ==
    {Program("one", <<Count, i, Count, Count>>, Registers, {"ZF"}, {2, 8}, {}) : i \in
        {I("jmp", [to |-> "near", target |-> 34]), I("jcc", [cond |-> "e", target |-> 34]), I("jcc", [cond |-> "ne", target |-> 34]),
         I("jecxz", [target |-> 34])} \cup Ops("loop", {"loop", "loope", "loopne"}, [target |-> 28])}
    \cup {Program("one", <<Count, I("jmp", [to |-> t, src |-> IF t = "reg" THEN R(EBP) ELSE Edge]), Count>>,
                  [Registers EXCEPT ![EBP] = 32, ![EBX] = 142], {}, {8, 9}, {}) : t \in {"reg", "mem"}}

\* Strings: three elements from page 8 into page 9, overlapping, and backwards.
StringPrograms ==
    {Program("string", <<I("string", [op |-> o, w |-> w, rep |-> r, seg |-> "ds"])>>,
             [Registers EXCEPT ![ECX] = x[1], ![ESI] = 141, ![EDI] = x[2]], x[3], {8, 9}, {}) :
        o \in {"movs", "stos", "lods", "scas", "cmps"}, w \in {"B", "W"}, r \in {"none", "rep", "repne"},
        x \in {<<0, 150, {}>>, <<5, 143, {}>>, <<5, 150, {"DF"}>>}}

\* Balanced sequences on a stack that spans two pages.
Balanced ==
    {<<I("push", [src |-> R(r), w |-> w]), I("pop", [dst |-> R(r), w |-> w])>> : r \in {EAX, ESP}, w \in {"W", "D"}}
    \cup {<<I("pushad", OnEdge), I("mov", [dst |-> R(EDX), src |-> R(ECX)]), I("popad", OnEdge)>>,
          <<I("pushfd", OnEdge), I("flag", [op |-> "std"]), I("flag", [op |-> "stc"]), I("popfd", OnEdge)>>,
          <<I("push", [src |-> R(EBP)]), I("mov", [dst |-> R(EBP), src |-> R(ESP)]), I("push", [src |-> R(EAX)]), I("leave", OnEdge)>>,
          <<I("call", [to |-> "near", target |-> 32]), I("jmp", [to |-> "near", target |-> 34]), I("ret", [pops |-> 0])>>,
          <<I("push", [src |-> R(EAX)]), I("call", [to |-> "near", target |-> 34]),
            I("jmp", [to |-> "near", target |-> 36]), I("ret", [pops |-> 4])>>}
RoundPrograms == {Program("round", b, [Registers EXCEPT ![ESP] = e], {"CF", "OF"}, {11, 12}, {}) : b \in Balanced, e \in {194, 224}}

MCPrograms == SinglePrograms \cup BranchPrograms \cup StringPrograms \cup RoundPrograms
MCSegments == [g \in {"ds", "es"} |-> 0]

-----------------------------------------------------------------------------
(* Floating point: stacks of four slots, scaled-down doubles, quarters      *)

MCFloatProbes ==
    {[kind |-> "pair", a |-> a, b |-> b] : a, b \in FloatValues}
    \cup {[kind |-> "quarters", q |-> q] : q \in -30 .. 30}
    \cup {[kind |-> "double", d |-> [neg |-> g, exp |-> e, frac |-> f]] :
            g \in BOOLEAN, e \in 0 .. 15, f \in 0 .. 7}
NoProbe == [kind |-> "none"]

-----------------------------------------------------------------------------
(* Vectors: memory lanes 0..15 hold 0..15; answers go to lanes 16 and up    *)

Xr(r) == [k |-> "x", r |-> r]
Ml(a) == [k |-> "m", a |-> a]
V(op, d, s) == [op |-> op, dst |-> d, src |-> s]
Shuf(d, s, sel) == [op |-> "shufps", dst |-> d, src |-> s, sel |-> sel]
Seen(r) == V("movaps", Ml(16), Xr(r))
Transpose ==
    [code |-> <<V("movaps", Xr(0), Ml(0)), V("movaps", Xr(1), Ml(4)), V("movaps", Xr(2), Ml(8)), V("movaps", Xr(3), Ml(12)),
                V("movaps", Xr(4), Xr(0)), V("unpcklps", Xr(4), Xr(1)), V("unpckhps", Xr(0), Xr(1)),
                V("movaps", Xr(5), Xr(2)), V("unpcklps", Xr(5), Xr(3)), V("unpckhps", Xr(2), Xr(3)),
                V("movaps", Xr(6), Xr(4)), V("movlhps", Xr(6), Xr(5)), V("movhlps", Xr(5), Xr(4)),
                V("movaps", Xr(7), Xr(0)), V("movlhps", Xr(7), Xr(2)), V("movhlps", Xr(2), Xr(0)),
                Seen(6), V("movaps", Ml(20), Xr(5)), V("movaps", Ml(24), Xr(7)), V("movaps", Ml(28), Xr(2))>>,
     want |-> <<0, 4, 8, 12, 1, 5, 9, 13, 2, 6, 10, 14, 3, 7, 11, 15>>]
ByHalves ==
    [code |-> <<V("movlps", Xr(0), Ml(3)), V("movhps", Xr(0), Ml(5)), V("movlps", Ml(17), Xr(0)), V("movhps", Ml(19), Xr(0))>>,
     want |-> <<0, 3, 4, 5, 6, 0>>]
Gather ==
    [code |-> <<V("movss", Xr(0), Ml(1)), V("movss", Xr(1), Ml(2)), V("movss", Xr(2), Ml(5)), V("movss", Xr(3), Ml(9)),
                V("unpcklps", Xr(0), Xr(1)), V("unpcklps", Xr(2), Xr(3)), V("movlhps", Xr(0), Xr(2)),
                Seen(0), V("movss", Ml(20), Xr(2))>>,
     want |-> <<1, 2, 5, 9, 5, 0>>]
ReplaceLane ==
    [code |-> <<V("movaps", Xr(0), Ml(4)), V("movss", Xr(1), Ml(1)), Shuf(Xr(0), Xr(0), <<1, 2, 3, 0>>),
                V("movss", Xr(0), Xr(1)), Shuf(Xr(0), Xr(0), <<3, 0, 1, 2>>), Seen(0), V("movaps", Ml(20), Xr(1))>>,
     want |-> <<4, 1, 6, 7, 1, 0, 0, 0>>]
Bounded ==
    [code |-> <<V("movaps", Xr(0), Ml(4)), V("minps", Xr(0), Ml(3)), V("maxss", Xr(0), Ml(9)), Seen(0)>>,
     want |-> <<9, 4, 5, 6>>]
\* Lane by lane, the smaller of 4, 5, 6, 7 and 5, 2, 5, 3 under a mask.
Select ==
    [code |-> <<V("movaps", Xr(0), Ml(4)), V("movaps", Xr(1), Ml(2)), Shuf(Xr(1), Xr(1), <<3, 0, 3, 1>>), V("movaps", Xr(2), Xr(1)),
                [op |-> "cmpps", dst |-> Xr(2), src |-> Xr(0), sel |-> 1], V("movaps", Xr(3), Xr(2)),
                V("andps", Xr(2), Xr(1)), V("andnps", Xr(3), Xr(0)), V("orps", Xr(2), Xr(3)), Seen(2)>>,
     want |-> <<4, 2, 5, 3>>]
Still == [code |-> <<>>, want |-> <<>>]
MCVectorPrograms == {Transpose, ByHalves, Gather, ReplaceLane, Bounded, Select, Still}
MCVectorProbes ==
    {[kind |-> "pair", a |-> a, b |-> b] : a, b \in {NaN} \cup 0 .. 3}
    \cup {[kind |-> "clamp", a |-> a, lo |-> l, hi |-> h] : a \in {NaN} \cup 0 .. 6, l \in 1 .. 3, h \in 3 .. 5}
    \cup {[kind |-> "round", q |-> q] : q \in -30 .. 30}

-----------------------------------------------------------------------------
(* Translated blocks: subset instructions, then one outside the subset      *)

InSubset == {I("alu", [op |-> o, src |-> x]) : o \in {"add", "sub", "and", "xor"}, x \in {R(EBX), Imm(255)}}
            \cup {I("mov", [dst |-> R(ECX), src |-> R(EAX)]), Blank}
Outside == {I("unary", [op |-> "inc", dst |-> R(EDX)]), I("alu", [op |-> "or", w |-> "W"]),
            I("mov", [src |-> M(ESP, 0)]), I("jmp", [to |-> "near", target |-> 28]), Blank}
MCBlocks ==
    {Program("block", <<i, j, k>>, [Registers EXCEPT ![EAX] = a, ![EBX] = 254], f, 0 .. 15, Everything) :
        i \in InSubset, j \in InSubset, k \in Outside, a \in {2, 130}, f \in {{"AF"}}}
Resting == Program("rest", <<>>, Registers, {}, {}, {})

-----------------------------------------------------------------------------
Rested(p, started, rest) == IF part = p THEN started ELSE rest

ProcessorParts == {"alu", "step", "stack", "float", "lanes", "vector", "block"}

ProcessorInit ==
    /\ Rested("alu", AluInit, probe = NoOperands)
    /\ Rested("step", InterpreterInit, machine = Resting /\ start = AllPages(Resting))
    /\ FloatInit
    /\ Rested("float", fprobe \in FloatProbes, fprobe = NoProbe)
    /\ VectorInit /\ (part # "lanes" => vprogram.code = <<>>)
    /\ Rested("vector", vprobe \in VectorProbes, vprobe = NoProbe)
    /\ Rested("block", TranslatorInit,
              /\ guest = Resting /\ host = [at |-> 1] /\ emitted = [ops |-> <<>>, count |-> 0]
              /\ block = [list |-> <<>>, entry |-> Resting])

processorVars == <<probe, interpreterVars, floatVars, vectorVars, translatorVars>>

ProcessorNext ==
    /\ UNCHANGED probe
    /\ \/ part = "step" /\ InterpreterNext /\ UNCHANGED <<floatVars, vectorVars, translatorVars>>
       \/ part = "stack" /\ FloatNext /\ UNCHANGED <<interpreterVars, vectorVars, translatorVars>>
       \/ part = "lanes" /\ VectorNext /\ UNCHANGED <<interpreterVars, floatVars, translatorVars>>
       \/ part = "block" /\ TranslatorNext /\ UNCHANGED <<interpreterVars, floatVars, vectorVars>>

\* Only the exercised component tells states of one part apart.
ProcessorView ==
    <<part, CASE part = "alu" -> probe
              [] part = "step" -> interpreterVars
              [] part = "stack" -> floatVars
              [] part = "float" -> fprobe
              [] part = "lanes" -> vectorVars
              [] part = "vector" -> vprobe
              [] part = "block" -> translatorVars>>
=============================================================================
