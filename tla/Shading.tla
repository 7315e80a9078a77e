------------------------------ MODULE Shading ------------------------------
(***************************************************************************)
(* The programmable arithmetic of the graphics processor: the register     *)
(* combiners that colour a fragment (crates/exbawks-gpu/src/combiner.rs)   *)
(* and the vertex programs that place a vertex (shader.rs).                *)
(*                                                                         *)
(* A combiner value is a number of 1/Unit; the code computes in f32, so a  *)
(* product rounds here to a whole unit.  A control word is a record of its *)
(* fields: an input is [reg, alpha, map], a portion [a, b, c, d, ab, cd,   *)
(* sum, abDot, cdDot, mux, scale].  Registers are named, and each holds    *)
(* <<red, green, blue, alpha>>.                                            *)
(***************************************************************************)
EXTENDS Integers, Sequences, FiniteSets, FiniteSetsExt

Unit == 4080
Lanes == 1..4
LaneMax(a, b) == IF a > b THEN a ELSE b
LaneMin(a, b) == IF a < b THEN a ELSE b
Clamped(v, low, high) == LaneMax(low, LaneMin(v, high))
Times(a, b) == (a * b) \div Unit

STAGES == 8
Zero == [i \in Lanes |-> 0]
Scratch == {"diffuse", "specular", "texture0", "texture1", "texture2", "texture3", "spare0", "spare1"}
RegisterNames == Scratch \cup {"constant0", "constant1", "fog"}

\* A code that names no register reads zero.
ReadRegister(reg, regs) == IF reg \in RegisterNames THEN regs[reg] ELSE Zero

\* The eight input mappings.
MapInput(mapping, v) ==
  CASE mapping = "unsigned" -> LaneMax(v, 0)
    [] mapping = "invert" -> Unit - Clamped(v, 0, Unit)
    [] mapping = "expand" -> 2 * LaneMax(v, 0) - Unit
    [] mapping = "expandNegate" -> Unit - 2 * LaneMax(v, 0)
    [] mapping = "halfBias" -> LaneMax(v, 0) - Unit \div 2
    [] mapping = "halfBiasNegate" -> Unit \div 2 - LaneMax(v, 0)
    [] mapping = "signed" -> v
    [] mapping = "negate" -> -v

\* An alpha portion reads alpha whatever the field says.
ReadVariable(input, regs, alphaPortion) ==
  LET value == ReadRegister(input.reg, regs)
  IN [i \in Lanes |-> MapInput(input.map, value[IF input.alpha \/ alphaPortion THEN 4 ELSE i])]

ScaleAndBias(scale, v) ==
  CASE scale = "bias" -> v - Unit \div 2
    [] scale = "double" -> v * 2
    [] scale = "biasDouble" -> (v - Unit \div 2) * 2
    [] scale = "quadruple" -> v * 4
    [] scale = "half" -> v \div 2
    [] scale = "none" -> v

\* Zero, fog and the constants discard what a stage writes; a portion writes
\* only its own lanes.
WriteRegister(reg, value, regs, alphaOnly) ==
  IF reg \notin Scratch THEN regs
  ELSE [regs EXCEPT ![reg] = [i \in Lanes |-> IF alphaOnly = (i = 4) THEN value[i] ELSE @[i]]]

Dot(l, r) == [i \in Lanes |-> Times(l[1], r[1]) + Times(l[2], r[2]) + Times(l[3], r[3])]

\* The three results of a portion, from the registers it reads.
PortionResults(p, regs, alphaPortion) ==
  LET Read(input) == ReadVariable(input, regs, alphaPortion)
      Product(l, r, dot) == IF dot /\ ~alphaPortion THEN Dot(l, r) ELSE [i \in Lanes |-> Times(l[i], r[i])]
      ab == Product(Read(p.a), Read(p.b), p.abDot)
      cd == Product(Read(p.c), Read(p.d), p.cdDot)
      sum == IF p.mux THEN (IF 2 * regs["spare0"][4] >= Unit THEN cd ELSE ab)
             ELSE [i \in Lanes |-> ab[i] + cd[i]]
      Scaled(v) == [i \in Lanes |-> ScaleAndBias(p.scale, v[i])]
  IN [ab |-> Scaled(ab), cd |-> Scaled(cd), sum |-> Scaled(sum)]

\* They are written cd first, then ab, then the sum unless a dot consumed it.
WriteResults(p, results, regs, alphaPortion) ==
  LET second == WriteRegister(p.cd, results.cd, regs, alphaPortion)
      first == WriteRegister(p.ab, results.ab, second, alphaPortion)
  IN IF ~alphaPortion /\ (p.abDot \/ p.cdDot) THEN first
     ELSE WriteRegister(p.sum, results.sum, first, alphaPortion)

RunPortion(p, regs, alphaPortion) ==
  WriteResults(p, PortionResults(p, regs, alphaPortion), regs, alphaPortion)

\* Mutant: the portions run in the other order.
RunStageAlphaFirst(stage, regs) ==
  LET loaded == [regs EXCEPT !["constant0"] = stage.factor0, !["constant1"] = stage.factor1]
  IN RunPortion(stage.color, RunPortion(stage.alpha, loaded, TRUE), FALSE)

RunStage(stage, regs) ==
  LET loaded == [regs EXCEPT !["constant0"] = stage.factor0, !["constant1"] = stage.factor1]
  IN RunPortion(stage.alpha, RunPortion(stage.color, loaded, FALSE), TRUE)

Blended(a, b, c, d) == Times(a, b) + Times(Unit - a, c) + d

\* The final stage: A.B + (1 - A).C + D, and alpha from G.  Its inputs are
\* [reg, alpha, invert]; spare0 + specular and E.F are readable only here.
RunFinal(final, regs) ==
  LET Plain(input) == ReadVariable([reg |-> input.reg, alpha |-> input.alpha,
                                    map |-> IF input.invert THEN "invert" ELSE "unsigned"], regs, FALSE)
      product == [i \in Lanes |-> Times(Plain(final.e)[i], Plain(final.f)[i])]
      Value(input) ==
        LET v == CASE input.reg = "spare0+specular" -> [i \in Lanes |-> regs["spare0"][i] + regs["specular"][i]]
                   [] input.reg = "product" -> product
                   [] OTHER -> ReadRegister(input.reg, regs)
        IN [i \in Lanes |-> LET w == v[IF input.alpha THEN 4 ELSE i] IN IF input.invert THEN Unit - w ELSE w]
      A == Value(final.a)
      B == Value(final.b)
      C == Value(final.c)
      D == Value(final.d)
  IN [i \in Lanes |-> IF i = 4 THEN Value(final.g)[4]
                      ELSE Blended(A[i], B[i], C[i], D[i])]

StagesRun(program, regs) ==
  LET active == LaneMin(program.active, STAGES)
      after[n \in 0..active] == IF n = 0 THEN regs ELSE RunStage(program.stages[n], after[n - 1])
  IN after[active]

ToByte(v) == (2 * 255 * Clamped(v, 0, Unit) + Unit) \div (2 * Unit)
\* The pixel, in 0..255 per channel.  A state with neither stages nor a final
\* word is no program; the caller asks only when Programmed.
Programmed(program) == program.active > 0 \/ program.hasFinal
Output(program, regs) == IF program.hasFinal THEN RunFinal(program.final, regs) ELSE regs["spare0"]
Quantised(color) == [i \in Lanes |-> ToByte(color[i])]
Evaluate(program, registers) == Quantised(Output(program, StagesRun(program, registers)))

-----------------------------------------------------------------------------
(* Vertex programs.  An instruction is [vector, scalar, a, b, c, temp,     *)
(* tempMask, tempScalarMask, outMask, out, toOutput, outScalar, final]; a  *)
(* source is [kind, index, swizzle, negate].                               *)
TEMPORARY_REGISTERS == 12
OUTPUT_REGISTERS == 16
MAX_STEPS == 512
Largest == 1000000

Source(s, temps, inputs, constants) ==
  LET file == CASE s.kind = "temporary" -> temps [] s.kind = "input" -> inputs [] OTHER -> constants
      value == IF s.index \in DOMAIN file THEN file[s.index] ELSE Zero
  IN [i \in Lanes |-> IF s.negate THEN -value[s.swizzle[i]] ELSE value[s.swizzle[i]]]

WriteMasked(target, value, mask) == [i \in Lanes |-> IF i \in mask THEN value[i] ELSE target[i]]

\* The multiply-accumulate unit.
MultiplyAccumulate(opcode, a, b, c) ==
  LET Products(n) == IF n = 3 THEN a[1] * b[1] + a[2] * b[2] + a[3] * b[3]
                     ELSE a[1] * b[1] + a[2] * b[2] + a[3] * b[3] + a[4] * b[4]
      Lane(i) ==
        CASE opcode = "mov" -> a[i]
          [] opcode = "mul" -> a[i] * b[i]
          [] opcode = "add" -> a[i] + c[i]
          [] opcode = "mad" -> a[i] * b[i] + c[i]
          [] opcode = "dp3" -> Products(3)
          [] opcode = "dph" -> Products(3) + b[4]
          [] opcode = "dp4" -> Products(4)
          [] opcode = "dst" -> <<1, a[2] * b[2], a[3], b[4]>>[i]
          [] opcode = "min" -> LaneMin(a[i], b[i])
          [] opcode = "max" -> LaneMax(a[i], b[i])
          [] opcode = "slt" -> IF a[i] < b[i] THEN 1 ELSE 0
          [] opcode = "sge" -> IF a[i] >= b[i] THEN 1 ELSE 0
          [] OTHER -> 0
  IN [i \in Lanes |-> Lane(i)]

\* The scalar unit reads the first lane of its third source; the transcendental
\* operations are given where they are whole, at -1, 0 and 1, and saturate at
\* zero.
Scalar(opcode, c) ==
  LET v == c[1]
  IN [i \in Lanes |-> CASE opcode = "mov" -> v
                        [] opcode = "rcp" -> IF v = 0 THEN Largest ELSE v
                        [] opcode = "rsq" -> IF v = 0 THEN Largest ELSE 1
                        [] opcode = "exp" -> IF v > 0 THEN 2 ELSE IF v = 0 THEN 1 ELSE 0
                        [] opcode = "log" -> IF v = 0 THEN -Largest ELSE 0
                        [] OTHER -> 0]

Empty(instruction) == instruction.vector = "nop" /\ instruction.scalar = "nop" /\ ~instruction.final

\* One instruction: both units read before either writes; the temporary takes
\* the vector result, then the scalar one, and then the output is written.
Issue(s, w, inputs, constants) ==
  LET A == Source(w.a, s.temps, inputs, constants)
      B == Source(w.b, s.temps, inputs, constants)
      C == Source(w.c, s.temps, inputs, constants)
      vector == MultiplyAccumulate(w.vector, A, B, C)
      scalar == Scalar(w.scalar, C)
      Masked(t, on, v, mask) == IF on THEN WriteMasked(t, v, mask) ELSE t
      temps == IF w.temp \notin DOMAIN s.temps THEN s.temps
               ELSE [s.temps EXCEPT ![w.temp] =
                       Masked(Masked(@, w.vector # "nop", vector, w.tempMask), w.scalar # "nop", scalar, w.tempScalarMask)]
      value == IF w.outScalar THEN scalar ELSE vector
      Written(file) == IF w.out \in DOMAIN file THEN [file EXCEPT ![w.out] = WriteMasked(@, value, w.outMask)] ELSE file
  IN [s EXCEPT !.temps = IF w.toOutput THEN temps ELSE Written(temps),
               !.outputs = IF w.toOutput THEN Written(@) ELSE @,
               !.executed = TRUE,
               !.stopped = w.final]

\* An empty slot before the program is padding; after it has begun, its end.
StepProgram(s, w, inputs, constants) ==
  IF s.stopped THEN s
  ELSE IF Empty(w) THEN [s EXCEPT !.stopped = s.executed]
  ELSE Issue(s, w, inputs, constants)

Execute(program, inputs, constants) ==
  LET n == LaneMin(Len(program), MAX_STEPS)
      start == [temps |-> [i \in 0..TEMPORARY_REGISTERS - 1 |-> Zero],
                outputs |-> [i \in 0..OUTPUT_REGISTERS - 1 |-> Zero], executed |-> FALSE, stopped |-> FALSE]
      after[i \in 0..n] == IF i = 0 THEN start ELSE StepProgram(after[i - 1], program[i], inputs, constants)
  IN [executed |-> after[n].executed, outputs |-> after[n].outputs]

-----------------------------------------------------------------------------
(* One state per operand: a combiner stage with its registers, a final     *)
(* stage, or a vertex program with its inputs.                             *)
CONSTANTS Stages, Finals, VertexPrograms
VARIABLE shade

ShadeInit ==
  shade \in {[k |-> "stage", s |-> c.stage, regs |-> c.regs] : c \in Stages}
        \cup {[k |-> "final", s |-> c.final, regs |-> c.regs] : c \in Finals}
        \cup {[k |-> "vertex", s |-> c.program, regs |-> c.inputs] : c \in VertexPrograms}

\* The colour and alpha portions of a combiner stage act at once: running the
\* colour portion and then the alpha portion over the registers it has already
\* changed gives what both give from the registers as the stage found them.
\* Colour writes no alpha and alpha reads nothing else (run_portion).
StageIsSimultaneous ==
  shade.k = "stage" =>
    LET s == shade.s
        loaded == [shade.regs EXCEPT !["constant0"] = s.factor0, !["constant1"] = s.factor1]
        color == PortionResults(s.color, loaded, FALSE)
        alpha == PortionResults(s.alpha, loaded, TRUE)
    IN RunStage(s, shade.regs) = WriteResults(s.alpha, alpha, WriteResults(s.color, color, loaded, FALSE), TRUE)

\* A final stage with nothing added blends: whatever A is, inverted, broadcast
\* or plain, every colour channel of the pixel lies between what B and C are
\* (run_final computes A.B + (1 - A).C + D), and the rounding to a byte adds
\* nothing.
FinalBlends ==
  (shade.k = "final" /\ shade.s.d.reg = "zero" /\ ~shade.s.d.invert) =>
    LET f == shade.s
        Byte(input, i) == LET v == ReadRegister(input.reg, shade.regs)[IF input.alpha THEN 4 ELSE i]
                          IN ToByte(IF input.invert THEN Unit - v ELSE v)
        Between(pixel) == \A i \in 1..3 : LET ends == {Byte(f.b, i), Byte(f.c, i)} IN pixel[i] \in Min(ends)..Max(ends)
    IN Between(Evaluate([active |-> 0, stages |-> <<>>, hasFinal |-> TRUE, final |-> f], shade.regs))

\* Where a vertex program sits in its slots does not matter: empty slots before
\* it are padding, and nothing after its final instruction, or after the first
\* empty slot once it has begun, is run (execute).
PaddingIgnored ==
  shade.k = "vertex" =>
    LET p == shade.s
        empty == [p[1] EXCEPT !.vector = "nop", !.scalar = "nop", !.final = FALSE]
        ended == p[Len(p)].final
    IN Execute(p, shade.regs, <<>>) =
         Execute(<<empty, empty>> \o p \o (IF ended THEN p ELSE <<empty>> \o p), shade.regs, <<>>)


\* Combiners and vertex programs compute what the clauses above define
\* (combiner.rs run_stage and run_final, shader.rs execute).
ShadingAgrees == StageIsSimultaneous /\ FinalBlends /\ PaddingIgnored
=============================================================================
